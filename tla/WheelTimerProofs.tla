---------------------------- MODULE WheelTimerProofs ----------------------------
(***************************************************************************)
(* Proofs about WheelTimer, for a wheel of any size, any timeouts and any  *)
(* number of timers.                                                       *)
(***************************************************************************)
EXTENDS WheelTimer, FiniteSetTheorems, WellFoundedInduction, TLAPS

-----------------------------------------------------------------------------
(* Handles that are filed in lists: one for each slot, and -1 for the       *)
(* handles that a visit has yet to look at.                                 *)

Lists == Slots \union {-1}

lists == [s \in Lists |-> IF s = -1 THEN handles ELSE slots[s]]

Filing == [Lists -> Seq(Handle)]

In(L, s, h) == \E k \in 1 .. Len(L[s]) : L[s][k] = h

\* The entries that have a handle.
Indices(L) ==
  {i \in Nat : \E s \in Lists : \E k \in 1 .. Len(L[s]) : L[s][k].index = i}

\* No entry has two.
Apart(L) ==
  \A s, u \in Lists : \A k \in 1 .. Len(L[s]), l \in 1 .. Len(L[u]) :
    L[s][k].index = L[u][l].index => s = u /\ k = l

LEMMA TailOf ==
  ASSUME NEW S, NEW s \in Seq(S), s # <<>>
  PROVE  /\ Tail(s) \in Seq(S)
         /\ Len(s) \in Nat \ {0} /\ Len(Tail(s)) = Len(s) - 1
         /\ Head(s) = s[1] /\ Head(s) \in S
         /\ \A i \in 1 .. Len(Tail(s)) : i + 1 \in 1 .. Len(s) /\ Tail(s)[i] = s[i + 1]
<1>1. Tail(s) \in Seq(S) /\ Len(s) \in Nat \ {0} /\ Len(Tail(s)) = Len(s) - 1
  OBVIOUS
<1>2. \A i \in 1 .. Len(s) - 1 : Tail(s)[i] = s[i + 1]
  BY <1>1
<1>. QED  BY <1>1, <1>2

LEMMA AppendOf ==
  ASSUME NEW S, NEW s \in Seq(S), NEW e \in S
  PROVE  /\ Append(s, e) \in Seq(S)
         /\ Len(s) \in Nat /\ Len(Append(s, e)) = Len(s) + 1
         /\ Append(s, e)[Len(s) + 1] = e
         /\ \A i \in 1 .. Len(s) : Append(s, e)[i] = s[i]
OBVIOUS

LEMMA HandleParts ==
  ASSUME NEW L \in Filing, NEW s \in Lists, NEW k \in 1 .. Len(L[s])
  PROVE  L[s][k] \in Handle /\ L[s][k].index \in Nat /\ L[s][k].index \in Indices(L)
<1>1. L[s] \in Seq(Handle)
  BY DEF Filing
<1>2. L[s][k] \in Handle
  BY <1>1
<1>. QED  BY <1>2 DEF Handle, Indices

\* A handle is put at the end of a list.
LEMMA HandleFiled ==
  ASSUME NEW L \in Filing, NEW s \in Lists, NEW h \in Handle
  PROVE  LET M == [L EXCEPT ![s] = Append(L[s], h)]
         IN  /\ M \in Filing
             /\ Indices(M) = Indices(L) \union {h.index}
             /\ \A u \in Lists : \A g : In(M, u, g) <=> In(L, u, g) \/ (u = s /\ g = h)
             /\ Apart(L) /\ h.index \notin Indices(L) => Apart(M)
<1>. DEFINE M == [L EXCEPT ![s] = Append(L[s], h)]
<1>1. L[s] \in Seq(Handle) /\ h.index \in Nat
  BY DEF Filing, Handle
<1>2. M \in Filing
  BY <1>1 DEF Filing
<1>3. /\ Len(L[s]) \in Nat /\ Len(M[s]) = Len(L[s]) + 1
      /\ M[s][Len(L[s]) + 1] = h
      /\ \A i \in 1 .. Len(L[s]) : M[s][i] = L[s][i]
      /\ \A u \in Lists : u # s => M[u] = L[u]
  BY <1>1, AppendOf DEF Filing
<1>. HIDE DEF M
<1>4. \A u \in Lists : Len(L[u]) \in Nat /\ Len(M[u]) \in Nat
  BY <1>2 DEF Filing
<1>5. \A u \in Lists, k \in Nat :
        k \in 1 .. Len(M[u]) <=> k \in 1 .. Len(L[u]) \/ (u = s /\ k = Len(L[s]) + 1)
  BY <1>3, <1>4
<1>6. \A u \in Lists : \A k \in 1 .. Len(L[u]) : k \in 1 .. Len(M[u]) /\ M[u][k] = L[u][k]
  BY <1>3, <1>4
<1>7. Indices(M) = Indices(L) \union {h.index}
  <2>1. ASSUME NEW u \in Lists, NEW k \in 1 .. Len(M[u])
        PROVE  M[u][k].index \in Indices(L) \union {h.index}
    <3>1. CASE k \in 1 .. Len(L[u])
      BY <3>1, <1>6, HandleParts
    <3>2. CASE u = s /\ k = Len(L[s]) + 1
      BY <3>2, <1>3
    <3>. QED  BY <3>1, <3>2, <1>5
  <2>2. ASSUME NEW u \in Lists, NEW k \in 1 .. Len(L[u])
        PROVE  L[u][k].index \in Indices(M)
    BY <1>2, <1>6, HandleParts
  <2>3. h.index \in Indices(M)
    <3>1. Len(L[s]) + 1 \in 1 .. Len(M[s])
      BY <1>3
    <3>. QED  BY <3>1, <1>2, <1>3, HandleParts
  <2>4. \A i \in Indices(M) : i \in Indices(L) \union {h.index}
    BY <2>1 DEF Indices
  <2>5. \A i \in Indices(L) : i \in Indices(M)
    BY <2>2 DEF Indices
  <2>. QED  BY <2>3, <2>4, <2>5
<1>8. ASSUME Apart(L), h.index \notin Indices(L)
      PROVE  Apart(M)
  <2>. SUFFICES ASSUME NEW u \in Lists, NEW v \in Lists,
                       NEW k \in 1 .. Len(M[u]), NEW l \in 1 .. Len(M[v]),
                       M[u][k].index = M[v][l].index
                PROVE  u = v /\ k = l
    BY DEF Apart
  <2>1. CASE k \in 1 .. Len(L[u]) /\ l \in 1 .. Len(L[v])
    <3>1. L[u][k].index = L[v][l].index
      BY <2>1, <1>6
    <3>. QED  BY <2>1, <3>1, <1>8 DEF Apart
  <2>2. CASE k \in 1 .. Len(L[u]) /\ v = s /\ l = Len(L[s]) + 1
    <3>1. L[u][k].index \in Indices(L) /\ M[u][k] = L[u][k]
      BY <2>2, <1>6, HandleParts
    <3>. QED  BY <2>2, <3>1, <1>3, <1>8
  <2>3. CASE u = s /\ k = Len(L[s]) + 1 /\ l \in 1 .. Len(L[v])
    <3>1. L[v][l].index \in Indices(L) /\ M[v][l] = L[v][l]
      BY <2>3, <1>6, HandleParts
    <3>. QED  BY <2>3, <3>1, <1>3, <1>8
  <2>. QED  BY <2>1, <2>2, <2>3, <1>5
<1>9. \A u \in Lists : \A g : In(M, u, g) <=> In(L, u, g) \/ (u = s /\ g = h)
  BY <1>3, <1>5, <1>6 DEF In
<1>. QED  BY <1>2, <1>7, <1>8, <1>9 DEF M

\* The first of the visit's handles is taken off its list.
LEMMA HandleTaken ==
  ASSUME NEW L \in Filing, L[-1] # <<>>, Apart(L)
  PROVE  LET M == [L EXCEPT ![-1] = Tail(L[-1])]
         IN  /\ M \in Filing
             /\ Indices(M) = Indices(L) \ {Head(L[-1]).index}
             /\ \A u \in Lists : \A g :
                  In(M, u, g) <=> In(L, u, g) /\ g.index # Head(L[-1]).index
             /\ Apart(M)
<1>. DEFINE M == [L EXCEPT ![-1] = Tail(L[-1])]
            h == Head(L[-1])
<1>1. L[-1] \in Seq(Handle) /\ -1 \in Lists
  BY DEF Filing, Lists
<1>2. /\ Tail(L[-1]) \in Seq(Handle) /\ Len(L[-1]) \in Nat \ {0}
      /\ Len(Tail(L[-1])) = Len(L[-1]) - 1 /\ h = L[-1][1]
      /\ \A i \in 1 .. Len(Tail(L[-1])) : i + 1 \in 1 .. Len(L[-1]) /\ Tail(L[-1])[i] = L[-1][i + 1]
  BY <1>1, TailOf
<1>3. M \in Filing
  BY <1>1, <1>2 DEF Filing
<1>4. /\ \A u \in Lists : u # -1 => M[u] = L[u]
      /\ M[-1] = Tail(L[-1])
  BY <1>1 DEF Filing
<1>. HIDE DEF M, h
<1>5. \A u \in Lists : Len(L[u]) \in Nat /\ Len(M[u]) \in Nat
  BY <1>3 DEF Filing
<1>. DEFINE Old(u, k) == IF u = -1 THEN k + 1 ELSE k
<1>6. ASSUME NEW u \in Lists, NEW k \in 1 .. Len(M[u])
      PROVE  /\ Old(u, k) \in 1 .. Len(L[u]) /\ M[u][k] = L[u][Old(u, k)]
             /\ ~(u = -1 /\ Old(u, k) = 1)
  <2>1. CASE u = -1
    <3>1. k \in 1 .. Len(Tail(L[-1])) /\ M[u] = Tail(L[-1]) /\ k # 0 /\ k \in Nat
      BY <2>1, <1>4, <1>6
    <3>. QED  BY <2>1, <3>1, <1>2
  <2>2. CASE u # -1
    BY <2>2, <1>4
  <2>. QED  BY <2>1, <2>2
<1>7. ASSUME NEW u \in Lists, NEW k \in 1 .. Len(L[u]), ~(u = -1 /\ k = 1)
      PROVE  \E l \in 1 .. Len(M[u]) : M[u][l] = L[u][k]
  <2>1. CASE u = -1
    <3>1. k - 1 \in 1 .. Len(M[u]) /\ (k - 1) + 1 = k
      BY <2>1, <1>2, <1>4, <1>5, <1>7
    <3>2. M[u][k - 1] = L[u][k]
      BY <3>1, <2>1, <1>2, <1>4
    <3>. QED  BY <3>1, <3>2
  <2>2. CASE u # -1
    BY <2>2, <1>4
  <2>. QED  BY <2>1, <2>2
<1>8. ASSUME NEW u \in Lists, NEW k \in 1 .. Len(L[u]), ~(u = -1 /\ k = 1)
      PROVE  L[u][k].index # h.index
  <2>1. 1 \in 1 .. Len(L[-1])
    BY <1>2
  <2>. QED  BY <2>1, <1>1, <1>2, <1>8 DEF Apart
<1>9. Indices(M) = Indices(L) \ {h.index}
  <2>1. ASSUME NEW u \in Lists, NEW k \in 1 .. Len(M[u])
        PROVE  M[u][k].index \in Indices(L) \ {h.index}
    <3>1. /\ Old(u, k) \in 1 .. Len(L[u]) /\ M[u][k] = L[u][Old(u, k)]
          /\ ~(u = -1 /\ Old(u, k) = 1)
      BY <1>6
    <3>2. L[u][Old(u, k)].index # h.index
      BY <3>1, <1>8
    <3>3. L[u][Old(u, k)].index \in Indices(L)
      BY <3>1, HandleParts
    <3>. QED  BY <3>1, <3>2, <3>3
  <2>2. ASSUME NEW u \in Lists, NEW k \in 1 .. Len(L[u]), L[u][k].index # h.index
        PROVE  L[u][k].index \in Indices(M)
    <3>1. ~(u = -1 /\ k = 1)
      BY <2>2, <1>2
    <3>2. PICK l \in 1 .. Len(M[u]) : M[u][l] = L[u][k]
      BY <3>1, <1>7
    <3>3. M[u][l].index \in Indices(M)
      <4>. HIDE DEF M
      <4>. QED  BY <1>3, HandleParts
    <3>. QED  BY <3>2, <3>3
  <2>3. \A i \in Indices(M) : i \in Indices(L) \ {h.index}
    BY <2>1 DEF Indices
  <2>4. \A i \in Indices(L) \ {h.index} : i \in Indices(M)
    BY <2>2 DEF Indices
  <2>. QED  BY <2>3, <2>4
<1>10. Apart(M)
  <2>. SUFFICES ASSUME NEW u \in Lists, NEW v \in Lists,
                       NEW k \in 1 .. Len(M[u]), NEW l \in 1 .. Len(M[v]),
                       M[u][k].index = M[v][l].index
                PROVE  u = v /\ k = l
    BY DEF Apart
  <2>1. /\ Old(u, k) \in 1 .. Len(L[u]) /\ M[u][k] = L[u][Old(u, k)]
        /\ Old(v, l) \in 1 .. Len(L[v]) /\ M[v][l] = L[v][Old(v, l)]
    BY <1>6
  <2>2. u = v /\ Old(u, k) = Old(v, l)
    BY <2>1 DEF Apart
  <2>. QED  BY <2>2
<1>11. ASSUME NEW u \in Lists, NEW g
       PROVE  In(M, u, g) <=> In(L, u, g) /\ g.index # h.index
  <2>1. ASSUME NEW k \in 1 .. Len(M[u]), M[u][k] = g
        PROVE  In(L, u, g) /\ g.index # h.index
    <3>1. /\ Old(u, k) \in 1 .. Len(L[u]) /\ M[u][k] = L[u][Old(u, k)]
          /\ ~(u = -1 /\ Old(u, k) = 1)
      BY <1>6
    <3>2. L[u][Old(u, k)].index # h.index
      BY <3>1, <1>8
    <3>. QED  BY <3>1, <3>2, <2>1 DEF In
  <2>2. ASSUME NEW k \in 1 .. Len(L[u]), L[u][k] = g, g.index # h.index
        PROVE  In(M, u, g)
    <3>1. ~(u = -1 /\ k = 1)
      BY <2>2, <1>2
    <3>. QED  BY <3>1, <1>7, <2>2 DEF In
  <2>. QED  BY <2>1, <2>2 DEF In
<1>. QED  BY <1>3, <1>9, <1>10, <1>11 DEF M, h

\* The visit takes the whole list of a slot.
LEMMA HandlesMoved ==
  ASSUME NEW L \in Filing, NEW s \in Slots, L[-1] = <<>>, Apart(L)
  PROVE  LET M == [L EXCEPT ![-1] = L[s], ![s] = <<>>]
         IN  /\ M \in Filing
             /\ Indices(M) = Indices(L)
             /\ \A u \in Lists : \A g :
                  In(M, u, g) <=> u # s /\ In(L, IF u = -1 THEN s ELSE u, g)
             /\ Apart(M)
<1>. DEFINE M == [L EXCEPT ![-1] = L[s], ![s] = <<>>]
<1>1. -1 \in Lists /\ s \in Lists /\ s # -1
  BY WheelAssumption DEF Lists, Slots
<1>2. M \in Filing
  BY <1>1 DEF Filing
<1>3. M[-1] = L[s] /\ M[s] = <<>> /\ \A u \in Lists : u # s /\ u # -1 => M[u] = L[u]
  BY <1>1 DEF Filing
<1>. HIDE DEF M
<1>4. Len(M[s]) = 0 /\ Len(L[-1]) = 0
  BY <1>3
<1>. DEFINE Old(u) == IF u = -1 THEN s ELSE u
<1>5. ASSUME NEW u \in Lists, NEW k \in 1 .. Len(M[u])
      PROVE  u # s /\ Old(u) \in Lists /\ k \in 1 .. Len(L[Old(u)]) /\ M[u][k] = L[Old(u)][k]
  BY <1>1, <1>3, <1>4
<1>6. ASSUME NEW u \in Lists, NEW k \in 1 .. Len(L[u])
      PROVE  \E v \in Lists : k \in 1 .. Len(M[v]) /\ M[v][k] = L[u][k]
  BY <1>1, <1>3, <1>4
<1>7. Indices(M) = Indices(L)
  <2>1. ASSUME NEW u \in Lists, NEW k \in 1 .. Len(M[u])
        PROVE  M[u][k].index \in Indices(L)
    BY <1>5, HandleParts
  <2>2. ASSUME NEW u \in Lists, NEW k \in 1 .. Len(L[u])
        PROVE  L[u][k].index \in Indices(M)
    BY <1>2, <1>6, HandleParts
  <2>. QED  BY <2>1, <2>2 DEF Indices
<1>8. Apart(M)
  <2>. SUFFICES ASSUME NEW u \in Lists, NEW v \in Lists,
                       NEW k \in 1 .. Len(M[u]), NEW l \in 1 .. Len(M[v]),
                       M[u][k].index = M[v][l].index
                PROVE  u = v /\ k = l
    BY DEF Apart
  <2>1. /\ u # s /\ Old(u) \in Lists /\ k \in 1 .. Len(L[Old(u)]) /\ M[u][k] = L[Old(u)][k]
        /\ v # s /\ Old(v) \in Lists /\ l \in 1 .. Len(L[Old(v)]) /\ M[v][l] = L[Old(v)][l]
    BY <1>5
  <2>2. L[Old(u)][k].index = L[Old(v)][l].index
    BY <2>1
  <2>3. Old(u) = Old(v) /\ k = l
    BY <2>1, <2>2 DEF Apart
  <2>. QED  BY <2>1, <2>3
<1>9. ASSUME NEW u \in Lists, NEW g
      PROVE  In(M, u, g) <=> u # s /\ In(L, Old(u), g)
  <2>1. ASSUME NEW k \in 1 .. Len(M[u]), M[u][k] = g
        PROVE  u # s /\ In(L, Old(u), g)
    BY <1>5, <2>1 DEF In
  <2>2. ASSUME u # s, In(L, Old(u), g)
        PROVE  In(M, u, g)
    BY <1>1, <1>3, <2>2 DEF In
  <2>. QED  BY <2>1, <2>2 DEF In
<1>. QED  BY <1>2, <1>7, <1>8, <1>9 DEF M

-----------------------------------------------------------------------------
(* Numbers, and the sequences behind the free list. *)

LEMMA MaxOf ==
  ASSUME NEW a \in Int, NEW b \in Int
  PROVE  Max({a, b}) = IF a >= b THEN a ELSE b
<1>. DEFINE m == IF a >= b THEN a ELSE b
<1>1. m \in {a, b} /\ \A y \in {a, b} : m >= y
  OBVIOUS
<1>2. \A x \in {a, b} : (\A y \in {a, b} : x >= y) => x = m
  OBVIOUS
<1>. HIDE DEF m
<1>3. Max({a, b}) = m
  BY <1>1, <1>2 DEF Max
<1>. QED  BY <1>3 DEF m

\* A product may be read from either side.
LEMMA Swapped ==
  ASSUME NEW w \in Int, NEW q \in Int, NEW m \in Int, NEW n, n = w * q + m
  PROVE  n = q * w + m /\ q * w \in Int
  OBVIOUS

\* A slot is a number modulo their count.
LEMMA Rounded ==
  ASSUME NEW x \in Int
  PROVE  /\ x % WHEEL_SIZE \in Slots
         /\ x \div WHEEL_SIZE \in Int
         /\ x = WHEEL_SIZE * (x \div WHEEL_SIZE) + (x % WHEEL_SIZE)
BY WheelAssumption DEF Slots

\* A timeout takes a tick at least, and no fewer than it has milliseconds for.
LEMMA TicksTaken ==
  ASSUME NEW timeout \in Nat
  PROVE  /\ TicksOf(timeout) \in Nat \ {0}
         /\ timeout <= TicksOf(timeout) * TICK_MS
<1>. DEFINE x == Max({1, timeout}) + TICK_MS - 1
            q == x \div TICK_MS
            p == q * TICK_MS
<1>1. Max({1, timeout}) \in Nat \ {0} /\ timeout <= Max({1, timeout})
  BY MaxOf
<1>2. x \in Nat /\ x >= TICK_MS /\ timeout + TICK_MS - 1 <= x
  BY <1>1, WheelAssumption
<1>3. q \in Int /\ p <= x /\ x < p + TICK_MS
  <2>. HIDE DEF x
  <2>. QED  BY <1>2, WheelAssumption
<1>4. q >= 1
  <2>. HIDE DEF x, q
  <2>1. CASE q <= 0
    <3>1. p <= 0 /\ p \in Int
      BY <2>1, <1>3, WheelAssumption
    <3>. HIDE DEF p
    <3>. QED  BY <3>1, <1>2, <1>3, WheelAssumption
  <2>. QED  BY <2>1, <1>3
<1>5. p \in Int
  <2>. HIDE DEF q
  <2>. QED  BY <1>3, WheelAssumption
<1>6. timeout <= p
  <2>. HIDE DEF p, x
  <2>. QED  BY <1>2, <1>3, <1>5, WheelAssumption
<1>7. TicksOf(timeout) = q
  BY DEF TicksOf
<1>. QED  BY <1>3, <1>4, <1>6, <1>7

LEMMA RoundsOf ==
  ASSUME NEW n \in Nat
  PROVE  n \div WHEEL_SIZE \in Nat
<1>. DEFINE q == n \div WHEEL_SIZE
            p == WHEEL_SIZE * q
<1>1. q \in Int /\ n < p + WHEEL_SIZE
  BY WheelAssumption
<1>. HIDE DEF q
<1>2. CASE q <= -1
  <2>1. p <= -WHEEL_SIZE
    BY <1>1, <1>2, WheelAssumption
  <2>2. p \in Int
    BY <1>1, WheelAssumption
  <2>. HIDE DEF p
  <2>. QED  BY <2>1, <2>2, <1>1, WheelAssumption
<1>. QED  BY <1>1, <1>2 DEF q

LEMMA SetOfAppended ==
  ASSUME NEW S, NEW s \in Seq(S), NEW e \in S
  PROVE  /\ ToSet(Append(s, e)) = ToSet(s) \union {e}
         /\ IsInjective(s) /\ e \notin ToSet(s) => IsInjective(Append(s, e))
<1>. DEFINE r == Append(s, e)
<1>1. /\ Len(s) \in Nat /\ DOMAIN s = 1 .. Len(s)
      /\ DOMAIN r = 1 .. Len(s) + 1
      /\ r[Len(s) + 1] = e
      /\ \A i \in 1 .. Len(s) : r[i] = s[i]
  BY AppendOf
<1>. HIDE DEF r
<1>2. DOMAIN r = DOMAIN s \union {Len(s) + 1} /\ Len(s) + 1 \notin DOMAIN s
  BY <1>1
<1>3. ToSet(r) = ToSet(s) \union {e}
  BY <1>1, <1>2 DEF ToSet
<1>4. ASSUME IsInjective(s), e \notin ToSet(s)
      PROVE  IsInjective(r)
  <2>1. \A i \in DOMAIN s : s[i] # e /\ r[i] = s[i]
    BY <1>1, <1>4 DEF ToSet
  <2>. QED  BY <2>1, <1>1, <1>2, <1>4 DEF IsInjective
<1>. QED  BY <1>3, <1>4 DEF r

LEMMA SetOfFront ==
  ASSUME NEW S, NEW s \in Seq(S), s # <<>>, IsInjective(s)
  PROVE  /\ Front(s) \in Seq(S)
         /\ Last(s) \in ToSet(s) /\ Last(s) \in S
         /\ ToSet(Front(s)) = ToSet(s) \ {Last(s)}
         /\ IsInjective(Front(s))
<1>. DEFINE n == Len(s)
            r == Front(s)
<1>1. n \in Nat \ {0} /\ DOMAIN s = 1 .. n /\ \A i \in 1 .. n : s[i] \in S
  OBVIOUS
<1>2. r \in Seq(S) /\ Len(r) = n - 1 /\ \A i \in 1 .. n - 1 : r[i] = s[i]
  BY <1>1 DEF Front
<1>3. DOMAIN r = 1 .. n - 1
  BY <1>2
<1>4. Last(s) = s[n]
  BY DEF Last
<1>. HIDE DEF r, n
<1>5. DOMAIN s = DOMAIN r \union {n} /\ n \notin DOMAIN r
  BY <1>1, <1>3
<1>6. IsInjective(r)
  BY <1>2, <1>3, <1>5 DEF IsInjective
<1>7. \A i \in DOMAIN r : s[i] # s[n]
  BY <1>5 DEF IsInjective
<1>8. ToSet(r) = ToSet(s) \ {s[n]}
  BY <1>2, <1>3, <1>5, <1>7 DEF ToSet
<1>9. s[n] \in ToSet(s) /\ s[n] \in S
  BY <1>1, <1>5 DEF ToSet
<1>. QED  BY <1>2, <1>4, <1>6, <1>8, <1>9 DEF r

-----------------------------------------------------------------------------
(* The invariant of the wheel itself. *)

\* The handles that are filed are those of the active entries, one for each.
Filed == Apart(lists) /\ Indices(lists) = Active

\* A handle is of the generation its entry has now, and in the slot the entry
\* names; those of a visit are of the current slot.
Labelled ==
  \A s \in Lists : \A h \in Handle : In(lists, s, h) =>
    /\ entries[h.index].generation = h.generation
    /\ entries[h.index].slot_idx = IF s = -1 THEN current_slot ELSE s

\* The other entries are on the free list, once.
Spare ==
  /\ ToSet(free_list) = DOMAIN entries \ Active
  /\ IsInjective(free_list)

Counted == pending_entries = Cardinality(Active)

\* There is a timer for every entry that was ever made.
Numbered ==
  /\ Len(entries) <= Len(made) /\ Len(made) <= MaxAdds
  /\ \A i \in DOMAIN entries : entries[i].timer \in Made

Inv == TypeOK /\ Filed /\ Labelled /\ Spare /\ Counted /\ Numbered

LEMMA Domains ==
  ASSUME TypeOK
  PROVE  /\ Len(entries) \in Nat /\ DOMAIN entries = 1 .. Len(entries)
         /\ Len(made) \in Nat /\ Made = 1 .. Len(made)
         /\ \A i \in DOMAIN entries : entries[i] \in Entry
         /\ \A t \in Made : made[t] \in Timer
         /\ lists \in Filing
         /\ Active \subseteq DOMAIN entries /\ IsFiniteSet(Active)
<1>1. entries \in Seq(Entry) /\ made \in Seq(Timer)
  BY DEF TypeOK
<1>2. /\ Len(entries) \in Nat /\ DOMAIN entries = 1 .. Len(entries)
      /\ Len(made) \in Nat /\ Made = 1 .. Len(made)
      /\ \A i \in DOMAIN entries : entries[i] \in Entry
      /\ \A t \in Made : made[t] \in Timer
  BY <1>1 DEF Made
<1>3. lists \in Filing
  BY DEF TypeOK, lists, Filing, Lists
<1>4. IsFiniteSet(DOMAIN entries)
  BY <1>2, FS_Interval
<1>5. Active \subseteq DOMAIN entries
  BY DEF Active
<1>. QED  BY <1>2, <1>3, <1>4, <1>5, FS_Subset

\* A handle that is filed is of an active entry, as it is now.
LEMMA HandleCurrent ==
  ASSUME Inv, NEW s \in Lists, NEW h, In(lists, s, h)
  PROVE  /\ h \in Handle /\ h.index \in Active /\ Current(h)
         /\ entries[h.index].slot_idx = IF s = -1 THEN current_slot ELSE s
<1>1. h \in Handle /\ h.index \in Active
  BY Domains, HandleParts DEF Inv, Filed, In
<1>. QED  BY <1>1 DEF Inv, Labelled, Current, Active

\* What add() does: entry i, a free one or a new one, is made active.
GenerationOf(i) ==
  IF i \in DOMAIN entries THEN NextGeneration(entries[i].generation) ELSE 1

Target(timeout) == (current_slot + (TicksOf(timeout) % WHEEL_SIZE)) % WHEEL_SIZE

NewEntry(i, timeout) ==
  [generation |-> GenerationOf(i),
   remaining_rounds |-> TicksOf(timeout) \div WHEEL_SIZE,
   slot_idx |-> Target(timeout),
   active |-> TRUE,
   cancelled |-> i \in DOMAIN entries /\ entries[i].cancelled,
   timer |-> Len(made) + 1]

Adds(i, timeout) ==
  LET h == [index |-> i, generation |-> GenerationOf(i)]
      s == Target(timeout)
  IN  /\ i \in 1 .. Len(entries) + 1 /\ i \notin Active
      /\ entries' \in Seq(Entry)
      /\ DOMAIN entries' = DOMAIN entries \union {i}
      /\ Len(entries') <= Len(entries) + 1
      /\ \A j \in DOMAIN entries : j # i => entries'[j] = entries[j]
      /\ entries'[i] = NewEntry(i, timeout)
      /\ h \in Handle
      /\ lists' = [lists EXCEPT ![s] = Append(lists[s], h)]
      /\ free_list' \in Seq(Nat \ {0})
      /\ ToSet(free_list') = ToSet(free_list) \ {i}
      /\ IsInjective(free_list')
      /\ made' = Append(made, [id |-> h, timeout |-> timeout,
                               lag |-> lag + ticks * TICK_MS, age |-> 0])

LEMMA GenerationGood ==
  ASSUME TypeOK, NEW i
  PROVE  GenerationOf(i) \in 1 .. Generations - 1
<1>1. CASE i \in DOMAIN entries
  <2>1. entries[i].generation \in 1 .. Generations - 1
    BY <1>1, Domains DEF Entry
  <2>. QED  BY <1>1, <2>1, WheelAssumption DEF GenerationOf, NextGeneration
<1>. QED  BY <1>1, WheelAssumption DEF GenerationOf

LEMMA NewEntryGood ==
  ASSUME TypeOK, NEW i, NEW timeout \in Timeouts
  PROVE  /\ Target(timeout) \in Slots
         /\ NewEntry(i, timeout) \in Entry
<1>1. timeout \in Nat
  BY WheelAssumption
<1>2. TicksOf(timeout) \in Nat
  BY <1>1, TicksTaken
<1>3. TicksOf(timeout) \div WHEEL_SIZE \in Nat /\ TicksOf(timeout) % WHEEL_SIZE \in Slots
  BY <1>2, RoundsOf, Rounded
<1>4. current_slot + (TicksOf(timeout) % WHEEL_SIZE) \in Int
  BY <1>3 DEF TypeOK, Slots
<1>5. Target(timeout) \in Slots
  BY <1>4, Rounded DEF Target
<1>6. (i \in DOMAIN entries /\ entries[i].cancelled) \in BOOLEAN
  BY Zenon
<1>7. Len(made) + 1 \in Nat \ {0}
  BY Domains
<1>8. GenerationOf(i) \in 1 .. Generations - 1
  BY GenerationGood
<1>. QED  BY <1>3, <1>5, <1>6, <1>7, <1>8 DEF NewEntry, Entry

LEMMA AddDoes ==
  ASSUME Inv, NEW timeout \in Timeouts, Add(timeout)
  PROVE  \E i \in Nat : Adds(i, timeout)
<1>. DEFINE reused == free_list # <<>>
            i == IF reused THEN Last(free_list) ELSE Len(entries) + 1
            s == Target(timeout)
            h == [index |-> i, generation |-> GenerationOf(i)]
<1>0. TypeOK
  BY DEF Inv
<1>1. /\ Len(entries) \in Nat /\ DOMAIN entries = 1 .. Len(entries)
      /\ lists \in Filing /\ Active \subseteq DOMAIN entries
      /\ Len(made) \in Nat
  BY <1>0, Domains
<1>2. ASSUME reused
      PROVE  /\ i \in DOMAIN entries /\ i \notin Active
             /\ Front(free_list) \in Seq(Nat \ {0})
             /\ ToSet(Front(free_list)) = ToSet(free_list) \ {i}
             /\ IsInjective(Front(free_list))
  <2>1. free_list \in Seq(Nat \ {0}) /\ IsInjective(free_list)
    BY DEF Inv, TypeOK, Spare
  <2>2. /\ Front(free_list) \in Seq(Nat \ {0})
        /\ Last(free_list) \in ToSet(free_list)
        /\ ToSet(Front(free_list)) = ToSet(free_list) \ {Last(free_list)}
        /\ IsInjective(Front(free_list))
    BY <1>2, <2>1, SetOfFront
  <2>. QED  BY <1>2, <2>2 DEF Inv, Spare
<1>3. ASSUME ~reused
      PROVE  i = Len(entries) + 1 /\ i \notin DOMAIN entries /\ i \notin Active
  BY <1>1, <1>3
<1>4. i \in Nat \ {0} /\ i \in 1 .. Len(entries) + 1 /\ i \notin Active
  BY <1>1, <1>2, <1>3
<1>5. h \in Handle
  BY <1>0, <1>4, GenerationGood DEF Handle
<1>6. /\ h = [index |-> i, generation |-> IF reused
                                          THEN NextGeneration(entries[i].generation)
                                          ELSE 1]
      /\ GenerationOf(i) = h.generation
  BY <1>2, <1>3 DEF GenerationOf
<1>7. (reused /\ entries[i].cancelled) = (i \in DOMAIN entries /\ entries[i].cancelled)
  <2>1. reused = (i \in DOMAIN entries)
    BY <1>2, <1>3
  <2>. QED  BY <2>1
<1>8. NewEntry(i, timeout) =
        [generation |-> h.generation,
         remaining_rounds |-> TicksOf(timeout) \div WHEEL_SIZE,
         slot_idx |-> s,
         active |-> TRUE,
         cancelled |-> reused /\ entries[i].cancelled,
         timer |-> Len(made) + 1]
  BY <1>6, <1>7 DEF NewEntry
<1>9. /\ entries' = IF reused THEN [entries EXCEPT ![i] = NewEntry(i, timeout)]
                              ELSE Append(entries, NewEntry(i, timeout))
      /\ free_list' = IF reused THEN Front(free_list) ELSE free_list
      /\ slots' = [slots EXCEPT ![s] = Append(@, h)]
      /\ handles' = handles
      /\ made' = Append(made, [id |-> h, timeout |-> timeout,
                               lag |-> lag + ticks * TICK_MS, age |-> 0])
  BY <1>6, <1>8 DEF Add, Target, visit
<1>. HIDE DEF i, h, s, reused
<1>10. s \in Slots /\ NewEntry(i, timeout) \in Entry
  BY <1>0, NewEntryGood DEF s
<1>11. /\ entries' \in Seq(Entry)
       /\ DOMAIN entries' = DOMAIN entries \union {i}
       /\ Len(entries') <= Len(entries) + 1
       /\ \A j \in DOMAIN entries : j # i => entries'[j] = entries[j]
       /\ entries'[i] = NewEntry(i, timeout)
  <2>1. entries \in Seq(Entry)
    BY <1>0 DEF TypeOK
  <2>2. CASE reused
    <3>1. entries' = [entries EXCEPT ![i] = NewEntry(i, timeout)] /\ i \in 1 .. Len(entries)
      BY <1>1, <1>2, <1>9, <2>2
    <3>. QED  BY <1>10, <2>1, <3>1, <1>1
  <2>3. CASE ~reused
    <3>1. entries' = Append(entries, NewEntry(i, timeout)) /\ i = Len(entries) + 1
      BY <1>3, <1>9, <2>3
    <3>. QED  BY <1>10, <2>1, <3>1, <1>1, AppendOf
  <2>. QED  BY <2>2, <2>3
<1>12. lists' = [lists EXCEPT ![s] = Append(lists[s], h)]
  <2>1. s # -1 /\ s \in Lists /\ slots \in [Slots -> Seq(Handle)]
    BY <1>0, <1>10, WheelAssumption DEF TypeOK, Slots, Lists
  <2>2. \A u \in Slots : slots'[u] = IF u = s THEN Append(slots[s], h) ELSE slots[u]
    BY <1>9, <2>1
  <2>3. \A u \in Lists : u # -1 => u \in Slots
    BY DEF Lists
  <2>4. \A u \in Lists : lists'[u] = IF u = s THEN Append(lists[s], h) ELSE lists[u]
    BY <1>9, <1>10, <2>1, <2>2, <2>3 DEF lists
  <2>5. lists = [u \in Lists |-> lists[u]] /\ lists' = [u \in Lists |-> lists'[u]]
    BY DEF lists
  <2>. QED  BY <2>1, <2>4, <2>5
<1>13. /\ free_list' \in Seq(Nat \ {0})
       /\ ToSet(free_list') = ToSet(free_list) \ {i}
       /\ IsInjective(free_list')
  <2>1. CASE reused
    BY <1>2, <1>9, <2>1
  <2>2. CASE ~reused
    BY <1>0, <1>3, <1>9, <2>2 DEF Inv, TypeOK, Spare
  <2>. QED  BY <2>1, <2>2
<1>14. h = [index |-> i, generation |-> GenerationOf(i)]
  BY DEF h
<1>15. s = Target(timeout)
  BY DEF s
<1>. QED  BY <1>4, <1>5, <1>9, <1>11, <1>12, <1>13, <1>14, <1>15 DEF Adds

\* The handle a visit looks at is of an active entry in the current slot.
LEMMA HandleSeen ==
  ASSUME Inv, handles # <<>>
  PROVE  /\ handle \in Handle /\ handle.index \in Active /\ Current(handle)
         /\ entry.slot_idx = current_slot
         /\ lists[-1] = handles /\ -1 \in Lists /\ In(lists, -1, handle)
<1>1. handles \in Seq(Handle) /\ lists[-1] = handles /\ -1 \in Lists
  BY DEF Inv, TypeOK, lists, Lists
<1>2. Len(handles) \in Nat \ {0} /\ handle = handles[1]
  BY <1>1, TailOf DEF handle
<1>3. In(lists, -1, handle)
  BY <1>1, <1>2 DEF In
<1>. QED  BY <1>1, <1>3, HandleCurrent DEF entry

Taken == [lists EXCEPT ![-1] = Tail(lists[-1])]

LEMMA TakenDoes ==
  ASSUME Inv, handles # <<>>
  PROVE  /\ Taken \in Filing /\ Apart(Taken)
         /\ Indices(Taken) = Active \ {handle.index}
         /\ \A u \in Lists : \A g : In(Taken, u, g) <=> In(lists, u, g) /\ g.index # handle.index
<1>1. lists \in Filing /\ Apart(lists) /\ Indices(lists) = Active
  BY Domains DEF Inv, Filed
<1>2. lists[-1] # <<>> /\ Head(lists[-1]) = handle
  BY HandleSeen DEF handle
<1>. QED  BY <1>1, <1>2, HandleTaken DEF Taken

\* What a visit does to an entry that it releases.
Releases(i) ==
  /\ i \in Active
  /\ entries' \in Seq(Entry)
  /\ Len(entries') = Len(entries)
  /\ DOMAIN entries' = DOMAIN entries
  /\ \A j \in DOMAIN entries : j # i => entries'[j] = entries[j]
  /\ entries'[i] = [entries[i] EXCEPT !.active = FALSE, !.cancelled = FALSE,
                                      !.remaining_rounds = 0, !.slot_idx = 0]
  /\ lists' = Taken
  /\ free_list' \in Seq(Nat \ {0})
  /\ ToSet(free_list') = ToSet(free_list) \union {i}
  /\ IsInjective(free_list')
  /\ pending_entries' = Max({0, pending_entries - 1})

LEMMA ReleaseDoes ==
  ASSUME Inv, Examine, Release, UNCHANGED slots
  PROVE  Releases(handle.index)
<1>. DEFINE i == handle.index
            e == [entries[i] EXCEPT !.active = FALSE, !.cancelled = FALSE,
                                    !.remaining_rounds = 0, !.slot_idx = 0]
<1>1. handles # <<>> /\ handles' = Tail(handles)
  BY DEF Examine
<1>2. i \in Active /\ i \in DOMAIN entries /\ entries[i] \in Entry
      /\ i \in Nat \ {0} /\ lists[-1] = handles /\ -1 \in Lists
      /\ entries \in Seq(Entry) /\ DOMAIN entries = 1 .. Len(entries)
  BY <1>1, HandleSeen, Domains DEF Inv, TypeOK, Handle
<1>3. 0 \in Slots
  BY WheelAssumption DEF Slots
<1>4. e \in Entry
  BY <1>2, <1>3 DEF Entry
<1>5. entries' = [entries EXCEPT ![i] = e] /\ free_list' = Append(free_list, i)
      /\ pending_entries' = Max({0, pending_entries - 1})
  BY DEF Release
<1>. HIDE DEF e, i
<1>6. /\ entries' \in Seq(Entry) /\ Len(entries') = Len(entries)
      /\ DOMAIN entries' = DOMAIN entries
      /\ \A j \in DOMAIN entries : j # i => entries'[j] = entries[j]
      /\ entries'[i] = e
  BY <1>2, <1>4, <1>5
<1>7. lists' = Taken
  <2>1. \A u \in Lists : lists'[u] = IF u = -1 THEN Tail(lists[-1]) ELSE lists[u]
    BY <1>1, <1>2 DEF lists
  <2>2. lists = [u \in Lists |-> lists[u]] /\ lists' = [u \in Lists |-> lists'[u]]
    BY DEF lists
  <2>. QED  BY <1>2, <2>1, <2>2 DEF Taken
<1>8. /\ free_list' \in Seq(Nat \ {0})
      /\ ToSet(free_list') = ToSet(free_list) \union {i}
      /\ IsInjective(free_list')
  <2>1. free_list \in Seq(Nat \ {0}) /\ IsInjective(free_list) /\ i \notin ToSet(free_list)
    BY <1>2 DEF Inv, TypeOK, Spare
  <2>. QED  BY <1>2, <1>5, <2>1, SetOfAppended, AppendOf
<1>. QED  BY <1>2, <1>5, <1>6, <1>7, <1>8 DEF Releases, i, e

\* What it does to one that it keeps: the handle goes back into the current slot.
Kept == [Taken EXCEPT ![current_slot] = Append(Taken[current_slot], handle)]

LEMMA PutBackDoes ==
  ASSUME Inv, Examine, PutBack
  PROVE  lists' = Kept
<1>1. /\ handles # <<>> /\ handles' = Tail(handles)
      /\ slots' = [slots EXCEPT ![current_slot] = Append(slots[current_slot], handle)]
  BY DEF Examine, PutBack
<1>2. /\ lists[-1] = handles /\ -1 \in Lists /\ current_slot \in Slots /\ current_slot # -1
      /\ slots \in [Slots -> Seq(Handle)]
  BY <1>1, HandleSeen, WheelAssumption DEF Inv, TypeOK, Slots
<1>3. \A u \in Lists : u # -1 => u \in Slots
  BY DEF Lists
<1>4. \A u \in Lists : lists'[u] = IF u = -1 THEN Tail(lists[-1])
                                   ELSE IF u = current_slot THEN Append(lists[u], handle)
                                   ELSE lists[u]
  BY <1>1, <1>2, <1>3 DEF lists
<1>5. lists = [u \in Lists |-> lists[u]] /\ lists' = [u \in Lists |-> lists'[u]]
  BY DEF lists
<1>6. Taken = [u \in Lists |-> IF u = -1 THEN Tail(lists[-1]) ELSE lists[u]]
  BY <1>2, <1>5 DEF Taken
<1>7. current_slot \in Lists
  BY <1>2 DEF Lists
<1>. QED  BY <1>2, <1>4, <1>5, <1>6, <1>7 DEF Kept

LEMMA KeptDoes ==
  ASSUME Inv, handles # <<>>
  PROVE  /\ Kept \in Filing /\ Apart(Kept)
         /\ Indices(Kept) = Active
         /\ \A u \in Lists : \A g :
              In(Kept, u, g) <=> \/ In(lists, u, g) /\ g.index # handle.index
                                 \/ u = current_slot /\ g = handle
<1>1. /\ Taken \in Filing /\ Apart(Taken)
      /\ Indices(Taken) = Active \ {handle.index}
      /\ \A u \in Lists : \A g : In(Taken, u, g) <=> In(lists, u, g) /\ g.index # handle.index
  BY TakenDoes
<1>2. handle \in Handle /\ handle.index \in Active
  BY HandleSeen
<1>3. current_slot \in Lists
  BY DEF Inv, TypeOK, Lists
<1>4. handle.index \notin Indices(Taken)
  BY <1>1
<1>5. /\ Kept \in Filing
      /\ Indices(Kept) = Indices(Taken) \union {handle.index}
      /\ \A u \in Lists : \A g : In(Kept, u, g) <=> In(Taken, u, g) \/ (u = current_slot /\ g = handle)
      /\ Apart(Kept)
  BY <1>1, <1>2, <1>3, <1>4, HandleFiled DEF Kept
<1>6. Indices(Kept) = Active
  BY <1>1, <1>2, <1>5
<1>. QED  BY <1>1, <1>5, <1>6

\* What a visit begins with: the handles of the next slot.
Following == (current_slot + 1) % WHEEL_SIZE

Moved == [lists EXCEPT ![-1] = lists[Following], ![Following] = <<>>]

LEMMA AdvanceDoes ==
  ASSUME Inv, Advance
  PROVE  /\ Following \in Slots /\ current_slot' = Following
         /\ lists' = Moved /\ Moved \in Filing /\ Apart(Moved)
         /\ Indices(Moved) = Active
         /\ \A u \in Lists : \A g :
              In(Moved, u, g) <=> u # Following /\ In(lists, IF u = -1 THEN Following ELSE u, g)
<1>1. /\ handles = <<>> /\ current_slot' = Following /\ handles' = slots[Following]
      /\ slots' = [slots EXCEPT ![Following] = <<>>]
  BY DEF Advance, Following
<1>2. current_slot + 1 \in Int
  BY DEF Inv, TypeOK, Slots
<1>3. Following \in Slots
  BY <1>2, Rounded DEF Following
<1>4. Following # -1 /\ Following \in Lists /\ -1 \in Lists
      /\ slots \in [Slots -> Seq(Handle)]
  BY <1>3, WheelAssumption DEF Slots, Lists, Inv, TypeOK
<1>5. \A u \in Lists : u # -1 => u \in Slots
  BY DEF Lists
<1>6. lists[-1] = <<>>
  BY <1>1, <1>4 DEF lists
<1>7. \A u \in Lists : lists'[u] = IF u = -1 THEN lists[Following]
                                   ELSE IF u = Following THEN <<>> ELSE lists[u]
  BY <1>1, <1>3, <1>4, <1>5 DEF lists
<1>8. lists = [u \in Lists |-> lists[u]] /\ lists' = [u \in Lists |-> lists'[u]]
  BY DEF lists
<1>9. lists' = Moved
  BY <1>4, <1>7, <1>8 DEF Moved
<1>10. lists \in Filing /\ Apart(lists) /\ Indices(lists) = Active
  BY Domains DEF Inv, Filed
<1>. QED  BY <1>1, <1>3, <1>6, <1>9, <1>10, HandlesMoved DEF Moved

-----------------------------------------------------------------------------
(* Every step keeps the invariant. *)

\* Whether handle h, in list s, agrees with its entry.
Agrees(s, h) ==
  /\ entries[h.index].generation = h.generation
  /\ entries[h.index].slot_idx = IF s = -1 THEN current_slot ELSE s

LEMMA InFiling ==
  ASSUME NEW L \in Filing, NEW s \in Lists, NEW h, In(L, s, h)
  PROVE  h \in Handle /\ h.index \in Indices(L)
BY HandleParts DEF In

LEMMA AddKeeps ==
  ASSUME Inv, NEW timeout \in Timeouts, Add(timeout)
  PROVE  Inv'
<1>. DEFINE s == Target(timeout)
<1>0. TypeOK
  BY DEF Inv
<1>1. PICK i \in Nat : Adds(i, timeout)
  BY AddDoes
<1>. DEFINE h == [index |-> i, generation |-> GenerationOf(i)]
            m == [id |-> h, timeout |-> timeout, lag |-> lag + ticks * TICK_MS, age |-> 0]
<1>2. /\ i \in 1 .. Len(entries) + 1 /\ i \notin Active
      /\ entries' \in Seq(Entry)
      /\ DOMAIN entries' = DOMAIN entries \union {i}
      /\ Len(entries') <= Len(entries) + 1
      /\ \A j \in DOMAIN entries : j # i => entries'[j] = entries[j]
      /\ entries'[i] = NewEntry(i, timeout)
      /\ h \in Handle
      /\ lists' = [lists EXCEPT ![s] = Append(lists[s], h)]
      /\ free_list' \in Seq(Nat \ {0})
      /\ ToSet(free_list') = ToSet(free_list) \ {i}
      /\ IsInjective(free_list')
      /\ made' = Append(made, m)
  BY <1>1 DEF Adds
<1>3. /\ NewEntry(i, timeout).generation = GenerationOf(i)
      /\ NewEntry(i, timeout).slot_idx = s
      /\ NewEntry(i, timeout).active = TRUE
      /\ NewEntry(i, timeout).timer = Len(made) + 1
      /\ s \in Slots
  BY <1>0, NewEntryGood DEF NewEntry
<1>4. /\ Len(entries) \in Nat /\ DOMAIN entries = 1 .. Len(entries)
      /\ Len(made) \in Nat /\ Made = 1 .. Len(made)
      /\ lists \in Filing /\ Active \subseteq DOMAIN entries /\ IsFiniteSet(Active)
      /\ Apart(lists) /\ Indices(lists) = Active
  BY <1>0, Domains DEF Inv, Filed
<1>5. /\ Len(made) < MaxAdds /\ pending_entries' = pending_entries + 1
      /\ UNCHANGED <<lag, current_slot, visit, in_callback, fired, dropped>>
  BY DEF Add
<1>6. s \in Lists /\ s # -1
  BY <1>3, WheelAssumption DEF Lists, Slots
<1>7. m \in Timer
  <2>1. timeout \in Timeouts \union {0} /\ lag \in Nat /\ ticks \in Nat /\ TICK_MS \in Nat
    BY <1>0, WheelAssumption DEF TypeOK
  <2>2. lag + ticks * TICK_MS \in Nat
    BY <2>1
  <2>. QED  BY <1>2, <2>1, <2>2 DEF Timer
<1>8. /\ made' \in Seq(Timer) /\ Len(made') = Len(made) + 1
      /\ Made' = Made \union {Len(made) + 1}
  <2>1. made \in Seq(Timer)
    BY <1>0 DEF TypeOK
  <2>2. made' \in Seq(Timer) /\ Len(made') = Len(made) + 1
    BY <1>2, <1>7, <2>1, AppendOf
  <2>3. Made' = 1 .. Len(made')
    BY <2>2 DEF Made
  <2>. QED  BY <2>2, <2>3, <1>4
<1>. HIDE DEF s, m
<1>8a. h.index = i
  OBVIOUS
<1>. HIDE DEF h
<1>9. /\ lists' \in Filing /\ Indices(lists') = Active \union {i}
      /\ \A u \in Lists : \A g : In(lists', u, g) <=> In(lists, u, g) \/ (u = s /\ g = h)
      /\ Apart(lists')
  BY <1>2, <1>4, <1>6, <1>8a, HandleFiled
<1>10. Active' = Active \union {i}
  BY <1>2, <1>3 DEF Active
<1>11. TypeOK'
  <2>1. slots' \in [Slots -> Seq(Handle)]
    <3>1. slots' = [slots EXCEPT ![s] = slots'[s]] /\ slots \in [Slots -> Seq(Handle)]
      BY <1>0 DEF Add, TypeOK, s, Target
    <3>2. slots'[s] = lists'[s]
      BY <1>6 DEF lists
    <3>3. slots'[s] \in Seq(Handle)
      BY <3>2, <1>6, <1>9 DEF Filing
    <3>. QED  BY <3>1, <3>3
  <2>2. pending_entries' \in Nat
    BY <1>0, <1>5 DEF TypeOK
  <2>3. fired' \subseteq Made' /\ dropped' \subseteq Made'
    BY <1>0, <1>5, <1>8 DEF TypeOK
  <2>. QED  BY <1>0, <1>2, <1>5, <1>8, <2>1, <2>2, <2>3 DEF TypeOK, visit
<1>12. Filed'
  BY <1>9, <1>10 DEF Filed
<1>13. Labelled'
  <2>. SUFFICES ASSUME NEW u \in Lists, NEW g, In(lists', u, g)
                PROVE  Agrees(u, g)'
    BY DEF Labelled, Agrees
  <2>1. CASE In(lists, u, g)
    <3>1. /\ g.index \in Active /\ Current(g)
          /\ entries[g.index].slot_idx = IF u = -1 THEN current_slot ELSE u
      BY <2>1, HandleCurrent
    <3>2. entries'[g.index] = entries[g.index]
      BY <3>1, <1>2, <1>4
    <3>. QED  BY <3>1, <3>2, <1>5 DEF Agrees, Current
  <2>2. CASE u = s /\ g = h
    BY <2>2, <1>2, <1>3, <1>6 DEF Agrees, h
  <2>. QED  BY <2>1, <2>2, <1>9
<1>14. Spare'
  <2>1. ToSet(free_list) = DOMAIN entries \ Active
    BY DEF Inv, Spare
  <2>. QED  BY <2>1, <1>2, <1>10 DEF Spare
<1>15. Counted'
  <2>1. pending_entries = Cardinality(Active)
    BY DEF Inv, Counted
  <2>2. Cardinality(Active \union {i}) = Cardinality(Active) + 1
    BY <1>2, <1>4, FS_AddElement
  <2>. QED  BY <2>1, <2>2, <1>5, <1>10 DEF Counted
<1>16. Numbered'
  <2>1. /\ Len(entries) <= Len(made)
        /\ \A j \in DOMAIN entries : entries[j].timer \in Made
    BY DEF Inv, Numbered
  <2>2. Len(entries') \in Nat
    BY <1>2
  <2>3. Len(entries') <= Len(made') /\ Len(made') <= MaxAdds
    BY <2>1, <2>2, <1>2, <1>4, <1>5, <1>8, WheelAssumption
  <2>4. \A j \in DOMAIN entries' : entries'[j].timer \in Made'
    BY <2>1, <1>2, <1>3, <1>8
  <2>. QED  BY <2>3, <2>4 DEF Numbered
<1>. QED  BY <1>11, <1>12, <1>13, <1>14, <1>15, <1>16 DEF Inv

\* The bookkeeping of timers, when some are forgotten or grow older.
LEMMA MadeAnew ==
  ASSUME TypeOK, made' \in [Made -> Timer]
  PROVE  made' \in Seq(Timer) /\ Len(made') = Len(made) /\ Made' = Made
<1>1. Made = 1 .. Len(made) /\ Len(made) \in Nat
  BY Domains
<1>2. made' \in Seq(Timer) /\ Len(made') = Len(made)
  BY <1>1
<1>. QED  BY <1>1, <1>2 DEF Made

LEMMA ForgetDoes ==
  ASSUME TypeOK, NEW t \in Made, Forget(t)
  PROVE  /\ made' \in [Made -> Timer]
         /\ \A u \in Made : made'[u].id = made[u].id /\ (u # t => made'[u] = made[u])
<1>1. made \in [Made -> Timer]
  BY DEF TypeOK, Made
<1>2. made' = [made EXCEPT ![t] = [made[t] EXCEPT !.timeout = 0, !.age = 0, !.lag = 0]]
  BY <1>1 DEF Forget, Timer
<1>3. [made[t] EXCEPT !.timeout = 0, !.age = 0, !.lag = 0] \in Timer
  BY <1>1 DEF Timer
<1>. QED  BY <1>1, <1>2, <1>3

LEMMA PassDoes ==
  ASSUME TypeOK, Pass
  PROVE  /\ made' \in [Made -> Timer]
         /\ \A t \in Made :
              /\ made'[t].id = made[t].id /\ made'[t].timeout = made[t].timeout
              /\ made'[t].lag = made[t].lag
              /\ made'[t].age = IF t \in Live THEN made[t].age + 1 ELSE made[t].age
<1>1. made \in [Made -> Timer]
  BY DEF TypeOK, Made
<1>2. made' = [t \in Made |-> IF t \in Live THEN [made[t] EXCEPT !.age = @ + 1] ELSE made[t]]
  BY DEF Pass
<1>. QED  BY <1>1, <1>2 DEF Timer

\* When the entries stay as they are but for marks and rounds, and handles
\* where they are, so does the invariant.
LEMMA SameKeeps ==
  ASSUME Inv, TypeOK', UNCHANGED <<slots, handles, current_slot, free_list, pending_entries>>,
         Len(entries') = Len(entries), Len(made') = Len(made),
         \A i \in DOMAIN entries :
           /\ entries'[i].generation = entries[i].generation
           /\ entries'[i].slot_idx = entries[i].slot_idx
           /\ entries'[i].active = entries[i].active
           /\ entries'[i].timer = entries[i].timer
  PROVE  Inv'
<1>1. /\ DOMAIN entries' = DOMAIN entries /\ Made' = Made /\ Active' = Active
  BY Domains DEF Inv, TypeOK, Active, Made
<1>2. lists' = lists
  BY DEF lists
<1>3. Filed'
  BY <1>1, <1>2 DEF Inv, Filed
<1>4. Labelled'
  <2>. SUFFICES ASSUME NEW u \in Lists, NEW g, In(lists, u, g)
                PROVE  Agrees(u, g)'
    BY <1>2 DEF Labelled, Agrees
  <2>1. /\ g.index \in Active /\ Current(g)
        /\ entries[g.index].slot_idx = IF u = -1 THEN current_slot ELSE u
    BY HandleCurrent
  <2>. QED  BY <2>1 DEF Agrees, Current, Active
<1>5. Spare' /\ Counted' /\ Numbered'
  BY <1>1 DEF Inv, Spare, Counted, Numbered
<1>. QED  BY <1>3, <1>4, <1>5 DEF Inv

LEMMA CancelDoes ==
  ASSUME Inv, NEW t \in Made, Cancel(t)
  PROVE  LET i == made[t].id.index
         IN  /\ entries' \in Seq(Entry) /\ Len(entries') = Len(entries)
             /\ DOMAIN entries' = DOMAIN entries
             /\ \A j \in DOMAIN entries : j # i => entries'[j] = entries[j]
             /\ i \in DOMAIN entries =>
                  entries'[i] = [entries[i] EXCEPT !.cancelled = TRUE]
<1>. DEFINE i == made[t].id.index
            e == [entries[i] EXCEPT !.cancelled = TRUE]
<1>1. /\ entries \in Seq(Entry) /\ DOMAIN entries = 1 .. Len(entries) /\ Len(entries) \in Nat
      /\ \A j \in DOMAIN entries : entries[j] \in Entry
  BY Domains DEF Inv, TypeOK
<1>2. entries' = [entries EXCEPT ![i] = e]
  BY DEF Cancel
<1>3. i \in DOMAIN entries => e \in Entry
  BY <1>1 DEF Entry
<1>. HIDE DEF e, i
<1>4. /\ entries' \in Seq(Entry) /\ Len(entries') = Len(entries)
      /\ DOMAIN entries' = DOMAIN entries
      /\ \A j \in DOMAIN entries : j # i => entries'[j] = entries[j]
      /\ i \in DOMAIN entries => entries'[i] = e
  <2>1. CASE i \in DOMAIN entries
    BY <2>1, <1>1, <1>2, <1>3
  <2>2. CASE i \notin DOMAIN entries
    <3>1. entries = [j \in DOMAIN entries |-> entries[j]]
      BY <1>1
    <3>2. entries' = entries
      BY <2>2, <3>1, <1>2
    <3>. QED  BY <2>2, <3>2, <1>1
  <2>. QED  BY <2>1, <2>2
<1>. QED  BY <1>4 DEF e, i

LEMMA CancelKeeps ==
  ASSUME Inv, NEW t \in Made, Cancel(t)
  PROVE  Inv'
<1>. DEFINE i == made[t].id.index
<1>1. /\ entries' \in Seq(Entry) /\ Len(entries') = Len(entries)
      /\ \A j \in DOMAIN entries : j # i => entries'[j] = entries[j]
      /\ i \in DOMAIN entries =>
           entries'[i] = [entries[i] EXCEPT !.cancelled = TRUE]
  BY CancelDoes
<1>2. made' \in Seq(Timer) /\ Len(made') = Len(made) /\ Made' = Made
  BY ForgetDoes, MadeAnew DEF Inv, Cancel
<1>3. TypeOK'
  BY <1>1, <1>2 DEF Inv, TypeOK, Cancel, visit
<1>4. UNCHANGED <<slots, handles, current_slot, free_list, pending_entries>>
  BY DEF Cancel, visit
<1>5. \A j \in DOMAIN entries :
        /\ entries'[j].generation = entries[j].generation
        /\ entries'[j].slot_idx = entries[j].slot_idx
        /\ entries'[j].active = entries[j].active
        /\ entries'[j].timer = entries[j].timer
  <2>. TAKE j \in DOMAIN entries
  <2>1. entries[j] \in Entry
    BY Domains DEF Inv
  <2>2. CASE j = i
    BY <2>1, <2>2, <1>1 DEF Entry
  <2>. QED  BY <2>2, <1>1
<1>. QED  BY <1>1, <1>2, <1>3, <1>4, <1>5, SameKeeps

LEMMA OthersKeep ==
  ASSUME Inv, Tick \/ CallbackReturns \/ Pass \/ UNCHANGED vars
  PROVE  Inv'
<1>1. /\ UNCHANGED <<wheel, handles>>
      /\ UNCHANGED <<compact_tick_counter, should_compact, fired, dropped>>
      /\ in_callback' \in BOOLEAN
  BY DEF Inv, TypeOK, Tick, CallbackReturns, Pass, vars, wheel, visit, history
<1>2. lag' \in Nat /\ ticks' \in Nat
  <2>1. lag \in Nat /\ ticks \in Nat /\ TICK_MS \in Nat \ {0}
    BY WheelAssumption DEF Inv, TypeOK
  <2>2. CASE Tick
    <3>1. ticks' = lag \div TICK_MS /\ lag' = lag % TICK_MS
      BY <2>2 DEF Tick
    <3>2. lag \div TICK_MS \in Int /\ lag % TICK_MS \in Nat
      BY <2>1
    <3>3. lag \div TICK_MS \in Nat
      <4>. DEFINE q == lag \div TICK_MS
                  p == TICK_MS * q
      <4>1. q \in Int /\ lag < p + TICK_MS
        BY <2>1
      <4>. HIDE DEF q
      <4>2. CASE q <= -1
        <5>1. p <= -TICK_MS /\ p \in Int
          BY <4>1, <4>2, <2>1
        <5>. HIDE DEF p
        <5>. QED  BY <5>1, <4>1, <2>1
      <4>. QED  BY <4>1, <4>2 DEF q
    <3>. QED  BY <3>1, <3>2, <3>3
  <2>3. CASE CallbackReturns
    BY <2>1, <2>3 DEF CallbackReturns, visit
  <2>4. CASE Pass
    BY <2>1, <2>4 DEF Pass, visit
  <2>5. CASE UNCHANGED vars
    BY <2>1, <2>5 DEF vars, visit
  <2>. QED  BY <2>2, <2>3, <2>4, <2>5
<1>3. made' \in Seq(Timer) /\ Len(made') = Len(made) /\ Made' = Made
  <2>1. CASE Pass
    BY <2>1, PassDoes, MadeAnew DEF Inv
  <2>2. CASE made' = made
    BY <2>2 DEF Inv, TypeOK, Made
  <2>. QED  BY <2>1, <2>2 DEF Tick, CallbackReturns, vars, history
<1>4. TypeOK'
  BY <1>1, <1>2, <1>3 DEF Inv, TypeOK, wheel
<1>. QED  BY <1>1, <1>3, <1>4, SameKeeps DEF wheel

LEMMA VisitTypes ==
  ASSUME Inv, Examine, in_callback' \in BOOLEAN
  PROVE  /\ handles # <<>> /\ handles' \in Seq(Handle)
         /\ UNCHANGED <<lag, current_slot, ticks, should_compact, compact_tick_counter, dropped>>
<1>1. handles \in Seq(Handle) /\ handles # <<>> /\ handles' = Tail(handles)
  BY DEF Inv, TypeOK, Examine
<1>. QED  BY <1>1, TailOf DEF Examine

LEMMA ReleaseKeeps ==
  ASSUME Inv, Examine, Release, UNCHANGED slots, in_callback' \in BOOLEAN,
         made' \in [Made -> Timer], fired' \subseteq Made
  PROVE  Inv'
<1>. DEFINE i == handle.index
<1>1. /\ handles # <<>> /\ handles' \in Seq(Handle)
      /\ UNCHANGED <<lag, current_slot, ticks, should_compact, compact_tick_counter, dropped>>
  BY VisitTypes
<1>2. Releases(i)
  BY ReleaseDoes
<1>3. /\ i \in Active
      /\ entries' \in Seq(Entry) /\ Len(entries') = Len(entries)
      /\ DOMAIN entries' = DOMAIN entries
      /\ \A j \in DOMAIN entries : j # i => entries'[j] = entries[j]
      /\ entries'[i] = [entries[i] EXCEPT !.active = FALSE, !.cancelled = FALSE,
                                          !.remaining_rounds = 0, !.slot_idx = 0]
      /\ lists' = Taken
      /\ free_list' \in Seq(Nat \ {0})
      /\ ToSet(free_list') = ToSet(free_list) \union {i}
      /\ IsInjective(free_list')
      /\ pending_entries' = Max({0, pending_entries - 1})
  BY <1>2 DEF Releases
<1>4. /\ Active \subseteq DOMAIN entries /\ IsFiniteSet(Active)
      /\ \A j \in DOMAIN entries : entries[j] \in Entry
  BY Domains DEF Inv
<1>5. made' \in Seq(Timer) /\ Len(made') = Len(made) /\ Made' = Made
  BY MadeAnew DEF Inv
<1>6. /\ Taken \in Filing /\ Apart(Taken) /\ Indices(Taken) = Active \ {i}
      /\ \A u \in Lists : \A g : In(Taken, u, g) <=> In(lists, u, g) /\ g.index # i
  BY <1>1, TakenDoes
<1>. HIDE DEF i
<1>7. /\ entries'[i].active = FALSE
      /\ entries'[i].timer = entries[i].timer
  BY <1>3, <1>4 DEF Entry
<1>8. Active' = Active \ {i}
  BY <1>3, <1>4, <1>7 DEF Active
<1>9. pending_entries' = pending_entries - 1 /\ pending_entries' \in Nat
      /\ pending_entries' = Cardinality(Active \ {i})
  <2>. DEFINE c == Cardinality(Active)
  <2>1. pending_entries = c /\ c \in Nat
    BY <1>4, FS_CardinalityType DEF Inv, Counted
  <2>2. Cardinality(Active \ {i}) = c - 1 /\ Cardinality(Active \ {i}) \in Nat
    BY <1>3, <1>4, FS_RemoveElement, FS_CardinalityType
  <2>. HIDE DEF c
  <2>3. pending_entries - 1 \in Nat
    BY <2>1, <2>2
  <2>4. Max({0, pending_entries - 1}) = pending_entries - 1
    BY <2>3, MaxOf
  <2>. QED  BY <2>1, <2>2, <2>3, <2>4, <1>3
<1>10. TypeOK'
  BY <1>1, <1>3, <1>5, <1>9 DEF Inv, TypeOK
<1>11. Filed'
  BY <1>3, <1>6, <1>8 DEF Filed
<1>12. Labelled'
  <2>. SUFFICES ASSUME NEW u \in Lists, NEW g, In(Taken, u, g)
                PROVE  Agrees(u, g)'
    BY <1>3 DEF Labelled, Agrees
  <2>1. /\ g.index \in Active /\ Current(g)
        /\ entries[g.index].slot_idx = IF u = -1 THEN current_slot ELSE u
        /\ g.index # i
    BY <1>6, HandleCurrent
  <2>2. entries'[g.index] = entries[g.index]
    BY <2>1, <1>3, <1>4
  <2>. QED  BY <2>1, <2>2, <1>1 DEF Agrees, Current
<1>13. Spare'
  <2>1. ToSet(free_list) = DOMAIN entries \ Active
    BY DEF Inv, Spare
  <2>. QED  BY <2>1, <1>3, <1>4, <1>8 DEF Spare
<1>14. Counted'
  BY <1>8, <1>9 DEF Counted
<1>15. Numbered'
  <2>1. \A j \in DOMAIN entries : entries'[j].timer = entries[j].timer
    BY <1>3, <1>7
  <2>. QED  BY <2>1, <1>3, <1>5 DEF Inv, Numbered
<1>. QED  BY <1>10, <1>11, <1>12, <1>13, <1>14, <1>15 DEF Inv

LEMMA PutBackKeeps ==
  ASSUME Inv, Examine, PutBack, UNCHANGED <<free_list, pending_entries, in_callback, made, fired>>,
         entries' \in Seq(Entry), Len(entries') = Len(entries),
         \A i \in DOMAIN entries :
           /\ entries'[i].generation = entries[i].generation
           /\ entries'[i].slot_idx = entries[i].slot_idx
           /\ entries'[i].active = entries[i].active
           /\ entries'[i].timer = entries[i].timer
  PROVE  Inv'
<1>0. in_callback' \in BOOLEAN
  BY DEF Inv, TypeOK
<1>1. /\ handles # <<>> /\ handles' \in Seq(Handle)
      /\ UNCHANGED <<lag, current_slot, ticks, should_compact, compact_tick_counter, dropped>>
  BY <1>0, VisitTypes
<1>2. DOMAIN entries' = DOMAIN entries /\ Active' = Active /\ Made' = Made
  BY Domains DEF Inv, TypeOK, Active, Made
<1>3. lists' = Kept
  BY PutBackDoes
<1>4. /\ Kept \in Filing /\ Apart(Kept) /\ Indices(Kept) = Active
      /\ \A u \in Lists : \A g :
           In(Kept, u, g) <=> \/ In(lists, u, g) /\ g.index # handle.index
                              \/ u = current_slot /\ g = handle
  BY <1>1, KeptDoes
<1>5. slots' \in [Slots -> Seq(Handle)]
  <2>1. handle \in Handle /\ current_slot \in Slots /\ slots \in [Slots -> Seq(Handle)]
    BY <1>1, HandleSeen DEF Inv, TypeOK
  <2>2. Append(slots[current_slot], handle) \in Seq(Handle)
    BY <2>1, AppendOf
  <2>. QED  BY <2>1, <2>2 DEF PutBack
<1>6. TypeOK'
  BY <1>0, <1>1, <1>2, <1>5 DEF Inv, TypeOK
<1>7. Filed'
  BY <1>2, <1>3, <1>4 DEF Filed
<1>8. Labelled'
  <2>. SUFFICES ASSUME NEW u \in Lists, NEW g, In(Kept, u, g)
                PROVE  Agrees(u, g)'
    BY <1>3 DEF Labelled, Agrees
  <2>1. CASE In(lists, u, g)
    <3>1. /\ g.index \in Active /\ Current(g)
          /\ entries[g.index].slot_idx = IF u = -1 THEN current_slot ELSE u
      BY <2>1, HandleCurrent
    <3>. QED  BY <3>1, <1>1 DEF Agrees, Current, Active
  <2>2. CASE u = current_slot /\ g = handle
    <3>1. /\ g.index \in Active /\ Current(g) /\ entries[g.index].slot_idx = current_slot
      BY <2>2, <1>1, HandleSeen DEF entry
    <3>2. u # -1
      BY <2>2, WheelAssumption DEF Inv, TypeOK, Slots
    <3>. QED  BY <2>2, <3>1, <3>2, <1>1 DEF Agrees, Current, Active
  <2>. QED  BY <2>1, <2>2, <1>4
<1>9. Spare' /\ Counted' /\ Numbered'
  BY <1>2 DEF Inv, Spare, Counted, Numbered
<1>. QED  BY <1>6, <1>7, <1>8, <1>9 DEF Inv

LEMMA AdvanceKeeps ==
  ASSUME Inv, Advance
  PROVE  Inv'
<1>1. /\ Following \in Slots /\ current_slot' = Following
      /\ lists' = Moved /\ Moved \in Filing /\ Apart(Moved) /\ Indices(Moved) = Active
      /\ \A u \in Lists : \A g :
           In(Moved, u, g) <=> u # Following /\ In(lists, IF u = -1 THEN Following ELSE u, g)
  BY AdvanceDoes
<1>2. /\ UNCHANGED <<lag, entries, free_list, pending_entries, in_callback, made, fired, dropped>>
      /\ ticks > 0 /\ ticks' = ticks - 1
  BY DEF Advance, history
<1>3. Active' = Active /\ Made' = Made
  BY <1>2 DEF Active, Made
<1>4. TypeOK'
  <2>1. ticks' \in Nat
    BY <1>2 DEF Inv, TypeOK
  <2>2. slots \in [Slots -> Seq(Handle)] /\ handles' = slots[Following]
        /\ slots' = [slots EXCEPT ![Following] = <<>>]
    BY DEF Advance, Following, Inv, TypeOK
  <2>3. handles' \in Seq(Handle) /\ slots' \in [Slots -> Seq(Handle)]
    BY <1>1, <2>2
  <2>4. /\ should_compact' \in BOOLEAN
        /\ compact_tick_counter' \in 0 .. COMPACT_INTERVAL_TICKS - 1
    <3>. DEFINE count == (compact_tick_counter + 1) % COMPACT_INTERVAL_TICKS
    <3>1. compact_tick_counter + 1 \in Int
      BY DEF Inv, TypeOK
    <3>2. count \in 0 .. COMPACT_INTERVAL_TICKS - 1
      BY <3>1, WheelAssumption
    <3>3. \/ UNCHANGED <<should_compact, compact_tick_counter>>
          \/ compact_tick_counter' = count /\ should_compact' = (count = 0)
      BY DEF Advance
    <3>. QED  BY <3>2, <3>3 DEF Inv, TypeOK
  <2>. QED  BY <1>1, <1>2, <1>3, <2>1, <2>3, <2>4 DEF Inv, TypeOK
<1>5. Filed'
  BY <1>1, <1>3 DEF Filed
<1>6. Labelled'
  <2>. SUFFICES ASSUME NEW u \in Lists, NEW g, In(Moved, u, g)
                PROVE  Agrees(u, g)'
    BY <1>1 DEF Labelled, Agrees
  <2>. DEFINE v == IF u = -1 THEN Following ELSE u
  <2>1. v \in Lists /\ In(lists, v, g) /\ v # -1
    BY <1>1, WheelAssumption DEF Lists, Slots
  <2>. HIDE DEF v
  <2>2. Current(g) /\ entries[g.index].slot_idx = v
    BY <2>1, HandleCurrent
  <2>. QED  BY <2>2, <1>1, <1>2 DEF Agrees, Current, v
<1>7. Spare' /\ Counted' /\ Numbered'
  BY <1>2, <1>3 DEF Inv, Spare, Counted, Numbered
<1>. QED  BY <1>4, <1>5, <1>6, <1>7 DEF Inv

LEMMA DiscardKeeps ==
  ASSUME Inv, Discard
  PROVE  Inv'
<1>1. /\ Examine /\ Current(handle) /\ entry.cancelled /\ should_compact /\ Release
      /\ UNCHANGED <<slots, in_callback, made, fired>>
  BY HandleSeen DEF Discard, Examine
<1>2. made' \in [Made -> Timer] /\ fired' \subseteq Made /\ in_callback' \in BOOLEAN
  BY <1>1 DEF Inv, TypeOK, Made
<1>. QED  BY <1>1, <1>2, ReleaseKeeps

LEMMA ExpireKeeps ==
  ASSUME Inv, Expire
  PROVE  Inv'
<1>1. /\ Examine /\ Release /\ UNCHANGED slots /\ in_callback' \in BOOLEAN
      /\ fired' = fired \union {entry.timer} /\ Forget(entry.timer)
  BY DEF Expire
<1>2. entry.timer \in Made
  BY <1>1, HandleSeen, Domains DEF Inv, Numbered, Examine, entry
<1>3. made' \in [Made -> Timer] /\ fired' \subseteq Made
  BY <1>1, <1>2, ForgetDoes DEF Inv, TypeOK
<1>. QED  BY <1>1, <1>3, ReleaseKeeps

LEMMA KeepRoundDoes ==
  ASSUME Inv, KeepRound
  PROVE  LET i == handle.index
         IN  /\ i \in Active
             /\ entries' \in Seq(Entry) /\ Len(entries') = Len(entries)
             /\ DOMAIN entries' = DOMAIN entries
             /\ \A j \in DOMAIN entries : j # i => entries'[j] = entries[j]
             /\ entries'[i] = [entries[i] EXCEPT !.remaining_rounds = entries[i].remaining_rounds - 1]
<1>. DEFINE i == handle.index
            e == [entries[i] EXCEPT !.remaining_rounds = entries[i].remaining_rounds - 1]
<1>1. /\ i \in Active /\ entries \in Seq(Entry) /\ DOMAIN entries = 1 .. Len(entries)
      /\ Len(entries) \in Nat /\ i \in DOMAIN entries /\ entries[i] \in Entry
  BY HandleSeen, Domains DEF KeepRound, Examine, Inv, TypeOK
<1>2. entries[i].remaining_rounds > 0
  BY DEF KeepRound, entry
<1>3. e \in Entry
  <2>. HIDE DEF i
  <2>1. entries[i].remaining_rounds - 1 \in Nat
    BY <1>1, <1>2 DEF Entry
  <2>. QED  BY <1>1, <2>1 DEF Entry
<1>4. entries' = [entries EXCEPT ![i] = e]
  BY DEF KeepRound
<1>. HIDE DEF i, e
<1>5. /\ entries' \in Seq(Entry) /\ Len(entries') = Len(entries)
      /\ DOMAIN entries' = DOMAIN entries
      /\ \A j \in DOMAIN entries : j # i => entries'[j] = entries[j]
      /\ entries'[i] = e
  BY <1>1, <1>3, <1>4
<1>. QED  BY <1>1, <1>5 DEF i, e

LEMMA KeepKeeps ==
  ASSUME Inv, KeepCancelled \/ KeepRound
  PROVE  Inv'
<1>1. CASE KeepCancelled
  BY <1>1, PutBackKeeps DEF KeepCancelled, Inv, TypeOK
<1>2. CASE KeepRound
  <2>. DEFINE i == handle.index
  <2>1. /\ i \in Active
        /\ entries' \in Seq(Entry) /\ Len(entries') = Len(entries)
        /\ \A j \in DOMAIN entries : j # i => entries'[j] = entries[j]
        /\ entries'[i] = [entries[i] EXCEPT !.remaining_rounds = entries[i].remaining_rounds - 1]
    BY <1>2, KeepRoundDoes
  <2>. HIDE DEF i
  <2>2. \A j \in DOMAIN entries :
          /\ entries'[j].generation = entries[j].generation
          /\ entries'[j].slot_idx = entries[j].slot_idx
          /\ entries'[j].active = entries[j].active
          /\ entries'[j].timer = entries[j].timer
    <3>. TAKE j \in DOMAIN entries
    <3>1. entries[j] \in Entry
      BY Domains DEF Inv
    <3>2. CASE j = i
      BY <3>1, <3>2, <2>1 DEF Entry
    <3>. QED  BY <3>2, <2>1
  <2>. QED  BY <1>2, <2>1, <2>2, PutBackKeeps DEF KeepRound
<1>. QED  BY <1>1, <1>2

LEMMA InvInit == Init => Inv
<1>. SUFFICES ASSUME Init PROVE Inv
  OBVIOUS
<1>1. 0 \in Slots
  BY WheelAssumption DEF Slots
<1>2. TypeOK
  <2>1. \A S : <<>> \in Seq(S)
    OBVIOUS
  <2>2. slots \in [Slots -> Seq(Handle)]
    BY <2>1 DEF Init
  <2>3. /\ entries \in Seq(Entry) /\ free_list \in Seq(Nat \ {0})
        /\ handles \in Seq(Handle) /\ made \in Seq(Timer)
    BY <2>1 DEF Init
  <2>4. 0 \in 0 .. COMPACT_INTERVAL_TICKS - 1
    BY WheelAssumption
  <2>. QED  BY <1>1, <2>2, <2>3, <2>4 DEF Init, TypeOK
<1>3. Active = {} /\ DOMAIN entries = {}
  BY DEF Init, Active
<1>4. \A s \in Lists : Len(lists[s]) = 0
  BY DEF Init, lists, Lists
<1>5. Filed
  BY <1>3, <1>4 DEF Filed, Apart, Indices
<1>6. Labelled
  BY <1>4 DEF Labelled, In
<1>7. Spare
  BY <1>3 DEF Init, Spare, ToSet, IsInjective
<1>8. Counted
  BY <1>3, FS_EmptySet DEF Init, Counted
<1>9. Numbered
  BY <1>3, WheelAssumption DEF Init, Numbered
<1>. QED  BY <1>2, <1>5, <1>6, <1>7, <1>8, <1>9 DEF Inv

LEMMA InvStep == Inv /\ [Next]_vars => Inv'
<1>. SUFFICES ASSUME Inv, [Next]_vars PROVE Inv'
  OBVIOUS
<1>1. ASSUME NEW timeout \in Timeouts, Add(timeout) PROVE Inv'
  BY <1>1, AddKeeps
<1>2. ASSUME NEW t \in Made, Cancel(t) PROVE Inv'
  BY <1>2, CancelKeeps
<1>3. CASE Advance
  BY <1>3, AdvanceKeeps
<1>4. CASE Discard
  BY <1>4, DiscardKeeps
<1>5. CASE KeepCancelled \/ KeepRound
  BY <1>5, KeepKeeps
<1>6. CASE Expire
  BY <1>6, ExpireKeeps
<1>7. CASE Tick \/ CallbackReturns \/ Pass \/ UNCHANGED vars
  BY <1>7, OthersKeep
<1>. QED  BY <1>1, <1>2, <1>3, <1>4, <1>5, <1>6, <1>7 DEF Next, AdvanceSlot

-----------------------------------------------------------------------------
(* EntriesHeld follows. *)

\* No list is longer than there are entries.
LEMMA ListsShort ==
  ASSUME Inv, NEW s \in Lists
  PROVE  Len(lists[s]) \in Nat /\ Len(lists[s]) <= Len(entries) /\ Len(entries) <= MaxAdds
<1>. DEFINE n == Len(lists[s])
            f == [k \in 1 .. n |-> lists[s][k].index]
<1>1. /\ lists \in Filing /\ Apart(lists) /\ Indices(lists) = Active
      /\ Active \subseteq DOMAIN entries /\ DOMAIN entries = 1 .. Len(entries)
      /\ Len(entries) \in Nat
  BY Domains DEF Inv, Filed
<1>2. n \in Nat
  BY <1>1 DEF Filing
<1>3. \A k \in 1 .. n : f[k] \in 1 .. Len(entries)
  BY <1>1, HandleParts
<1>4. f \in [1 .. n -> 1 .. Len(entries)]
  BY <1>3
<1>5. f \in Injection(1 .. n, 1 .. Len(entries))
  BY <1>1, <1>4 DEF Injection, IsInjective, Apart
<1>6. Cardinality(1 .. n) <= Cardinality(1 .. Len(entries))
  BY <1>1, <1>5, FS_Injection, FS_Interval
<1>7. ASSUME NEW m \in Nat PROVE Cardinality(1 .. m) = m
  <2>1. Cardinality(1 .. m) = IF 1 > m THEN 0 ELSE m - 1 + 1
    BY FS_Interval
  <2>. QED  BY <2>1
<1>8. n <= Len(entries)
  BY <1>1, <1>2, <1>6, <1>7
<1>9. Len(made) \in Nat /\ Len(entries) <= MaxAdds
  BY <1>1, Domains, WheelAssumption DEF Inv, Numbered
<1>. QED  BY <1>2, <1>8, <1>9

LEMMA PlacesAre ==
  ASSUME Inv, NEW i, NEW p
  PROVE  p \in PlacesOf(i) <=>
           \E s \in Lists : \E k \in 1 .. Len(lists[s]) :
             p = <<s, k>> /\ lists[s][k].index = i
<1>1. /\ slots \in [Slots -> Seq(Handle)] /\ handles \in Seq(Handle)
      /\ MaxAdds \in Nat
  BY WheelAssumption DEF Inv, TypeOK
<1>2. /\ -1 \in Lists /\ -1 \notin Slots /\ lists[-1] = handles
      /\ \A s \in Slots : s \in Lists /\ lists[s] = slots[s]
      /\ \A s \in Lists : s \in Slots \/ s = -1
  BY WheelAssumption DEF Lists, Slots, lists
<1>3. \A s \in Lists : Len(lists[s]) \in Nat /\ Len(lists[s]) <= MaxAdds
  BY <1>1, ListsShort, Domains DEF Inv
<1>4. \A s \in Lists : /\ DOMAIN lists[s] = 1 .. Len(lists[s])
                       /\ \A k \in 1 .. Len(lists[s]) : k \in 1 .. MaxAdds
  <2>. TAKE s \in Lists
  <2>1. lists[s] \in Seq(Handle)
    BY <1>1, <1>2
  <2>. QED  BY <2>1, <1>1, <1>3
<1>5. ASSUME p \in PlacesOf(i)
      PROVE  \E s \in Lists : \E k \in 1 .. Len(lists[s]) :
               p = <<s, k>> /\ lists[s][k].index = i
  <2>1. CASE /\ p \in Slots \X (1 .. MaxAdds)
             /\ p[2] \in DOMAIN slots[p[1]] /\ slots[p[1]][p[2]].index = i
    BY <2>1, <1>2, <1>4
  <2>2. CASE /\ p \in {-1} \X (1 .. MaxAdds)
             /\ p[2] \in DOMAIN handles /\ handles[p[2]].index = i
    BY <2>2, <1>2, <1>4
  <2>. QED  BY <1>5, <2>1, <2>2 DEF PlacesOf
<1>6. ASSUME NEW s \in Lists, NEW k \in 1 .. Len(lists[s]),
             p = <<s, k>>, lists[s][k].index = i
      PROVE  p \in PlacesOf(i)
  <2>0. p[1] = s /\ p[2] = k /\ k \in 1 .. MaxAdds /\ k \in DOMAIN lists[s]
    BY <1>4, <1>6
  <2>1. CASE s = -1
    BY <2>0, <2>1, <1>2, <1>6 DEF PlacesOf
  <2>2. CASE s \in Slots
    BY <2>0, <2>2, <1>2, <1>6 DEF PlacesOf
  <2>. QED  BY <2>1, <2>2, <1>2
<1>. QED  BY <1>5, <1>6

LEMMA HeldWhenInv == Inv => EntriesHeld
<1>. SUFFICES ASSUME Inv PROVE EntriesHeld
  OBVIOUS
<1>1. /\ lists \in Filing /\ Apart(lists) /\ Indices(lists) = Active
      /\ Active \subseteq DOMAIN entries /\ DOMAIN entries = 1 .. Len(entries)
      /\ Len(entries) \in Nat
  BY Domains DEF Inv, Filed
<1>2. ASSUME NEW i \in DOMAIN entries
      PROVE  Cardinality(PlacesOf(i)) = (IF i \in Active THEN 1 ELSE 0)
  <2>1. CASE i \in Active
    <3>1. PICK s \in Lists : \E k \in 1 .. Len(lists[s]) : lists[s][k].index = i
      BY <2>1, <1>1 DEF Indices
    <3>0. PICK k \in 1 .. Len(lists[s]) : lists[s][k].index = i
      BY <3>1
    <3>2. <<s, k>> \in PlacesOf(i)
      BY <3>0, PlacesAre
    <3>3. ASSUME NEW p \in PlacesOf(i) PROVE p = <<s, k>>
      <4>1. PICK u \in Lists : \E l \in 1 .. Len(lists[u]) : p = <<u, l>> /\ lists[u][l].index = i
        BY <3>3, PlacesAre
      <4>0. PICK l \in 1 .. Len(lists[u]) : p = <<u, l>> /\ lists[u][l].index = i
        BY <4>1
      <4>2. u = s /\ l = k
        BY <3>0, <4>0, <1>1 DEF Apart
      <4>. QED  BY <4>0, <4>2
    <3>4. PlacesOf(i) = {<<s, k>>}
      BY <3>2, <3>3
    <3>. QED  BY <2>1, <3>4, FS_Singleton
  <2>2. CASE i \notin Active
    <3>1. ASSUME NEW p \in PlacesOf(i) PROVE FALSE
      <4>1. PICK u \in Lists : \E l \in 1 .. Len(lists[u]) : p = <<u, l>> /\ lists[u][l].index = i
        BY <3>1, PlacesAre
      <4>0. PICK l \in 1 .. Len(lists[u]) : p = <<u, l>> /\ lists[u][l].index = i
        BY <4>1
      <4>2. i \in Indices(lists)
        BY <1>1, <4>0, HandleParts
      <4>. QED  BY <2>2, <1>1, <4>2
    <3>2. PlacesOf(i) = {}
      BY <3>1
    <3>. QED  BY <2>2, <3>2, FS_EmptySet
  <2>. QED  BY <2>1, <2>2
<1>3. ASSUME NEW s \in Lists, NEW h \in ToSet(lists[s])
      PROVE  Current(h)
  <2>1. lists[s] \in Seq(Handle)
    BY <1>1 DEF Filing
  <2>2. PICK k \in DOMAIN lists[s] : h = lists[s][k]
    BY DEF ToSet
  <2>3. k \in 1 .. Len(lists[s])
    BY <2>1, <2>2
  <2>4. In(lists, s, h)
    BY <2>2, <2>3 DEF In
  <2>. QED  BY <2>4, HandleCurrent
<1>4. \A s \in Slots : \A h \in ToSet(slots[s]) : Current(h)
  <2>. TAKE s \in Slots
  <2>1. s \in Lists /\ lists[s] = slots[s]
    BY WheelAssumption DEF Lists, Slots, lists
  <2>. QED  BY <2>1, <1>3
<1>5. \A h \in ToSet(handles) : Current(h)
  <2>1. -1 \in Lists /\ lists[-1] = handles
    BY DEF Lists, lists
  <2>. QED  BY <2>1, <1>3
<1>6. /\ ToSet(free_list) = DOMAIN entries \ Active
      /\ IsInjective(free_list)
      /\ pending_entries = Cardinality(Active)
  BY DEF Inv, Spare, Counted
<1>. QED  BY <1>2, <1>4, <1>5, <1>6 DEF EntriesHeld

\* The slots, the entries, the free list and the count of a wheel agree with
\* one another, whatever is added, cancelled, visited or run by a callback.
THEOREM HeldCorrect == Spec => [](TypeOK /\ EntriesHeld)
<1>1. Inv => TypeOK /\ EntriesHeld
  BY HeldWhenInv DEF Inv
<1>. QED  BY <1>1, InvInit, InvStep, PTL DEF Spec

-----------------------------------------------------------------------------
(* Ids, and the marks of cancelled timers. *)

\* The generations of an id last for all the timers.
IdsLast == MaxAdds < Generations

IdOf(i) == [index |-> i, generation |-> entries[i].generation]

\* No two timers have had the same id, and the one an entry is of now is that
\* of its timer.
IdsApart ==
  /\ \A t \in Made : made[t].id.index \in DOMAIN entries
  /\ \A t \in Made : made[t].id.generation <= entries[made[t].id.index].generation
  /\ \A t, u \in Made : made[t].id = made[u].id => t = u
  /\ \A i \in DOMAIN entries :
       entries[i].generation <= Len(made) /\ made[entries[i].timer].id = IdOf(i)

\* A timer that is set has its entry, an entry that is active a timer that has
\* not fired, and only active entries are marked.
LivesHeld ==
  /\ \A t \in Live : made[t].id.index \in Active /\ entries[made[t].id.index].timer = t
  /\ \A i \in Active : entries[i].timer \notin fired
  /\ \A i \in DOMAIN entries : i \notin Active => ~entries[i].cancelled

Right == IdsApart /\ LivesHeld /\ CancelsItsOwn

LEMMA IdsSame ==
  ASSUME Inv, IdsApart, Len(made') = Len(made), Made' = Made,
         DOMAIN entries' = DOMAIN entries,
         \A t \in Made : made'[t].id = made[t].id,
         \A i \in DOMAIN entries : /\ entries'[i].generation = entries[i].generation
                                   /\ entries'[i].timer = entries[i].timer
  PROVE  IdsApart'
<1>1. \A i \in DOMAIN entries : entries[i].timer \in Made
  BY DEF Inv, Numbered
<1>2. \A t \in Made : made[t].id.index \in DOMAIN entries
  BY DEF IdsApart
<1>3. \A i \in DOMAIN entries : IdOf(i)' = IdOf(i)
  BY DEF IdOf
<1>4. /\ \A t \in Made : made'[t].id.index \in DOMAIN entries'
      /\ \A t \in Made : made'[t].id.generation <= entries'[made'[t].id.index].generation
  BY <1>2 DEF IdsApart
<1>5. \A t, u \in Made : made'[t].id = made'[u].id => t = u
  BY DEF IdsApart
<1>6. \A i \in DOMAIN entries' :
        entries'[i].generation <= Len(made') /\ made'[entries'[i].timer].id = IdOf(i)'
  BY <1>1, <1>3 DEF IdsApart
<1>. QED  BY <1>4, <1>5, <1>6 DEF IdsApart

LEMMA MarksSame ==
  ASSUME Inv, Right, Made' = Made, UNCHANGED <<fired, dropped>>,
         DOMAIN entries' = DOMAIN entries,
         \A t \in Made : made'[t].id = made[t].id,
         \A i \in DOMAIN entries : /\ entries'[i].timer = entries[i].timer
                                   /\ entries'[i].active = entries[i].active
                                   /\ entries'[i].cancelled = entries[i].cancelled
  PROVE  LivesHeld' /\ CancelsItsOwn'
<1>1. Active' = Active /\ Live' = Live /\ Live \subseteq Made /\ Active \subseteq DOMAIN entries
  BY DEF Active, Live
<1>2. \A t \in Live : made'[t].id.index \in Active' /\ entries'[made'[t].id.index].timer = t
  BY <1>1 DEF Right, LivesHeld
<1>3. \A i \in Active' : entries'[i].timer \notin fired'
  BY <1>1 DEF Right, LivesHeld
<1>4. \A i \in DOMAIN entries' : i \notin Active' => ~entries'[i].cancelled
  BY <1>1 DEF Right, LivesHeld
<1>5. CancelsItsOwn'
  BY <1>1 DEF Right, CancelsItsOwn
<1>. QED  BY <1>1, <1>2, <1>3, <1>4, <1>5 DEF LivesHeld

LEMMA AddRight ==
  ASSUME IdsLast, Inv, Right, NEW timeout \in Timeouts, Add(timeout)
  PROVE  Right'
<1>. DEFINE n == Len(made) + 1
<1>1. PICK i \in Nat : Adds(i, timeout)
  BY AddDoes
<1>. DEFINE h == [index |-> i, generation |-> GenerationOf(i)]
            m == [id |-> h, timeout |-> timeout, lag |-> lag + ticks * TICK_MS, age |-> 0]
<1>2. /\ i \in 1 .. Len(entries) + 1 /\ i \notin Active
      /\ entries' \in Seq(Entry)
      /\ DOMAIN entries' = DOMAIN entries \union {i}
      /\ \A j \in DOMAIN entries : j # i => entries'[j] = entries[j]
      /\ entries'[i] = NewEntry(i, timeout)
      /\ made' = Append(made, m)
  BY <1>1 DEF Adds
<1>3. /\ NewEntry(i, timeout).generation = GenerationOf(i)
      /\ NewEntry(i, timeout).active = TRUE
      /\ NewEntry(i, timeout).timer = n
  BY DEF NewEntry
<1>4. /\ Len(entries) \in Nat /\ DOMAIN entries = 1 .. Len(entries)
      /\ Len(made) \in Nat /\ Made = 1 .. Len(made)
      /\ Active \subseteq DOMAIN entries /\ made \in Seq(Timer)
  BY Domains DEF Inv, TypeOK
<1>5. Len(made) < MaxAdds /\ UNCHANGED <<fired, dropped>>
  BY DEF Add
<1>6. /\ Len(made') = n /\ Made' = Made \union {n} /\ n \notin Made
      /\ made'[n] = m /\ \A t \in Made : made'[t] = made[t]
  <2>0. m \in Timer
    <3>1. timeout \in Timeouts \union {0} /\ lag \in Nat /\ ticks \in Nat /\ TICK_MS \in Nat
      BY WheelAssumption DEF Inv, TypeOK
    <3>2. lag + ticks * TICK_MS \in Nat
      BY <3>1
    <3>3. h \in Handle
      BY <1>1 DEF Adds
    <3>. QED  BY <3>1, <3>2, <3>3 DEF Timer
  <2>. HIDE DEF m
  <2>1. Len(made') = n /\ made'[n] = m /\ \A t \in Made : made'[t] = made[t]
        /\ made' \in Seq(Timer)
    BY <1>2, <1>4, <2>0, AppendOf
  <2>2. Made' = 1 .. n
    BY <2>1 DEF Made
  <2>. QED  BY <1>4, <2>1, <2>2
<1>7. h.index = i /\ h.generation = GenerationOf(i) /\ m.id = h
  OBVIOUS
<1>. HIDE DEF m, n, h
<1>8. Active' = Active \union {i}
  BY <1>2, <1>3 DEF Active
<1>9. GenerationOf(i) \in Nat /\ GenerationOf(i) <= n
      /\ (i \in DOMAIN entries => entries[i].generation < GenerationOf(i))
  <2>1. CASE i \in DOMAIN entries
    <3>1. entries[i].generation \in Nat /\ entries[i].generation <= Len(made)
      BY <2>1, Domains DEF Inv, Right, IdsApart, Entry
    <3>2. entries[i].generation + 1 < Generations
      BY <3>1, <1>4, <1>5, WheelAssumption DEF IdsLast
    <3>3. GenerationOf(i) = entries[i].generation + 1
      BY <2>1, <3>2, WheelAssumption DEF GenerationOf, NextGeneration
    <3>. QED  BY <3>1, <3>3, <1>4 DEF n
  <2>2. CASE i \notin DOMAIN entries
    BY <2>2, <1>4 DEF GenerationOf, n
  <2>. QED  BY <2>1, <2>2
<1>10. ASSUME NEW t \in Made
       PROVE  /\ made[t].id.index \in DOMAIN entries /\ made[t].id # h
              /\ made[t].id.generation <= entries'[made[t].id.index].generation
  <2>1. /\ made[t].id.index \in DOMAIN entries
        /\ made[t].id.generation <= entries[made[t].id.index].generation
        /\ made[t].id.generation \in Nat
    BY Domains DEF Inv, Right, IdsApart, Timer, Handle
  <2>2. CASE made[t].id.index = i
    <3>1. entries[i].generation \in Nat
      BY <2>1, <2>2, Domains DEF Inv, Entry
    <3>2. made[t].id.generation < GenerationOf(i)
      BY <2>1, <2>2, <3>1, <1>9
    <3>. QED  BY <2>1, <2>2, <3>2, <1>2, <1>3, <1>7, <1>9
  <2>3. CASE made[t].id.index # i
    BY <2>1, <2>3, <1>2, <1>7
  <2>. QED  BY <2>2, <2>3
<1>11. \A j \in DOMAIN entries : j # i =>
         /\ entries'[j] = entries[j] /\ entries[j].timer \in Made
         /\ made'[entries[j].timer] = made[entries[j].timer]
         /\ IdOf(j)' = IdOf(j)
  BY <1>2, <1>6 DEF Inv, Numbered, IdOf
<1>12. IdOf(i)' = h
  BY <1>2, <1>3 DEF IdOf, h
<1>13. IdsApart'
  <2>1. \A t \in Made' : /\ made'[t].id.index \in DOMAIN entries'
                         /\ made'[t].id.generation <= entries'[made'[t].id.index].generation
    <3>. TAKE t \in Made'
    <3>1. CASE t = n
      BY <3>1, <1>2, <1>3, <1>6, <1>7, <1>9
    <3>2. CASE t \in Made
      BY <3>2, <1>2, <1>6, <1>10
    <3>. QED  BY <3>1, <3>2, <1>6
  <2>2. \A t, u \in Made' : made'[t].id = made'[u].id => t = u
    BY <1>6, <1>7, <1>10 DEF Right, IdsApart
  <2>3. \A j \in DOMAIN entries' :
          entries'[j].generation <= Len(made') /\ made'[entries'[j].timer].id = IdOf(j)'
    <3>. TAKE j \in DOMAIN entries'
    <3>1. CASE j = i
      BY <3>1, <1>2, <1>3, <1>6, <1>7, <1>9, <1>12
    <3>2. CASE j # i
      <4>1. j \in DOMAIN entries
        BY <3>2, <1>2
      <4>2. entries[j].generation \in Nat /\ entries[j].generation <= Len(made)
            /\ made[entries[j].timer].id = IdOf(j)
        BY <4>1, Domains DEF Inv, Right, IdsApart, Entry
      <4>3. entries'[j].generation <= n
        BY <3>2, <4>1, <4>2, <1>4, <1>11 DEF n
      <4>. QED  BY <3>2, <4>1, <4>2, <4>3, <1>6, <1>11
    <3>. QED  BY <3>1, <3>2
  <2>. QED  BY <2>1, <2>2, <2>3 DEF IdsApart
<1>14. n \notin fired /\ n \notin dropped
  BY <1>6 DEF Inv, TypeOK
<1>15. i \in DOMAIN entries => ~entries[i].cancelled
  BY <1>2 DEF Right, LivesHeld
<1>16. ~entries'[i].cancelled
  <2>1. NewEntry(i, timeout).cancelled = (i \in DOMAIN entries /\ entries[i].cancelled)
    BY DEF NewEntry
  <2>. QED  BY <2>1, <1>2, <1>15
<1>17. LivesHeld'
  <2>0. Live' = Live \union {n} /\ Live \subseteq Made
    BY <1>5, <1>6, <1>14 DEF Live
  <2>1. \A t \in Live' : made'[t].id.index \in Active' /\ entries'[made'[t].id.index].timer = t
    <3>. TAKE t \in Live'
    <3>1. CASE t = n
      BY <3>1, <1>2, <1>3, <1>6, <1>7, <1>8
    <3>2. CASE t \in Live
      <4>1. made[t].id.index \in Active /\ entries[made[t].id.index].timer = t
        BY <3>2 DEF Right, LivesHeld
      <4>2. made[t].id.index # i
        BY <4>1, <1>2
      <4>. QED  BY <3>2, <4>1, <4>2, <2>0, <1>2, <1>4, <1>6, <1>8
    <3>. QED  BY <3>1, <3>2, <2>0
  <2>2. \A j \in Active' : entries'[j].timer \notin fired'
    <3>. TAKE j \in Active'
    <3>1. CASE j = i
      BY <3>1, <1>2, <1>3, <1>5, <1>14
    <3>2. CASE j # i
      BY <3>2, <1>2, <1>4, <1>5, <1>8 DEF Right, LivesHeld
    <3>. QED  BY <3>1, <3>2
  <2>3. \A j \in DOMAIN entries' : j \notin Active' => ~entries'[j].cancelled
    BY <1>2, <1>8 DEF Right, LivesHeld
  <2>. QED  BY <2>1, <2>2, <2>3 DEF LivesHeld
<1>18. CancelsItsOwn'
  <2>. SUFFICES ASSUME NEW j \in Active'
                PROVE  entries'[j].cancelled <=> entries'[j].timer \in dropped'
    BY DEF CancelsItsOwn
  <2>1. CASE j = i
    BY <2>1, <1>2, <1>3, <1>5, <1>14, <1>16
  <2>2. CASE j # i
    <3>1. j \in Active /\ entries'[j] = entries[j]
      BY <2>2, <1>2, <1>4, <1>8
    <3>. QED  BY <3>1, <1>5 DEF Right, CancelsItsOwn
  <2>. QED  BY <2>1, <2>2
<1>. QED  BY <1>13, <1>17, <1>18 DEF Right

LEMMA IdNames ==
  ASSUME Inv, Right, NEW j \in Active
  PROVE  made[entries[j].timer].id.index = j
<1>1. j \in DOMAIN entries
  BY DEF Active
<1>2. made[entries[j].timer].id = IdOf(j)
  BY <1>1 DEF Right, IdsApart
<1>. QED  BY <1>2 DEF IdOf

\* An id that is good is of the timer its entry has.
LEMMA IdGood ==
  ASSUME Inv, Right, NEW t \in Made, Current(made[t].id)
  PROVE  made[t].id.index \in Active /\ entries[made[t].id.index].timer = t
<1>. DEFINE i == made[t].id.index
<1>1. i \in DOMAIN entries
  BY DEF Right, IdsApart
<1>2. made[t].id \in Handle
  BY Domains DEF Inv, Timer
<1>3. made[t].id = IdOf(i)
  BY <1>2 DEF Current, IdOf, Handle
<1>4. entries[i].timer \in Made /\ made[entries[i].timer].id = IdOf(i)
  BY <1>1 DEF Inv, Numbered, Right, IdsApart
<1>5. entries[i].timer = t
  BY <1>3, <1>4 DEF Right, IdsApart
<1>. QED  BY <1>1, <1>5 DEF Current, Active

LEMMA CancelRight ==
  ASSUME Inv, Right, NEW t \in Made, Cancel(t)
  PROVE  Right'
<1>. DEFINE i == made[t].id.index
<1>1. i \in Active /\ entries[i].timer = t
  BY IdGood DEF Cancel
<1>2. /\ entries \in Seq(Entry) /\ Active \subseteq DOMAIN entries
      /\ \A j \in DOMAIN entries : entries[j] \in Entry
  BY Domains DEF Inv, TypeOK
<1>3. /\ DOMAIN entries' = DOMAIN entries
      /\ \A j \in DOMAIN entries : j # i => entries'[j] = entries[j]
      /\ entries'[i] = [entries[i] EXCEPT !.cancelled = TRUE]
  BY <1>1, <1>2, CancelDoes
<1>4. /\ Len(made') = Len(made) /\ Made' = Made
      /\ \A u \in Made : made'[u].id = made[u].id
  BY ForgetDoes, MadeAnew DEF Cancel, Inv
<1>5. dropped' = dropped \union {t} /\ UNCHANGED fired
  BY DEF Cancel
<1>6. \A j \in Active : j # i => entries[j].timer # t
  <2>. TAKE j \in Active
  <2>1. made[entries[j].timer].id.index = j
    BY IdNames
  <2>. QED  BY <2>1
<1>7. made[t].id.index = i
  OBVIOUS
<1>. HIDE DEF i
<1>8. /\ entries'[i].cancelled = TRUE /\ entries'[i].active = entries[i].active
      /\ entries'[i].timer = entries[i].timer /\ entries'[i].generation = entries[i].generation
  BY <1>1, <1>2, <1>3 DEF Entry
<1>9. Active' = Active
  BY <1>1, <1>2, <1>3, <1>8 DEF Active
<1>10. IdsApart'
  BY <1>3, <1>4, <1>8, IdsSame DEF Right
<1>11. Live' \subseteq Live /\ Live \subseteq Made
  BY <1>4, <1>5 DEF Live
<1>12. LivesHeld'
  <2>1. \A u \in Live' : made'[u].id.index \in Active' /\ entries'[made'[u].id.index].timer = u
    <3>. TAKE u \in Live'
    <3>1. made[u].id.index \in Active /\ entries[made[u].id.index].timer = u
          /\ made'[u].id = made[u].id
      BY <1>4, <1>11 DEF Right, LivesHeld
    <3>2. entries'[made[u].id.index].timer = u
      BY <3>1, <1>2, <1>3, <1>8
    <3>. QED  BY <3>1, <3>2, <1>9
  <2>2. \A j \in Active' : entries'[j].timer \notin fired'
    BY <1>2, <1>3, <1>5, <1>8, <1>9 DEF Right, LivesHeld
  <2>3. \A j \in DOMAIN entries' : j \notin Active' => ~entries'[j].cancelled
    BY <1>1, <1>3, <1>9 DEF Right, LivesHeld
  <2>. QED  BY <2>1, <2>2, <2>3 DEF LivesHeld
<1>13. CancelsItsOwn'
  <2>. SUFFICES ASSUME NEW j \in Active'
                PROVE  entries'[j].cancelled <=> entries'[j].timer \in dropped'
    BY DEF CancelsItsOwn
  <2>1. CASE j = i
    BY <2>1, <1>1, <1>5, <1>8
  <2>2. CASE j # i
    <3>1. j \in Active /\ entries'[j] = entries[j] /\ entries[j].timer # t
      BY <2>2, <1>2, <1>3, <1>6, <1>9
    <3>. QED  BY <3>1, <1>5 DEF Right, CancelsItsOwn
  <2>. QED  BY <2>1, <2>2
<1>. QED  BY <1>10, <1>12, <1>13 DEF Right

\* The entry that a visit releases is of a timer that was dropped or fires.
LEMMA ReleaseRight ==
  ASSUME Inv, Right, Examine, Release, UNCHANGED <<slots, dropped>>,
         Len(made') = Len(made), Made' = Made, \A t \in Made : made'[t].id = made[t].id,
         \/ entry.timer \in dropped /\ UNCHANGED fired
         \/ fired' = fired \union {entry.timer}
  PROVE  Right'
<1>. DEFINE i == handle.index
<1>0. Releases(i)
  BY ReleaseDoes
<1>1. /\ i \in Active
      /\ DOMAIN entries' = DOMAIN entries
      /\ \A j \in DOMAIN entries : j # i => entries'[j] = entries[j]
      /\ entries'[i] = [entries[i] EXCEPT !.active = FALSE, !.cancelled = FALSE,
                                          !.remaining_rounds = 0, !.slot_idx = 0]
  BY <1>0 DEF Releases
<1>2. /\ entries \in Seq(Entry) /\ Active \subseteq DOMAIN entries
      /\ \A j \in DOMAIN entries : entries[j] \in Entry
  BY Domains DEF Inv, TypeOK
<1>3. entry.timer = entries[i].timer
  BY DEF entry
<1>. HIDE DEF i
<1>4. /\ entries'[i].cancelled = FALSE /\ entries'[i].active = FALSE
      /\ entries'[i].timer = entries[i].timer /\ entries'[i].generation = entries[i].generation
  BY <1>1, <1>2 DEF Entry
<1>5. Active' = Active \ {i}
  BY <1>1, <1>2, <1>4 DEF Active
<1>6. IdsApart'
  BY <1>1, <1>4, IdsSame DEF Right
<1>7. /\ Live' \subseteq Live /\ Live \subseteq Made /\ entries[i].timer \notin Live'
  BY <1>3 DEF Live
<1>8. \A j \in Active : j # i => entries[j].timer # entries[i].timer
  <2>. TAKE j \in Active
  <2>1. made[entries[j].timer].id.index = j /\ made[entries[i].timer].id.index = i
    BY <1>1, IdNames
  <2>. QED  BY <2>1
<1>9. LivesHeld'
  <2>1. \A u \in Live' : made'[u].id.index \in Active' /\ entries'[made'[u].id.index].timer = u
    <3>. TAKE u \in Live'
    <3>1. made[u].id.index \in Active /\ entries[made[u].id.index].timer = u
      BY <1>7 DEF Right, LivesHeld
    <3>2. made[u].id.index # i
      BY <3>1, <1>7
    <3>. QED  BY <3>1, <3>2, <1>1, <1>2, <1>5, <1>7
  <2>2. \A j \in Active' : entries'[j].timer \notin fired'
    <3>. TAKE j \in Active'
    <3>1. j \in Active /\ j # i /\ entries'[j] = entries[j]
      BY <1>1, <1>2, <1>5
    <3>2. entries[j].timer \notin fired /\ entries[j].timer # entries[i].timer
      BY <3>1, <1>8 DEF Right, LivesHeld
    <3>. QED  BY <3>1, <3>2, <1>3
  <2>3. \A j \in DOMAIN entries' : j \notin Active' => ~entries'[j].cancelled
    <3>. TAKE j \in DOMAIN entries'
    <3>1. CASE j = i
      BY <3>1, <1>4
    <3>2. CASE j # i
      BY <3>2, <1>1, <1>5 DEF Right, LivesHeld
    <3>. QED  BY <3>1, <3>2
  <2>. QED  BY <2>1, <2>2, <2>3 DEF LivesHeld
<1>10. CancelsItsOwn'
  <2>. SUFFICES ASSUME NEW j \in Active'
                PROVE  entries'[j].cancelled <=> entries'[j].timer \in dropped'
    BY DEF CancelsItsOwn
  <2>1. j \in Active /\ entries'[j] = entries[j]
    BY <1>1, <1>2, <1>5
  <2>. QED  BY <2>1 DEF Right, CancelsItsOwn
<1>. QED  BY <1>6, <1>9, <1>10 DEF Right

\* Steps that leave ids and marks alone.
LEMMA OthersRight ==
  ASSUME Inv, Right,
         \/ Advance \/ KeepCancelled \/ KeepRound
         \/ Tick \/ CallbackReturns \/ Pass \/ UNCHANGED vars
  PROVE  Right'
<1>1. UNCHANGED <<fired, dropped>>
  BY DEF Advance, KeepCancelled, KeepRound, Examine, Tick, CallbackReturns, Pass, vars, history
<1>2. Len(made') = Len(made) /\ Made' = Made /\ \A t \in Made : made'[t].id = made[t].id
  <2>1. CASE Pass
    BY <2>1, PassDoes, MadeAnew DEF Inv
  <2>2. CASE ~Pass
    BY <2>2 DEF Advance, KeepCancelled, KeepRound, Tick, CallbackReturns, vars, history, Made
  <2>. QED  BY <2>1, <2>2
<1>3. /\ DOMAIN entries' = DOMAIN entries
      /\ \A i \in DOMAIN entries : /\ entries'[i].timer = entries[i].timer
                                   /\ entries'[i].generation = entries[i].generation
                                   /\ entries'[i].active = entries[i].active
                                   /\ entries'[i].cancelled = entries[i].cancelled
  <2>1. CASE KeepRound
    <3>. DEFINE i == handle.index
    <3>1. /\ DOMAIN entries' = DOMAIN entries
          /\ \A j \in DOMAIN entries : j # i => entries'[j] = entries[j]
          /\ entries'[i] = [entries[i] EXCEPT !.remaining_rounds = entries[i].remaining_rounds - 1]
      BY <2>1, KeepRoundDoes
    <3>. HIDE DEF i
    <3>2. \A j \in DOMAIN entries : /\ entries'[j].timer = entries[j].timer
                                    /\ entries'[j].generation = entries[j].generation
                                    /\ entries'[j].active = entries[j].active
                                    /\ entries'[j].cancelled = entries[j].cancelled
      <4>. TAKE j \in DOMAIN entries
      <4>1. entries[j] \in Entry
        BY Domains DEF Inv
      <4>2. CASE j = i
        BY <4>1, <4>2, <3>1 DEF Entry
      <4>. QED  BY <4>2, <3>1
    <3>. QED  BY <3>1, <3>2
  <2>2. CASE ~KeepRound
    BY <2>2 DEF Advance, KeepCancelled, Tick, CallbackReturns, Pass, vars, wheel
  <2>. QED  BY <2>1, <2>2
<1>4. IdsApart'
  BY <1>2, <1>3, IdsSame DEF Right
<1>5. LivesHeld' /\ CancelsItsOwn'
  BY <1>1, <1>2, <1>3, MarksSame
<1>. QED  BY <1>4, <1>5 DEF Right

LEMMA RightInit == Init => Right
<1>. SUFFICES ASSUME Init PROVE Right
  OBVIOUS
<1>1. Made = {} /\ DOMAIN entries = {} /\ Active = {} /\ Live = {}
  BY DEF Init, Made, Active, Live
<1>. QED  BY <1>1 DEF Right, IdsApart, LivesHeld, CancelsItsOwn

LEMMA RightStep ==
  ASSUME IdsLast
  PROVE  Inv /\ Right /\ [Next]_vars => Right'
<1>. SUFFICES ASSUME Inv, Right, [Next]_vars PROVE Right'
  OBVIOUS
<1>1. ASSUME NEW timeout \in Timeouts, Add(timeout) PROVE Right'
  BY <1>1, AddRight
<1>2. ASSUME NEW t \in Made, Cancel(t) PROVE Right'
  BY <1>2, CancelRight
<1>3. CASE Discard
  <2>1. /\ Examine /\ entry.cancelled /\ Release
        /\ UNCHANGED <<slots, made, fired, dropped>>
    BY <1>3, HandleSeen DEF Discard, Examine
  <2>2. entry.timer \in dropped
    BY <2>1, HandleSeen DEF Right, CancelsItsOwn, Examine, entry
  <2>3. Made' = Made
    BY <2>1 DEF Made
  <2>. QED  BY <2>1, <2>2, <2>3, ReleaseRight
<1>4. CASE Expire
  <2>1. /\ Examine /\ Release /\ UNCHANGED <<slots, dropped>>
        /\ fired' = fired \union {entry.timer} /\ Forget(entry.timer)
    BY <1>4 DEF Expire, Examine
  <2>2. entry.timer \in Made
    BY <2>1, HandleSeen, Domains DEF Inv, Numbered, Examine, entry
  <2>3. /\ Len(made') = Len(made) /\ Made' = Made
        /\ \A t \in Made : made'[t].id = made[t].id
    BY <2>1, <2>2, ForgetDoes, MadeAnew DEF Inv
  <2>. QED  BY <2>1, <2>3, ReleaseRight
<1>5. CASE \/ Advance \/ KeepCancelled \/ KeepRound
           \/ Tick \/ CallbackReturns \/ Pass \/ UNCHANGED vars
  BY <1>5, OthersRight
<1>. QED  BY <1>1, <1>2, <1>3, <1>4, <1>5 DEF Next, AdvanceSlot

\* As long as generations last, an entry is marked as cancelled exactly when
\* its own timer has been: an id that is out of date cancels nobody's timer.
THEOREM CancelsCorrect ==
  ASSUME IdsLast
  PROVE  Spec => []CancelsItsOwn
<1>1. Init => Inv /\ Right
  BY InvInit, RightInit
<1>2. (Inv /\ Right) /\ [Next]_vars => (Inv /\ Right)'
  BY InvStep, RightStep
<1>3. Right => CancelsItsOwn
  BY DEF Right
<1>. QED  BY <1>1, <1>2, <1>3, PTL DEF Spec

-----------------------------------------------------------------------------
(* Slots on the way. *)

LEMMA ModIs ==
  ASSUME NEW x \in Int, NEW q \in Int, NEW r \in Slots, x = WHEEL_SIZE * q + r
  PROVE  x % WHEEL_SIZE = r
<1>. DEFINE k == x \div WHEEL_SIZE
            m == x % WHEEL_SIZE
<1>1. m \in Slots /\ k \in Int /\ x = WHEEL_SIZE * k + m
  BY Rounded
<1>2. WHEEL_SIZE \in Nat \ {0} /\ r \in 0 .. WHEEL_SIZE - 1 /\ m \in 0 .. WHEEL_SIZE - 1
  BY <1>1, WheelAssumption DEF Slots
<1>. HIDE DEF k, m
<1>3. WHEEL_SIZE * (q - k) = m - r
  BY <1>1, <1>2
<1>4. CASE q - k >= 1
  <2>1. WHEEL_SIZE * (q - k) >= WHEEL_SIZE
    BY <1>1, <1>2, <1>4
  <2>. QED  BY <2>1, <1>2, <1>3
<1>5. CASE q - k <= -1
  <2>1. WHEEL_SIZE * (q - k) <= -WHEEL_SIZE
    BY <1>1, <1>2, <1>5
  <2>. QED  BY <2>1, <1>2, <1>3
<1>6. CASE q = k
  BY <1>1, <1>2, <1>3, <1>6
<1>. QED  BY <1>1, <1>4, <1>5, <1>6 DEF m

\* The ticks until a slot comes round.
LEMMA SlotComes ==
  ASSUME NEW s \in Slots, NEW c \in Slots
  PROVE  ((s - c - 1) % WHEEL_SIZE) + 1 = IF s > c THEN s - c ELSE s - c + WHEEL_SIZE
<1>1. /\ WHEEL_SIZE \in Nat \ {0} /\ s - c - 1 \in Int
      /\ s \in 0 .. WHEEL_SIZE - 1 /\ c \in 0 .. WHEEL_SIZE - 1
  BY WheelAssumption DEF Slots
<1>2. CASE s > c
  <2>1. s - c - 1 \in Slots /\ s - c - 1 = WHEEL_SIZE * 0 + (s - c - 1)
    BY <1>1, <1>2 DEF Slots
  <2>. QED  BY <2>1, <1>1, <1>2, ModIs
<1>3. CASE ~(s > c)
  <2>1. s - c - 1 + WHEEL_SIZE \in Slots
        /\ s - c - 1 = WHEEL_SIZE * (-1) + (s - c - 1 + WHEEL_SIZE)
    BY <1>1, <1>3 DEF Slots
  <2>2. (s - c - 1) % WHEEL_SIZE = s - c - 1 + WHEEL_SIZE
    BY <2>1, <1>1, ModIs
  <2>. QED  BY <2>2, <1>1, <1>3
<1>. QED  BY <1>2, <1>3

\* Which slot is n slots on.
LEMMA SlotOn ==
  ASSUME NEW c \in Slots, NEW n \in 0 .. WHEEL_SIZE
  PROVE  (c + n) % WHEEL_SIZE = IF c + n < WHEEL_SIZE THEN c + n ELSE c + n - WHEEL_SIZE
<1>1. /\ WHEEL_SIZE \in Nat \ {0} /\ c + n \in Int
      /\ c \in 0 .. WHEEL_SIZE - 1 /\ n \in Nat
  BY WheelAssumption DEF Slots
<1>2. CASE c + n < WHEEL_SIZE
  <2>1. c + n \in Slots /\ c + n = WHEEL_SIZE * 0 + (c + n)
    BY <1>1, <1>2 DEF Slots
  <2>. QED  BY <2>1, <1>1, <1>2, ModIs
<1>3. CASE ~(c + n < WHEEL_SIZE)
  <2>1. c + n - WHEEL_SIZE \in Slots /\ c + n = WHEEL_SIZE * 1 + (c + n - WHEEL_SIZE)
    BY <1>1, <1>3 DEF Slots
  <2>2. (c + n) % WHEEL_SIZE = c + n - WHEEL_SIZE
    BY <2>1, <1>1, ModIs
  <2>. QED  BY <2>2, <1>3
<1>. QED  BY <1>2, <1>3

-----------------------------------------------------------------------------
(* What remains to a timer. *)

\* The visit has yet to look at the handle of entry i.
Visited(i) == \E h \in Handle : In(lists, -1, h) /\ h.index = i

SlotsAhead(i) ==
  IF Visited(i) THEN 0
  ELSE IF entries[i].slot_idx > current_slot
  THEN entries[i].slot_idx - current_slot
  ELSE entries[i].slot_idx - current_slot + WHEEL_SIZE

Remainders ==
  \A i \in Active :
    /\ entries[i].slot_idx \in Slots /\ entries[i].remaining_rounds \in Nat
    /\ Remaining(i) = entries[i].remaining_rounds * WHEEL_SIZE + SlotsAhead(i)
    /\ SlotsAhead(i) \in 0 .. WHEEL_SIZE
    /\ ~Visited(i) => SlotsAhead(i) > 0
    /\ Remaining(i) \in Nat
    /\ ~Visited(i) => Remaining(i) > 0

LEMMA RemainingIs == Inv => Remainders
<1>. SUFFICES ASSUME Inv, NEW i \in Active
              PROVE  /\ entries[i].slot_idx \in Slots /\ entries[i].remaining_rounds \in Nat
                     /\ Remaining(i) = entries[i].remaining_rounds * WHEEL_SIZE + SlotsAhead(i)
                     /\ SlotsAhead(i) \in 0 .. WHEEL_SIZE
                     /\ ~Visited(i) => SlotsAhead(i) > 0
                     /\ Remaining(i) \in Nat
                     /\ ~Visited(i) => Remaining(i) > 0
  BY DEF Remainders
<1>. DEFINE s == entries[i].slot_idx
            r == entries[i].remaining_rounds
            p == r * WHEEL_SIZE
<1>1. s \in Slots /\ r \in Nat /\ current_slot \in Slots /\ handles \in Seq(Handle)
  BY Domains DEF Inv, TypeOK, Active, Entry
<1>2. (\E h \in ToSet(handles) : h.index = i) <=> Visited(i)
  <2>1. DOMAIN handles = 1 .. Len(handles) /\ \A k \in DOMAIN handles : handles[k] \in Handle
    BY <1>1
  <2>2. lists[-1] = handles
    BY DEF lists, Lists
  <2>. QED  BY <2>1, <2>2 DEF ToSet, Visited, In
<1>3. ((s - current_slot - 1) % WHEEL_SIZE) + 1 =
        IF s > current_slot THEN s - current_slot ELSE s - current_slot + WHEEL_SIZE
  BY <1>1, SlotComes
<1>4. p \in Nat
  BY <1>1, WheelAssumption
<1>5. Remaining(i) = IF Visited(i) THEN p ELSE ((s - current_slot - 1) % WHEEL_SIZE) + 1 + p
  BY <1>2 DEF Remaining
<1>6. /\ s \in 0 .. WHEEL_SIZE - 1 /\ current_slot \in 0 .. WHEEL_SIZE - 1
      /\ WHEEL_SIZE \in Nat \ {0}
  BY <1>1, WheelAssumption DEF Slots
<1>. HIDE DEF p
<1>7. /\ Remaining(i) = p + SlotsAhead(i)
      /\ SlotsAhead(i) \in 0 .. WHEEL_SIZE
      /\ ~Visited(i) => SlotsAhead(i) > 0
  BY <1>3, <1>4, <1>5, <1>6 DEF SlotsAhead
<1>8. Remaining(i) \in Nat /\ (~Visited(i) => Remaining(i) > 0)
  BY <1>4, <1>6, <1>7
<1>. QED  BY <1>1, <1>7, <1>8 DEF p

LEMMA RemainingNext == Inv' => Remainders'
BY RemainingIs, PTL

LEMMA RemainingSame ==
  ASSUME Inv, Inv', NEW i \in Active, i \in Active',
         entries'[i].slot_idx = entries[i].slot_idx,
         entries'[i].remaining_rounds = entries[i].remaining_rounds,
         current_slot' = current_slot, Visited(i)' <=> Visited(i)
  PROVE  Remaining(i)' = Remaining(i)
<1>1. SlotsAhead(i)' = SlotsAhead(i)
  BY DEF SlotsAhead
<1>. QED  BY <1>1, RemainingIs, RemainingNext DEF Remainders

\* An active entry has its handle in some list.
LEMMA HandleSomewhere ==
  ASSUME Inv, NEW i \in Active
  PROVE  \E s \in Lists : \E h \in Handle : In(lists, s, h) /\ h.index = i
<1>1. i \in Indices(lists) /\ lists \in Filing
  BY Domains DEF Inv, Filed
<1>2. PICK s \in Lists : \E k \in 1 .. Len(lists[s]) : lists[s][k].index = i
  BY <1>1 DEF Indices
<1>3. PICK k \in 1 .. Len(lists[s]) : lists[s][k].index = i
  BY <1>2
<1>4. lists[s][k] \in Handle /\ In(lists, s, lists[s][k])
  BY <1>1, HandleParts DEF In
<1>. QED  BY <1>3, <1>4

\* A timer that is added has its countdown before it, and the others keep theirs.
LEMMA CountAdd ==
  ASSUME Inv, Inv', NEW timeout \in Timeouts, Add(timeout), NEW i \in Nat, Adds(i, timeout)
  PROVE  /\ i \in Active' /\ Active \subseteq Active' /\ i \notin Active
         /\ Remaining(i)' = Countdown(timeout)
         /\ \A j \in Active : Remaining(j)' = Remaining(j)
<1>. DEFINE s == Target(timeout)
            n == TicksOf(timeout)
            h == [index |-> i, generation |-> GenerationOf(i)]
<1>1. /\ i \notin Active /\ h \in Handle
      /\ DOMAIN entries' = DOMAIN entries \union {i}
      /\ \A j \in DOMAIN entries : j # i => entries'[j] = entries[j]
      /\ entries'[i] = NewEntry(i, timeout)
      /\ lists' = [lists EXCEPT ![s] = Append(lists[s], h)]
  BY DEF Adds
<1>2. /\ entries'[i].active = TRUE /\ entries'[i].slot_idx = s
      /\ entries'[i].remaining_rounds = n \div WHEEL_SIZE
  BY <1>1 DEF NewEntry
<1>3. s \in Slots /\ lists \in Filing /\ Active \subseteq DOMAIN entries /\ current_slot \in Slots
  BY NewEntryGood, Domains DEF Inv, TypeOK
<1>4. s \in Lists /\ s # -1 /\ -1 \in Lists
  BY <1>3, WheelAssumption DEF Lists, Slots
<1>5. current_slot' = current_slot
  BY DEF Add
<1>6. i \in Active' /\ Active \subseteq Active'
  BY <1>1, <1>2, <1>3 DEF Active
<1>7. \A g : In(lists', -1, g) <=> In(lists, -1, g)
  <2>. HIDE DEF h, s
  <2>. QED  BY <1>1, <1>3, <1>4, HandleFiled
<1>8. \A j : Visited(j)' <=> Visited(j)
  BY <1>7 DEF Visited
<1>9. ASSUME NEW j \in Active PROVE Remaining(j)' = Remaining(j)
  <2>1. j \in Active' /\ entries'[j] = entries[j]
    BY <1>1, <1>3, <1>6
  <2>. QED  BY <2>1, <1>5, <1>8, RemainingSame
<1>10. ~Visited(i)'
  <2>1. ASSUME NEW g \in Handle, In(lists, -1, g), g.index = i PROVE FALSE
    BY <2>1, <1>1, <1>4, HandleCurrent
  <2>. QED  BY <2>1, <1>8 DEF Visited
<1>11. n \in Nat /\ n % WHEEL_SIZE \in Slots /\ n = WHEEL_SIZE * (n \div WHEEL_SIZE) + (n % WHEEL_SIZE)
       /\ n \div WHEEL_SIZE \in Int
  <2>1. n \in Nat
    BY TicksTaken, WheelAssumption
  <2>. HIDE DEF n
  <2>. QED  BY <2>1, Rounded
<1>. DEFINE m == n % WHEEL_SIZE
            q == n \div WHEEL_SIZE
<1>12. s = IF current_slot + m < WHEEL_SIZE THEN current_slot + m ELSE current_slot + m - WHEEL_SIZE
  <2>1. m \in 0 .. WHEEL_SIZE
    BY <1>11, WheelAssumption DEF Slots
  <2>. HIDE DEF m
  <2>2. (current_slot + m) % WHEEL_SIZE = IF current_slot + m < WHEEL_SIZE
                                          THEN current_slot + m ELSE current_slot + m - WHEEL_SIZE
    BY <1>3, <2>1, SlotOn
  <2>. QED  BY <2>2 DEF Target, m
<1>13. /\ m \in 0 .. WHEEL_SIZE - 1 /\ s \in 0 .. WHEEL_SIZE - 1
       /\ current_slot \in 0 .. WHEEL_SIZE - 1 /\ WHEEL_SIZE \in Nat \ {0}
  BY <1>3, <1>11, WheelAssumption DEF Slots
<1>14. Remaining(i)' = q * WHEEL_SIZE + SlotsAhead(i)'
  BY <1>2, <1>6, RemainingNext DEF Remainders
<1>15. Countdown(timeout) = n + (IF m = 0 THEN WHEEL_SIZE ELSE 0)
  BY DEF Countdown
<1>16. SlotsAhead(i)' = IF s > current_slot THEN s - current_slot ELSE s - current_slot + WHEEL_SIZE
  BY <1>2, <1>5, <1>10 DEF SlotsAhead
<1>17. n = q * WHEEL_SIZE + m /\ q * WHEEL_SIZE \in Int
  <2>1. q \in Int /\ m \in Int /\ n = WHEEL_SIZE * q + m
    BY <1>11, <1>13
  <2>. HIDE DEF n, q, m
  <2>. QED  BY <2>1, <1>13, Swapped
<1>. DEFINE p == q * WHEEL_SIZE
<1>. HIDE DEF m, q, s, n, p
<1>18. SlotsAhead(i)' = IF m = 0 THEN WHEEL_SIZE ELSE m
  BY <1>12, <1>13, <1>16
<1>19. Remaining(i)' = p + SlotsAhead(i)' /\ n = p + m /\ p \in Int
  BY <1>14, <1>17 DEF p
<1>20. Remaining(i)' = Countdown(timeout)
  BY <1>13, <1>15, <1>18, <1>19
<1>. QED  BY <1>1, <1>6, <1>9, <1>20

\* A slot that the wheel advances takes a tick off every timer.
LEMMA CountAdvance ==
  ASSUME Inv, Inv', Advance
  PROVE  /\ Active' = Active
         /\ \A j \in Active : Remaining(j) > 0 /\ Remaining(j)' = Remaining(j) - 1
<1>1. /\ Following \in Slots /\ current_slot' = Following /\ lists' = Moved
      /\ \A u \in Lists : \A g :
           In(Moved, u, g) <=> u # Following /\ In(lists, IF u = -1 THEN Following ELSE u, g)
  BY AdvanceDoes
<1>2. UNCHANGED entries /\ handles = <<>> /\ lists[-1] = handles /\ -1 \in Lists /\ Following # -1
      /\ Following \in Lists
  BY <1>1, WheelAssumption DEF Advance, lists, Lists, Slots
<1>3. Active' = Active
  BY <1>2 DEF Active
<1>4. \A j : ~Visited(j)
  BY <1>2 DEF Visited, In
<1>5. ASSUME NEW j \in Active
      PROVE  Visited(j)' <=> entries[j].slot_idx = Following
  <2>1. ASSUME Visited(j)' PROVE entries[j].slot_idx = Following
    <3>1. PICK h \in Handle : In(Moved, -1, h) /\ h.index = j
      BY <2>1, <1>1 DEF Visited
    <3>2. In(lists, Following, h)
      BY <3>1, <1>1, <1>2
    <3>. QED  BY <3>1, <3>2, <1>2, HandleCurrent
  <2>2. ASSUME entries[j].slot_idx = Following PROVE Visited(j)'
    <3>1. PICK s \in Lists : \E h \in Handle : In(lists, s, h) /\ h.index = j
      BY HandleSomewhere
    <3>2. PICK h \in Handle : In(lists, s, h) /\ h.index = j
      BY <3>1
    <3>3. s # -1
      BY <3>2, <1>4 DEF Visited
    <3>4. s = Following
      BY <2>2, <3>2, <3>3, HandleCurrent
    <3>5. In(Moved, -1, h)
      BY <3>2, <3>4, <1>1, <1>2
    <3>. QED  BY <3>2, <3>5, <1>1 DEF Visited
  <2>. QED  BY <2>1, <2>2
<1>6. Following = IF current_slot + 1 < WHEEL_SIZE THEN current_slot + 1
                                                   ELSE current_slot + 1 - WHEEL_SIZE
  <2>1. 1 \in 0 .. WHEEL_SIZE /\ current_slot \in Slots
    BY WheelAssumption DEF Inv, TypeOK
  <2>. QED  BY <2>1, SlotOn DEF Following
<1>7. ASSUME NEW j \in Active
      PROVE  Remaining(j) > 0 /\ Remaining(j)' = Remaining(j) - 1
  <2>. DEFINE s == entries[j].slot_idx
              p == entries[j].remaining_rounds * WHEEL_SIZE
  <2>1. /\ s \in Slots /\ entries[j].remaining_rounds \in Nat
        /\ Remaining(j) = p + SlotsAhead(j) /\ Remaining(j) > 0
    BY <1>4, RemainingIs DEF Remainders
  <2>2. Remaining(j)' = p + SlotsAhead(j)'
    BY <1>2, <1>3, RemainingNext DEF Remainders
  <2>3. p \in Nat
    BY <2>1, WheelAssumption
  <2>4. /\ s \in 0 .. WHEEL_SIZE - 1 /\ current_slot \in 0 .. WHEEL_SIZE - 1
        /\ WHEEL_SIZE \in Nat \ {0}
    BY <2>1, WheelAssumption DEF Inv, TypeOK, Slots
  <2>5. SlotsAhead(j) = IF s > current_slot THEN s - current_slot
                                            ELSE s - current_slot + WHEEL_SIZE
    BY <1>4 DEF SlotsAhead
  <2>6. SlotsAhead(j)' = IF s = Following THEN 0
                         ELSE IF s > Following THEN s - Following
                         ELSE s - Following + WHEEL_SIZE
    BY <1>1, <1>2, <1>5 DEF SlotsAhead
  <2>. HIDE DEF s, p
  <2>7. SlotsAhead(j)' = SlotsAhead(j) - 1 /\ SlotsAhead(j) \in Int
    BY <1>6, <2>4, <2>5, <2>6
  <2>. QED  BY <2>1, <2>2, <2>3, <2>7
<1>. QED  BY <1>3, <1>7

\* The entries that a visit does not look at keep what remains.
LEMMA CountExamine ==
  ASSUME Inv, Inv', Examine, lists' = Taken \/ lists' = Kept,
         NEW j \in Active, j \in Active', j # handle.index, entries'[j] = entries[j]
  PROVE  Remaining(j)' = Remaining(j)
<1>1. handles # <<>> /\ current_slot' = current_slot
  BY DEF Examine
<1>2. -1 \in Lists /\ current_slot # -1
  BY WheelAssumption DEF Lists, Inv, TypeOK, Slots
<1>3. \A g : In(lists', -1, g) <=> In(lists, -1, g) /\ g.index # handle.index
  <2>1. CASE lists' = Taken
    BY <2>1, <1>1, <1>2, TakenDoes
  <2>2. CASE lists' = Kept
    BY <2>2, <1>1, <1>2, KeptDoes
  <2>. QED  BY <2>1, <2>2
<1>4. Visited(j)' <=> Visited(j)
  BY <1>3 DEF Visited
<1>. QED  BY <1>1, <1>4, RemainingSame

\* Nor does a timer that is kept for another revolution lose any of it.
LEMMA CountRound ==
  ASSUME Inv, Inv', KeepRound
  PROVE  /\ Active' = Active
         /\ \A j \in Active : Remaining(j)' = Remaining(j)
<1>0. PICK i : i = handle.index
  OBVIOUS
<1>1. /\ i \in Active /\ DOMAIN entries' = DOMAIN entries
      /\ \A j \in DOMAIN entries : j # i => entries'[j] = entries[j]
      /\ entries'[i] = [entries[i] EXCEPT !.remaining_rounds = entries[i].remaining_rounds - 1]
  BY <1>0, KeepRoundDoes
<1>2. Examine /\ handles # <<>> /\ current_slot' = current_slot /\ lists' = Kept
  BY PutBackDoes DEF KeepRound, Examine
<1>3. entries[i] \in Entry /\ Active \subseteq DOMAIN entries
  BY <1>1, Domains DEF Inv
<1>4. Visited(i) /\ entries[i].slot_idx = current_slot
  BY <1>2, <1>0, HandleSeen DEF Visited, entry
<1>5. ~Visited(i)'
  <2>1. -1 \in Lists /\ current_slot # -1
    BY WheelAssumption DEF Lists, Inv, TypeOK, Slots
  <2>2. \A u \in Lists : \A g :
          In(Kept, u, g) <=> \/ In(lists, u, g) /\ g.index # handle.index
                             \/ u = current_slot /\ g = handle
    BY <1>2, KeptDoes
  <2>3. \A g : In(Kept, -1, g) => g.index # handle.index
    BY <2>1, <2>2
  <2>. QED  BY <1>2, <1>0, <2>3 DEF Visited
<1>7. /\ entries'[i].slot_idx = entries[i].slot_idx /\ entries'[i].active = entries[i].active
      /\ entries'[i].remaining_rounds = entries[i].remaining_rounds - 1
  BY <1>1, <1>3 DEF Entry
<1>8. Active' = Active
  BY <1>1, <1>3, <1>7 DEF Active
<1>9. \A j \in Active : j # i => Remaining(j)' = Remaining(j)
  BY <1>1, <1>2, <1>3, <1>0, <1>8, CountExamine
<1>10. Remaining(i)' = Remaining(i)
  <2>. DEFINE r == entries[i].remaining_rounds
              p == r * WHEEL_SIZE
  <2>1. current_slot \in Int /\ WHEEL_SIZE \in Nat
    BY WheelAssumption DEF Inv, TypeOK, Slots
  <2>2. SlotsAhead(i) = 0
    BY <1>4 DEF SlotsAhead
  <2>3. SlotsAhead(i)' = WHEEL_SIZE
    <3>1. entries'[i].slot_idx = current_slot /\ current_slot' = current_slot
      BY <1>2, <1>4, <1>7
    <3>2. SlotsAhead(i)' = entries'[i].slot_idx - current_slot' + WHEEL_SIZE
      BY <1>5, <2>1, <3>1 DEF SlotsAhead
    <3>. QED  BY <2>1, <3>1, <3>2
  <2>4. Remaining(i) = p + SlotsAhead(i) /\ r \in Nat
    BY <1>1, RemainingIs DEF Remainders
  <2>5. Remaining(i)' = entries'[i].remaining_rounds * WHEEL_SIZE + SlotsAhead(i)'
    <3>1. Remainders' /\ i \in Active'
      BY <1>1, <1>8, RemainingNext
    <3>. QED  BY <3>1 DEF Remainders
  <2>6. entries'[i].remaining_rounds = r - 1
    BY <1>7
  <2>. HIDE DEF r
  <2>7. (r - 1) * WHEEL_SIZE = p - WHEEL_SIZE /\ p \in Nat
    BY <2>1, <2>4
  <2>8. Remaining(i)' = p - WHEEL_SIZE + SlotsAhead(i)'
    BY <2>5, <2>6, <2>7
  <2>. HIDE DEF p
  <2>. QED  BY <2>1, <2>2, <2>3, <2>4, <2>7, <2>8
<1>. QED  BY <1>8, <1>9, <1>10

-----------------------------------------------------------------------------
(* What a timer has waited. *)

\* By the time of the wheel.
Waited(t) == made[t].age + made[t].lag - (lag + ticks * TICK_MS)

\* What a timer has waited and what remains to it make up its countdown.
Elapsed ==
  \A t \in Live :
    Waited(t) = (Countdown(made[t].timeout) - Remaining(made[t].id.index)) * TICK_MS

LEMMA CountdownNat ==
  ASSUME NEW timeout \in Nat
  PROVE  Countdown(timeout) \in Nat /\ timeout <= Countdown(timeout) * TICK_MS
<1>. DEFINE n == TicksOf(timeout)
            c == IF n % WHEEL_SIZE = 0 THEN WHEEL_SIZE ELSE 0
<1>1. n \in Nat \ {0} /\ timeout <= n * TICK_MS
  BY TicksTaken
<1>2. WHEEL_SIZE \in Nat /\ TICK_MS \in Nat /\ c \in Nat
  BY WheelAssumption
<1>3. Countdown(timeout) = n + c
  BY DEF Countdown
<1>. HIDE DEF n, c
<1>4. (n + c) * TICK_MS = n * TICK_MS + c * TICK_MS /\ c * TICK_MS \in Nat /\ n * TICK_MS \in Nat
  BY <1>1, <1>2
<1>. QED  BY <1>1, <1>2, <1>3, <1>4

LEMMA WaitedInt ==
  ASSUME TypeOK, NEW t \in Made
  PROVE  /\ made[t].age \in Nat /\ made[t].lag \in Nat /\ lag \in Nat /\ ticks \in Nat
         /\ TICK_MS \in Nat \ {0} /\ ticks * TICK_MS \in Nat
         /\ made[t].timeout \in Nat /\ Countdown(made[t].timeout) \in Nat
         /\ Waited(t) \in Int
<1>1. /\ made[t].age \in Nat /\ made[t].lag \in Nat /\ lag \in Nat /\ ticks \in Nat
      /\ TICK_MS \in Nat \ {0} /\ made[t].timeout \in Nat
  <2>1. made[t] \in Timer /\ Timeouts \union {0} \subseteq Nat
    BY Domains, WheelAssumption
  <2>2. lag \in Nat /\ ticks \in Nat /\ TICK_MS \in Nat \ {0}
    BY WheelAssumption DEF TypeOK
  <2>. QED  BY <2>1, <2>2 DEF Timer
<1>2. ticks * TICK_MS \in Nat
  BY <1>1
<1>3. Waited(t) \in Int
  BY <1>1, <1>2 DEF Waited
<1>. QED  BY <1>1, <1>2, <1>3, CountdownNat

\* The entry of a timer that is set.
LEMMA LiveEntry ==
  ASSUME Inv, Right, NEW t \in Live
  PROVE  /\ t \in Made
         /\ made[t].id.index \in Active /\ entries[made[t].id.index].timer = t
         /\ Remaining(made[t].id.index) \in Nat
BY RemainingIs DEF Right, LivesHeld, Live, Remainders

LEMMA ElapsedKept ==
  ASSUME Inv, Right, Elapsed, Live' \subseteq Live,
         \A t \in Live' : /\ made'[t].id = made[t].id /\ made'[t].timeout = made[t].timeout
                          /\ Waited(t)' = Waited(t),
         \A t \in Live' : \A i \in Active :
           i = made[t].id.index => Remaining(i)' = Remaining(i)
  PROVE  Elapsed'
<1>. SUFFICES ASSUME NEW t \in Live'
              PROVE  Waited(t)' = (Countdown(made'[t].timeout) - Remaining(made[t].id.index)') * TICK_MS
  BY DEF Elapsed
<1>1. PICK i \in Active : i = made[t].id.index
  BY LiveEntry
<1>2. Remaining(i)' = Remaining(i) /\ i = made'[t].id.index
  BY <1>1
<1>3. Waited(t)' = Waited(t) /\ made'[t].timeout = made[t].timeout
  OBVIOUS
<1>4. Waited(t) = (Countdown(made[t].timeout) - Remaining(i)) * TICK_MS
  BY <1>1 DEF Elapsed
<1>5. Remaining(made[t].id.index)' = Remaining(i)'
  BY <1>2
<1>. QED  BY <1>2, <1>3, <1>4, <1>5

LEMMA WaitedSame ==
  ASSUME NEW t, made'[t] = made[t], UNCHANGED <<lag, ticks>>
  PROVE  Waited(t)' = Waited(t)
BY DEF Waited

\* The timer that is added is set, with its countdown before it.
LEMMA AddLives ==
  ASSUME Inv, Inv', NEW timeout \in Timeouts, Add(timeout)
  PROVE  LET n == Len(made) + 1
         IN  /\ n \in 1 .. MaxAdds /\ n \notin Made
             /\ Live' = Live \union {n}
             /\ \A t \in Made : made'[t] = made[t]
             /\ made'[n].timeout = timeout
             /\ made'[n].age = 0 /\ made'[n].lag = lag + ticks * TICK_MS
             /\ \E i \in Nat : made'[n].id.index = i /\ Remaining(i)' = Countdown(timeout)
<1>. DEFINE n == Len(made) + 1
            m(h) == [id |-> h, timeout |-> timeout, lag |-> lag + ticks * TICK_MS, age |-> 0]
<1>1. PICK i \in Nat : Adds(i, timeout)
  BY AddDoes
<1>2. Remaining(i)' = Countdown(timeout)
  BY <1>1, CountAdd
<1>3. PICK h : h.index = i /\ made' = Append(made, m(h)) /\ h \in Handle
  BY <1>1 DEF Adds
<1>4. UNCHANGED <<fired, dropped>> /\ Len(made) < MaxAdds
  BY DEF Add
<1>5. Len(made) \in Nat /\ Made = 1 .. Len(made) /\ made \in Seq(Timer)
      /\ made' \in Seq(Timer)
  BY Domains DEF Inv, TypeOK
<1>6. /\ made'[n] = m(h) /\ \A t \in Made : made'[t] = made[t]
      /\ Len(made') = n
  <2>. HIDE DEF m
  <2>. QED  BY <1>3, <1>5
<1>7. Made' = Made \union {n} /\ n \notin Made /\ n \in 1 .. MaxAdds
  BY <1>4, <1>5, <1>6, WheelAssumption DEF Made
<1>8. fired \subseteq Made /\ dropped \subseteq Made
  BY DEF Inv, TypeOK
<1>9. Live' = Live \union {n}
  BY <1>4, <1>7, <1>8 DEF Live
<1>10. /\ made'[n].id.index = i /\ made'[n].timeout = timeout
       /\ made'[n].age = 0 /\ made'[n].lag = lag + ticks * TICK_MS
  BY <1>3, <1>6
<1>. HIDE DEF n
<1>11. n = Len(made) + 1
  BY DEF n
<1>. QED  BY <1>2, <1>6, <1>7, <1>9, <1>10, <1>11

LEMMA ElapsedAdd ==
  ASSUME Inv, Inv', Right, Right', Elapsed, NEW timeout \in Timeouts, Add(timeout)
  PROVE  Elapsed'
<1>1. PICK n : n = Len(made) + 1
  OBVIOUS
<1>2. /\ Live' = Live \union {n} /\ Live \subseteq Made
      /\ \A t \in Made : made'[t] = made[t]
      /\ made'[n].timeout = timeout
      /\ made'[n].age = 0 /\ made'[n].lag = lag + ticks * TICK_MS
      /\ \E i \in Nat : made'[n].id.index = i /\ Remaining(i)' = Countdown(timeout)
  BY <1>1, AddLives DEF Live
<1>3. UNCHANGED <<lag, ticks>>
  BY DEF Add, visit
<1>. SUFFICES ASSUME NEW t \in Live'
              PROVE  Waited(t)' = (Countdown(made'[t].timeout) - Remaining(made[t].id.index)') * TICK_MS
  BY DEF Elapsed
<1>4. CASE t \in Live
  <2>1. made'[t] = made[t] /\ Waited(t)' = Waited(t)
    BY <1>2, <1>3, <1>4, WaitedSame
  <2>2. PICK j \in Active : j = made[t].id.index
    BY <1>4, LiveEntry
  <2>3. PICK i \in Nat : Adds(i, timeout)
    BY AddDoes
  <2>4. Remaining(j)' = Remaining(j) /\ Remaining(made[t].id.index)' = Remaining(j)'
    BY <2>1, <2>2, <2>3, CountAdd
  <2>5. Waited(t) = (Countdown(made[t].timeout) - Remaining(j)) * TICK_MS
    BY <1>4, <2>2 DEF Elapsed
  <2>. QED  BY <2>1, <2>4, <2>5
<1>5. CASE t = n
  <2>1. Remaining(made[t].id.index)' = Countdown(timeout)
    BY <1>2, <1>5
  <2>2. Waited(t)' = 0
    <3>. DEFINE w == lag + ticks * TICK_MS
    <3>1. lag \in Nat /\ ticks \in Nat /\ TICK_MS \in Nat
      BY WheelAssumption DEF Inv, TypeOK
    <3>2. w \in Nat
      BY <3>1
    <3>3. Waited(t)' = 0 + w - w
      BY <1>2, <1>3, <1>5 DEF Waited
    <3>. HIDE DEF w
    <3>. QED  BY <3>2, <3>3
  <2>3. Countdown(timeout) \in Nat /\ TICK_MS \in Nat
    BY CountdownNat, WheelAssumption
  <2>4. (Countdown(timeout) - Countdown(timeout)) * TICK_MS = 0
    BY <2>3
  <2>. QED  BY <1>2, <1>5, <2>1, <2>2, <2>4
<1>. QED  BY <1>2, <1>4, <1>5

LEMMA ElapsedAdvance ==
  ASSUME Inv, Inv', Right, Elapsed, Advance
  PROVE  Elapsed'
<1>1. /\ UNCHANGED <<lag, made, fired, dropped>>
      /\ ticks' = ticks - 1
  BY DEF Advance, history
<1>2. Live' = Live
  BY <1>1 DEF Live, Made
<1>. SUFFICES ASSUME NEW t \in Live
              PROVE  Waited(t)' = (Countdown(made'[t].timeout) - Remaining(made[t].id.index)') * TICK_MS
  BY <1>2 DEF Elapsed
<1>3. PICK i \in Active : i = made[t].id.index
  BY LiveEntry
<1>4. Remaining(made[t].id.index)' = Remaining(i)' /\ Remaining(i) \in Nat
  BY <1>1, <1>3, LiveEntry
<1>5. Remaining(i)' = Remaining(i) - 1
  BY CountAdvance
<1>6. Waited(t) = (Countdown(made[t].timeout) - Remaining(i)) * TICK_MS
  BY <1>3 DEF Elapsed
<1>. DEFINE c == Countdown(made[t].timeout)
            r == Remaining(i)
            p == ticks * TICK_MS
<1>7. /\ made[t].age \in Nat /\ made[t].lag \in Nat /\ lag \in Nat /\ ticks \in Nat
      /\ TICK_MS \in Nat \ {0} /\ p \in Nat /\ c \in Nat /\ t \in Made
  BY LiveEntry, WaitedInt DEF Inv
<1>8. (ticks - 1) * TICK_MS = p - TICK_MS
  BY <1>7
<1>9. Waited(t)' = made[t].age + made[t].lag - (lag + (p - TICK_MS))
  BY <1>1, <1>8 DEF Waited
<1>10. Waited(t) = made[t].age + made[t].lag - (lag + p)
  BY DEF Waited
<1>11. r \in Int
  BY <1>4
<1>. HIDE DEF c, r, p
<1>12. Waited(t)' = Waited(t) + TICK_MS
  BY <1>7, <1>9, <1>10
<1>13. (c - (r - 1)) * TICK_MS = (c - r) * TICK_MS + TICK_MS
  BY <1>7, <1>11
<1>14. Waited(t) = (c - r) * TICK_MS
  BY <1>6 DEF c, r
<1>15. Waited(t)' = (c - (r - 1)) * TICK_MS
  BY <1>12, <1>13, <1>14
<1>. QED  BY <1>1, <1>4, <1>5, <1>15 DEF c, r

LEMMA ElapsedCancel ==
  ASSUME Inv, Inv', Right, Elapsed, NEW t \in Made, Cancel(t)
  PROVE  Elapsed'
<1>1. /\ dropped' = dropped \union {t} /\ Forget(t)
      /\ UNCHANGED <<lag, current_slot, slots, handles, ticks, fired>>
  BY DEF Cancel, visit
<1>2. Made' = Made /\ \A u \in Made : u # t => made'[u] = made[u]
  BY <1>1, ForgetDoes, MadeAnew DEF Inv
<1>3. Live' \subseteq Live /\ t \notin Live' /\ Live \subseteq Made
  BY <1>1, <1>2 DEF Live
<1>4. \A u \in Live' : made'[u] = made[u]
  BY <1>2, <1>3
<1>5. PICK k : k = made[t].id.index
  OBVIOUS
<1>6. /\ DOMAIN entries' = DOMAIN entries
      /\ \A j \in DOMAIN entries : j # k => entries'[j] = entries[j]
      /\ k \in DOMAIN entries => entries'[k] = [entries[k] EXCEPT !.cancelled = TRUE]
  BY <1>5, CancelDoes
<1>7. \A j \in DOMAIN entries : /\ entries'[j].slot_idx = entries[j].slot_idx
                                /\ entries'[j].active = entries[j].active
                                /\ entries'[j].remaining_rounds = entries[j].remaining_rounds
  <2>. TAKE j \in DOMAIN entries
  <2>1. entries[j] \in Entry
    BY Domains DEF Inv
  <2>2. CASE j = k
    BY <2>1, <2>2, <1>6 DEF Entry
  <2>. QED  BY <2>2, <1>6
<1>8. Active' = Active /\ Active \subseteq DOMAIN entries
  BY <1>6, <1>7 DEF Active
<1>9. \A j : Visited(j)' <=> Visited(j)
  BY <1>1 DEF Visited, In, lists
<1>10. \A j \in Active : Remaining(j)' = Remaining(j)
  BY <1>1, <1>7, <1>8, <1>9, RemainingSame
<1>. QED  BY <1>1, <1>3, <1>4, <1>10, ElapsedKept, WaitedSame

LEMMA ElapsedRelease ==
  ASSUME Inv, Inv', Right, Elapsed, Examine, Release, UNCHANGED slots,
         Live' \subseteq Live, entry.timer \notin Live', \A t \in Live' : made'[t] = made[t]
  PROVE  Elapsed'
<1>1. PICK i : i = handle.index
  OBVIOUS
<1>2. /\ \A j \in DOMAIN entries : j # i => entries'[j] = entries[j]
      /\ DOMAIN entries' = DOMAIN entries /\ lists' = Taken
  BY <1>1, ReleaseDoes DEF Releases
<1>3. entry.timer = entries[i].timer /\ UNCHANGED <<lag, ticks>>
  BY <1>1 DEF entry, Examine
<1>4. ASSUME NEW t \in Live', NEW j \in Active, j = made[t].id.index
      PROVE  Remaining(j)' = Remaining(j)
  <2>1. t \in Live /\ entries[j].timer = t
    BY <1>4, LiveEntry
  <2>2. j # i /\ j \in DOMAIN entries
    BY <2>1, <1>3, <1>4 DEF Active
  <2>3. entries'[j] = entries[j] /\ j \in Active'
    BY <2>2, <1>2 DEF Active
  <2>. QED  BY <2>2, <2>3, <1>1, <1>2, CountExamine
<1>5. \A t \in Live' : Waited(t)' = Waited(t)
  BY <1>3, WaitedSame
<1>. QED  BY <1>4, <1>5, ElapsedKept

LEMMA ElapsedExpire ==
  ASSUME Inv, Inv', Right, Elapsed, Expire
  PROVE  Elapsed'
<1>1. /\ Examine /\ Release /\ UNCHANGED <<slots, dropped>>
      /\ fired' = fired \union {entry.timer} /\ Forget(entry.timer)
  BY DEF Expire, Examine
<1>2. entry.timer \in Made
  BY <1>1, HandleSeen, Domains DEF Inv, Numbered, Examine, entry
<1>3. Made' = Made /\ \A t \in Made : t # entry.timer => made'[t] = made[t]
  BY <1>1, <1>2, ForgetDoes, MadeAnew DEF Inv
<1>4. Live' \subseteq Live /\ entry.timer \notin Live' /\ Live' \subseteq Made
  BY <1>1, <1>3 DEF Live
<1>. QED  BY <1>1, <1>3, <1>4, ElapsedRelease

LEMMA ElapsedDiscard ==
  ASSUME Inv, Inv', Right, Elapsed, Discard
  PROVE  Elapsed'
<1>1. /\ Examine /\ entry.cancelled /\ Release
      /\ UNCHANGED <<slots, made, fired, dropped>>
  BY HandleSeen DEF Discard, Examine
<1>2. entry.timer \in dropped
  BY <1>1, HandleSeen DEF Right, CancelsItsOwn, Examine, entry
<1>3. Live' = Live /\ entry.timer \notin Live'
  BY <1>1, <1>2 DEF Live, Made
<1>. QED  BY <1>1, <1>3, ElapsedRelease

LEMMA ElapsedKeep ==
  ASSUME Inv, Inv', Right, Elapsed, KeepCancelled \/ KeepRound
  PROVE  Elapsed'
<1>1. /\ Examine /\ UNCHANGED <<made, fired, dropped, lag, ticks>>
      /\ PutBack
  BY DEF KeepCancelled, KeepRound, Examine
<1>2. Live' = Live
  BY <1>1 DEF Live, Made
<1>3. \A t \in Live' : Waited(t)' = Waited(t)
  BY <1>1, WaitedSame
<1>4. CASE KeepCancelled
  <2>1. PICK i : i = handle.index
    OBVIOUS
  <2>2. /\ UNCHANGED entries /\ lists' = Kept /\ handles # <<>> /\ entry.cancelled
        /\ entry = entries[i]
    BY <1>1, <1>4, <2>1, PutBackDoes DEF KeepCancelled, Examine, entry
  <2>3. entries[i].timer \in dropped
    BY <2>1, <2>2, HandleSeen DEF Right, CancelsItsOwn
  <2>4. ASSUME NEW t \in Live', NEW j \in Active, j = made[t].id.index
        PROVE  Remaining(j)' = Remaining(j)
    <3>1. entries[j].timer = t /\ t \notin dropped
      BY <1>2, <2>4, LiveEntry DEF Live
    <3>2. j # i /\ j \in Active' /\ entries'[j] = entries[j]
      BY <3>1, <2>2, <2>3 DEF Active
    <3>. QED  BY <3>2, <1>1, <2>1, <2>2, CountExamine
  <2>. QED  BY <1>1, <1>2, <1>3, <2>4, ElapsedKept
<1>5. CASE KeepRound
  <2>1. \A j \in Active : Remaining(j)' = Remaining(j)
    BY <1>5, CountRound
  <2>. QED  BY <1>1, <1>2, <1>3, <2>1, ElapsedKept
<1>. QED  BY <1>4, <1>5

LEMMA TimeRemains ==
  ASSUME Inv, Inv', Tick \/ CallbackReturns \/ Pass \/ UNCHANGED vars
  PROVE  /\ UNCHANGED <<current_slot, slots, entries, handles, fired, dropped>>
         /\ \A j \in Active : Remaining(j)' = Remaining(j)
<1>1. UNCHANGED <<current_slot, slots, entries, handles, fired, dropped>>
  BY DEF Tick, CallbackReturns, Pass, vars, wheel, visit, history
<1>2. Active' = Active /\ \A j : Visited(j)' <=> Visited(j)
  BY <1>1 DEF Active, Visited, In, lists
<1>. QED  BY <1>1, <1>2, RemainingSame

\* The time that passes ages the timers, and lags the wheel.
LEMMA ElapsedTime ==
  ASSUME Inv, Inv', Right, Elapsed, Tick \/ CallbackReturns \/ Pass \/ UNCHANGED vars
  PROVE  Elapsed'
<1>1. UNCHANGED <<current_slot, slots, entries, handles, fired, dropped>>
  BY TimeRemains
<1>2. \A j \in Active : Remaining(j)' = Remaining(j)
  BY TimeRemains
<1>3. CASE Tick
  <2>1. /\ made' = made /\ ticks = 0 /\ ticks' = lag \div TICK_MS /\ lag' = lag % TICK_MS
    BY <1>3 DEF Tick, Idle, history
  <2>2. lag \in Nat /\ TICK_MS \in Nat \ {0}
    BY WheelAssumption DEF Inv, TypeOK
  <2>3. lag' + ticks' * TICK_MS = lag + ticks * TICK_MS
    BY <2>1, <2>2
  <2>4. Live' = Live
    BY <1>1, <2>1 DEF Live, Made
  <2>5. \A t \in Live' : Waited(t)' = Waited(t)
    BY <2>1, <2>3 DEF Waited
  <2>. QED  BY <1>2, <2>1, <2>4, <2>5, ElapsedKept
<1>4. CASE Pass
  <2>1. /\ Made' = Made /\ lag' = lag + 1 /\ ticks' = ticks
        /\ \A t \in Live : /\ made'[t].id = made[t].id /\ made'[t].timeout = made[t].timeout
                           /\ made'[t].lag = made[t].lag /\ made'[t].age = made[t].age + 1
    BY <1>4, PassDoes, MadeAnew DEF Inv, Pass, visit, Live
  <2>2. Live' = Live /\ Live \subseteq Made
    BY <1>1, <2>1 DEF Live
  <2>3. ASSUME NEW t \in Live PROVE Waited(t)' = Waited(t)
    <3>. DEFINE p == ticks * TICK_MS
    <3>1. /\ made[t].age \in Nat /\ made[t].lag \in Nat /\ lag \in Nat /\ p \in Nat
      BY <2>2, WaitedInt DEF Inv
    <3>2. Waited(t)' = (made[t].age + 1) + made[t].lag - ((lag + 1) + p)
      BY <2>1 DEF Waited
    <3>3. Waited(t) = made[t].age + made[t].lag - (lag + p)
      BY DEF Waited
    <3>. HIDE DEF p
    <3>. QED  BY <3>1, <3>2, <3>3
  <2>. QED  BY <1>2, <2>1, <2>2, <2>3, ElapsedKept
<1>5. CASE CallbackReturns \/ UNCHANGED vars
  <2>1. UNCHANGED <<made, lag, ticks>>
    BY <1>5 DEF CallbackReturns, vars, visit, history
  <2>2. Live' = Live
    BY <1>1, <2>1 DEF Live, Made
  <2>. QED  BY <1>2, <2>1, <2>2, ElapsedKept, WaitedSame
<1>. QED  BY <1>3, <1>4, <1>5

LEMMA ElapsedInit == Init => Elapsed
BY DEF Init, Elapsed, Live, Made

LEMMA ElapsedStep == Inv /\ Inv' /\ Right /\ Right' /\ Elapsed /\ [Next]_vars => Elapsed'
<1>. SUFFICES ASSUME Inv, Inv', Right, Right', Elapsed, [Next]_vars PROVE Elapsed'
  OBVIOUS
<1>1. ASSUME NEW timeout \in Timeouts, Add(timeout) PROVE Elapsed'
  BY <1>1, ElapsedAdd
<1>2. ASSUME NEW t \in Made, Cancel(t) PROVE Elapsed'
  BY <1>2, ElapsedCancel
<1>3. CASE Advance
  BY <1>3, ElapsedAdvance
<1>4. CASE Discard
  BY <1>4, ElapsedDiscard
<1>5. CASE KeepCancelled \/ KeepRound
  BY <1>5, ElapsedKeep
<1>6. CASE Expire
  BY <1>6, ElapsedExpire
<1>7. CASE Tick \/ CallbackReturns \/ Pass \/ UNCHANGED vars
  BY <1>7, ElapsedTime
<1>. QED  BY <1>1, <1>2, <1>3, <1>4, <1>5, <1>6, <1>7 DEF Next, AdvanceSlot

Timely == Inv /\ Right /\ Elapsed

LEMMA TimelyAlways ==
  ASSUME IdsLast
  PROVE  Spec => []Timely
<1>1. Init => Timely
  BY InvInit, RightInit, ElapsedInit DEF Timely
<1>2. Timely /\ [Next]_vars => Timely'
  BY InvStep, RightStep, ElapsedStep DEF Timely
<1>. QED  BY <1>1, <1>2, PTL DEF Spec

LEMMA NotLateWhenTimely == Timely => NotLate
<1>. SUFFICES ASSUME Timely, NEW t \in Live
              PROVE  Waited(t) <= Countdown(made[t].timeout) * TICK_MS
  BY DEF NotLate, Waited
<1>. DEFINE c == Countdown(made[t].timeout)
            r == Remaining(made[t].id.index)
<1>1. t \in Made /\ r \in Nat
  BY LiveEntry DEF Timely
<1>2. c \in Nat /\ TICK_MS \in Nat
  BY <1>1, WaitedInt DEF Timely, Inv
<1>3. Waited(t) = (c - r) * TICK_MS
  BY DEF Timely, Elapsed
<1>. HIDE DEF c, r
<1>4. (c - r) * TICK_MS = c * TICK_MS - r * TICK_MS /\ r * TICK_MS \in Nat /\ c * TICK_MS \in Nat
  BY <1>1, <1>2
<1>5. Waited(t) <= c * TICK_MS
  BY <1>3, <1>4
<1>. QED  BY <1>5 DEF c

\* The wheel's parts agree with one another, and no timer is kept waiting beyond
\* its countdown: what has passed and what remains always make up the countdown.
THEOREM WheelCorrect ==
  ASSUME IdsLast
  PROVE  Spec => []WheelRight
<1>1. Timely => WheelRight
  BY HeldWhenInv, NotLateWhenTimely DEF Timely, WheelRight, Inv
<1>. QED  BY <1>1, TimelyAlways, PTL

-----------------------------------------------------------------------------
(* The wheel is a timer service. *)

\* What remains to the timers that are set.
Rem == [t \in Live |-> Remaining(made[t].id.index)]

LEMMA LiveEntriesAre ==
  ASSUME Timely
  PROVE  /\ \A i \in LiveEntries : entries[i].timer \in Live /\ made[entries[i].timer].id.index = i
         /\ \A t \in Live : /\ made[t].id.index \in LiveEntries
                            /\ entries[made[t].id.index].timer = t
<1>1. ASSUME NEW i \in LiveEntries
      PROVE  entries[i].timer \in Live /\ made[entries[i].timer].id.index = i
  <2>1. i \in Active /\ ~entries[i].cancelled /\ i \in DOMAIN entries
    BY DEF LiveEntries, Active
  <2>2. /\ entries[i].timer \in Made /\ entries[i].timer \notin fired
        /\ entries[i].timer \notin dropped
    BY <2>1 DEF Timely, Inv, Numbered, Right, LivesHeld, CancelsItsOwn
  <2>. QED  BY <2>1, <2>2, IdNames DEF Live, Timely
<1>2. ASSUME NEW t \in Live
      PROVE  made[t].id.index \in LiveEntries /\ entries[made[t].id.index].timer = t
  <2>1. made[t].id.index \in Active /\ entries[made[t].id.index].timer = t
    BY LiveEntry DEF Timely
  <2>2. ~entries[made[t].id.index].cancelled
    BY <2>1 DEF Live, Timely, Right, CancelsItsOwn
  <2>. QED  BY <2>1, <2>2 DEF LiveEntries
<1>. QED  BY <1>1, <1>2

\* They are what the service is told.
RemServed ==
  Rem = [t \in {entries[i].timer : i \in LiveEntries} |-> Remaining(EntryOf(t))]

LEMMA RemIs == Timely => RemServed
<1>. SUFFICES ASSUME Timely PROVE RemServed
  OBVIOUS
<1>1. {entries[i].timer : i \in LiveEntries} = Live
  BY LiveEntriesAre
<1>2. ASSUME NEW t \in Live PROVE EntryOf(t) = made[t].id.index
  <2>1. \A i \in LiveEntries : entries[i].timer = t => i = made[t].id.index
    BY LiveEntriesAre
  <2>2. made[t].id.index \in LiveEntries /\ entries[made[t].id.index].timer = t
    BY LiveEntriesAre
  <2>. QED  BY <2>1, <2>2 DEF EntryOf
<1>. QED  BY <1>1, <1>2 DEF Rem, RemServed

LEMMA RemIsNext == Timely' => RemServed'
BY RemIs, PTL

RemGood == \A t \in Live : Rem[t] \in Nat /\ t \in Made

LEMMA RemNat == Timely => RemGood
BY LiveEntry DEF Rem, RemGood, Timely

LEMMA RemNatNext == Timely' => RemGood'
BY RemNat, PTL

LEMMA Cancelling ==
  ASSUME NEW x \in Int, NEW y \in Int, NEW k \in Nat \ {0}, x * k = y * k
  PROVE  x = y
<1>1. (x - y) * k = 0
  OBVIOUS
<1>2. CASE x - y >= 1
  <2>1. (x - y) * k >= k
    BY <1>2
  <2>. QED  BY <2>1, <1>1
<1>3. CASE x - y <= -1
  <2>1. (x - y) * k <= -k
    BY <1>3
  <2>. QED  BY <2>1, <1>1
<1>. QED  BY <1>2, <1>3

\* As waiting and remaining make up the countdown, a timer that has waited no
\* longer has as much left.
LEMMA RemSame ==
  ASSUME Timely, Timely', NEW t \in Live, t \in Live',
         made'[t].timeout = made[t].timeout, Waited(t)' = Waited(t)
  PROVE  Rem'[t] = Rem[t]
<1>. DEFINE c == Countdown(made[t].timeout)
<1>1. Waited(t) = (c - Rem[t]) * TICK_MS
  BY DEF Timely, Elapsed, Rem
<1>2. Waited(t)' = (c - Rem'[t]) * TICK_MS
  BY DEF Timely, Elapsed, Rem
<1>3. Rem[t] \in Nat /\ t \in Made
  BY RemNat DEF RemGood
<1>5. Rem'[t] \in Nat
  BY RemNatNext DEF RemGood
<1>6. c \in Nat /\ TICK_MS \in Nat \ {0}
  BY <1>3, WaitedInt DEF Timely, Inv
<1>. DEFINE r == Rem[t]
<1>7. PICK s : s = Rem'[t]
  OBVIOUS
<1>8. (c - r) * TICK_MS = (c - s) * TICK_MS
  BY <1>1, <1>2, <1>7
<1>9. c - r \in Int /\ c - s \in Int /\ r \in Nat /\ s \in Nat
  BY <1>3, <1>5, <1>6, <1>7
<1>. HIDE DEF c, r
<1>10. c - r = c - s
  BY <1>6, <1>8, <1>9, Cancelling
<1>11. r = s
  BY <1>6, <1>9, <1>10
<1>. QED  BY <1>7, <1>11 DEF r

\* When the timers of the service stay, and have as much left, nothing happens to it.
LEMMA RemStays ==
  ASSUME Timely, Timely', Live' = Live, UNCHANGED <<fired, dropped>>,
         \A t \in Live : Rem'[t] = Rem[t]
  PROVE  UNCHANGED Service!vars
<1>1. Rem' = Rem
  BY DEF Rem
<1>. QED  BY <1>1, RemIs, RemIsNext DEF RemServed, Service!vars

\* The others stay as they are when one goes.
LEMMA RemWithout ==
  ASSUME Timely, Timely', NEW u \in Live, Live' = Live \ {u},
         UNCHANGED <<lag, ticks>>, \A t \in Made : t # u => made'[t] = made[t]
  PROVE  Rem' = [t \in Live \ {u} |-> Rem[t]]
<1>1. ASSUME NEW t \in Live'
      PROVE  Rem'[t] = Rem[t]
  <2>1. t \in Live /\ t \in Made /\ t # u
    BY DEF Live
  <2>. QED  BY <2>1, RemSame, WaitedSame
<1>2. Rem' = [t \in Live' |-> Rem'[t]]
  BY DEF Rem
<1>. QED  BY <1>1, <1>2

LEMMA ServesAdd ==
  ASSUME Timely, Timely', NEW timeout \in Timeouts, Add(timeout)
  PROVE  \E t \in 1 .. MaxAdds : Service!Add(t)
<1>1. PICK n : n = Len(made) + 1
  OBVIOUS
<1>2. /\ n \in 1 .. MaxAdds /\ n \notin Made
      /\ Live' = Live \union {n}
      /\ \A t \in Made : made'[t] = made[t]
      /\ \E i \in Nat : made'[n].id.index = i /\ Remaining(i)' = Countdown(timeout)
  BY <1>1, AddLives DEF Timely
<1>3. UNCHANGED <<lag, ticks, fired, dropped>>
  BY DEF Add, visit
<1>4. n \notin Live /\ n \notin fired /\ n \notin dropped
  BY <1>2 DEF Timely, Inv, TypeOK, Live
<1>5. \A t \in Live : Rem'[t] = Rem[t]
  <2>. TAKE t \in Live
  <2>1. t \in Made /\ t \in Live'
    BY <1>2 DEF Live
  <2>. QED  BY <2>1, <1>2, <1>3, RemSame, WaitedSame
<1>6. Rem'[n] = Countdown(timeout)
  BY <1>2 DEF Rem
<1>7. PICK c \in {Countdown(x) : x \in Timeouts} : c = Countdown(timeout)
  OBVIOUS
<1>8. DOMAIN Rem = Live
  BY DEF Rem
<1>9. Rem' = [u \in DOMAIN Rem \union {n} |-> IF u = n THEN c ELSE Rem[u]]
  <2>1. Rem' = [u \in Live' |-> Rem'[u]]
    BY DEF Rem
  <2>. QED  BY <2>1, <1>2, <1>4, <1>5, <1>6, <1>7, <1>8
<1>10. Service!Add(n)
  <2>. DEFINE set == [t \in {entries[i].timer : i \in LiveEntries} |-> Remaining(EntryOf(t))]
  <2>1. Rem = set
    BY RemIs DEF RemServed
  <2>2. Rem' = set'
    BY RemIsNext DEF RemServed
  <2>. HIDE DEF set
  <2>3. /\ n \notin DOMAIN set \union fired \union dropped
        /\ \E k \in {Countdown(x) : x \in Timeouts} :
             set' = [u \in DOMAIN set \union {n} |-> IF u = n THEN k ELSE set[u]]
        /\ UNCHANGED <<fired, dropped>>
    BY <1>3, <1>4, <1>7, <1>8, <1>9, <2>1, <2>2
  <2>. QED  BY <2>3 DEF set, Service!Add, Service!Set
<1>. QED  BY <1>2, <1>10

LEMMA ServesCancel ==
  ASSUME Timely, Timely', NEW t \in Made, Cancel(t)
  PROVE  Service!Cancel(t) \/ UNCHANGED Service!vars
<1>1. /\ dropped' = dropped \union {t} /\ Forget(t) /\ Current(made[t].id)
      /\ UNCHANGED <<lag, ticks, fired>>
  BY DEF Cancel, visit
<1>2. Made' = Made /\ \A u \in Made : u # t => made'[u] = made[u]
  BY <1>1, ForgetDoes, MadeAnew DEF Timely, Inv
<1>3. Live' = Live \ {t}
  BY <1>1, <1>2 DEF Live
<1>4. CASE t \in Live
  <2>1. Rem' = [u \in Live \ {t} |-> Rem[u]]
    BY <1>1, <1>2, <1>3, <1>4, RemWithout
  <2>2. DOMAIN Rem = Live
    BY DEF Rem
  <2>3. Service!Cancel(t)
    BY <1>1, <1>4, <2>1, <2>2, RemIs, RemIsNext
       DEF RemServed, Service!Cancel, Service!Set, Service!Without
  <2>. QED  BY <2>3
<1>5. CASE t \notin Live
  <2>1. made[t].id.index \in Active /\ entries[made[t].id.index].timer = t
    BY <1>1, IdGood DEF Timely
  <2>2. t \notin fired
    BY <2>1 DEF Timely, Right, LivesHeld
  <2>3. t \in dropped
    BY <1>5, <2>2 DEF Live
  <2>4. Live' = Live /\ UNCHANGED <<fired, dropped>>
    BY <1>1, <1>3, <1>5, <2>3
  <2>5. ASSUME NEW u \in Live PROVE Rem'[u] = Rem[u]
    <3>1. u \in Made /\ u # t /\ u \in Live'
      BY <1>5, <2>4 DEF Live
    <3>. QED  BY <3>1, <1>1, <1>2, RemSame, WaitedSame
  <2>. QED  BY <2>4, <2>5, RemStays
<1>. QED  BY <1>4, <1>5

\* The timer a visit finds due is set, and nothing remains to it.
LEMMA DueIs ==
  ASSUME Timely, Expire
  PROVE  /\ entry.timer \in Live
         /\ Rem[entry.timer] = 0
<1>1. Examine /\ handles # <<>> /\ ~entry.cancelled /\ entry.remaining_rounds = 0
  BY DEF Expire, Examine
<1>. DEFINE i == handle.index
<1>2. /\ handle \in Handle /\ i \in Active /\ lists[-1] = handles /\ In(lists, -1, handle)
      /\ entry = entries[i]
  BY <1>1, HandleSeen DEF Timely, entry
<1>3. i \in LiveEntries
  BY <1>1, <1>2 DEF LiveEntries
<1>4. entries[i].timer \in Live /\ made[entries[i].timer].id.index = i
  BY <1>3, LiveEntriesAre
<1>5. Visited(i)
  BY <1>2 DEF Visited
<1>. HIDE DEF i
<1>6. Remaining(i) = entries[i].remaining_rounds * WHEEL_SIZE + SlotsAhead(i)
      /\ SlotsAhead(i) = 0
  BY <1>2, <1>5, RemainingIs DEF Remainders, SlotsAhead, Timely
<1>7. Remaining(i) = 0
  <2>1. entries[i].remaining_rounds = 0
    BY <1>1, <1>2
  <2>2. WHEEL_SIZE \in Nat
    BY WheelAssumption
  <2>3. Remaining(i) = 0 * WHEEL_SIZE + 0
    BY <2>1, <1>6
  <2>. QED  BY <2>2, <2>3
<1>. QED  BY <1>2, <1>4, <1>7 DEF Rem

LEMMA ServesExpire ==
  ASSUME Timely, Timely', Expire
  PROVE  \E t \in 1 .. MaxAdds : Service!Fire(t)
<1>1. PICK t : t = entry.timer
  OBVIOUS
<1>2. t \in Live /\ Rem[t] = 0 /\ t \in Made
  BY <1>1, DueIs DEF Live
<1>3. /\ fired' = fired \union {t} /\ Forget(t) /\ UNCHANGED <<lag, ticks, dropped>>
  BY <1>1 DEF Expire, Examine
<1>4. Made' = Made /\ \A u \in Made : u # t => made'[u] = made[u]
  BY <1>2, <1>3, ForgetDoes, MadeAnew DEF Timely, Inv
<1>5. Live' = Live \ {t}
  BY <1>3, <1>4 DEF Live
<1>6. Rem' = [u \in Live \ {t} |-> Rem[u]] /\ DOMAIN Rem = Live
  BY <1>2, <1>3, <1>4, <1>5, RemWithout DEF Rem
<1>7. Service!Fire(t)
  BY <1>2, <1>3, <1>6, RemIs, RemIsNext
     DEF RemServed, Service!Fire, Service!Set, Service!Without
<1>8. t \in 1 .. MaxAdds
  BY <1>2, Domains, WheelAssumption DEF Timely, Inv, Numbered
<1>. QED  BY <1>7, <1>8

LEMMA ServesAdvance ==
  ASSUME Timely, Timely', Advance
  PROVE  Service!Tick
<1>1. UNCHANGED <<made, fired, dropped>>
  BY DEF Advance, history
<1>2. Live' = Live /\ DOMAIN Rem = Live
  BY <1>1 DEF Live, Made, Rem
<1>3. ASSUME NEW t \in Live
      PROVE  Rem[t] > 0 /\ Rem'[t] = Rem[t] - 1
  <2>1. PICK i \in Active : i = made[t].id.index
    BY LiveEntry DEF Timely
  <2>2. Remaining(i) > 0 /\ Remaining(i)' = Remaining(i) - 1
    BY CountAdvance DEF Timely
  <2>3. Rem[t] = Remaining(i) /\ Rem'[t] = Remaining(i)'
    BY <2>1, <1>1, <1>2 DEF Rem
  <2>. QED  BY <2>2, <2>3
<1>4. Rem' = [t \in Live |-> Rem[t] - 1]
  <2>1. Rem' = [t \in Live' |-> Rem'[t]]
    BY DEF Rem
  <2>. QED  BY <2>1, <1>2, <1>3
<1>. QED  BY <1>1, <1>2, <1>3, <1>4, RemIs, RemIsNext
     DEF RemServed, Service!Tick, Service!Set

LEMMA ServesOthers ==
  ASSUME Timely, Timely',
         \/ Discard \/ KeepCancelled \/ KeepRound
         \/ Tick \/ CallbackReturns \/ Pass \/ UNCHANGED vars
  PROVE  UNCHANGED Service!vars
<1>1. CASE Discard \/ KeepCancelled \/ KeepRound
  <2>1. UNCHANGED <<lag, ticks, made, fired, dropped>>
    BY <1>1 DEF Discard, KeepCancelled, KeepRound, Examine
  <2>2. Live' = Live
    BY <2>1 DEF Live, Made
  <2>3. \A t \in Live : Rem'[t] = Rem[t]
    BY <2>1, <2>2, RemSame, WaitedSame
  <2>. QED  BY <2>1, <2>2, <2>3, RemStays
<1>2. CASE Tick \/ CallbackReturns \/ Pass \/ UNCHANGED vars
  <2>1. UNCHANGED <<fired, dropped>> /\ \A j \in Active : Remaining(j)' = Remaining(j)
    BY <1>2, TimeRemains DEF Timely
  <2>2. Made' = Made /\ \A t \in Made : made'[t].id = made[t].id
    <3>1. CASE Pass
      BY <3>1, PassDoes, MadeAnew DEF Timely, Inv
    <3>2. CASE ~Pass
      BY <1>2, <3>2 DEF Tick, CallbackReturns, vars, history, Made
    <3>. QED  BY <3>1, <3>2
  <2>3. Live' = Live /\ Live \subseteq Made
    BY <2>1, <2>2 DEF Live
  <2>4. ASSUME NEW t \in Live PROVE Rem'[t] = Rem[t]
    <3>1. PICK i \in Active : i = made[t].id.index
      BY LiveEntry DEF Timely
    <3>. QED  BY <3>1, <2>1, <2>2, <2>3 DEF Rem
  <2>. QED  BY <2>1, <2>3, <2>4, RemStays
<1>. QED  BY <1>1, <1>2

LEMMA ServesInit == Init => Service!Init
<1>. SUFFICES ASSUME Init PROVE Service!Init
  OBVIOUS
<1>1. LiveEntries = {} /\ fired = {} /\ dropped = {}
  BY DEF Init, LiveEntries, Active
<1>. QED  BY <1>1 DEF Service!Init

LEMMA ServesStep == Timely /\ Timely' /\ [Next]_vars => [Service!Next]_(Service!vars)
<1>. SUFFICES ASSUME Timely, Timely', [Next]_vars PROVE Service!Next \/ UNCHANGED Service!vars
  OBVIOUS
<1>1. ASSUME NEW timeout \in Timeouts, Add(timeout) PROVE Service!Next
  BY <1>1, ServesAdd DEF Service!Next
<1>2. ASSUME NEW t \in Made, Cancel(t) PROVE Service!Next \/ UNCHANGED Service!vars
  <2>1. t \in 1 .. MaxAdds
    BY Domains, WheelAssumption DEF Timely, Inv, Numbered
  <2>. QED  BY <1>2, <2>1, ServesCancel DEF Service!Next
<1>3. CASE Expire
  BY <1>3, ServesExpire DEF Service!Next
<1>4. CASE Advance
  BY <1>4, ServesAdvance DEF Service!Next
<1>5. CASE \/ Discard \/ KeepCancelled \/ KeepRound
           \/ Tick \/ CallbackReturns \/ Pass \/ UNCHANGED vars
  BY <1>5, ServesOthers
<1>. QED  BY <1>1, <1>2, <1>3, <1>4, <1>5 DEF Next, AdvanceSlot

LEMMA FiresInTime ==
  ASSUME Timely, [Next]_vars
  PROVE  \A t \in fired' \ fired : made[t].age + made[t].lag >= made[t].timeout
<1>1. CASE Expire
  <2>1. PICK t : t = entry.timer
    OBVIOUS
  <2>2. t \in Live /\ Rem[t] = 0 /\ fired' = fired \union {t}
    BY <1>1, <2>1, DueIs DEF Expire
  <2>. DEFINE c == Countdown(made[t].timeout)
              p == ticks * TICK_MS
  <2>3. /\ t \in Made /\ made[t].age \in Nat /\ made[t].lag \in Nat /\ lag \in Nat
        /\ p \in Nat /\ c \in Nat /\ TICK_MS \in Nat /\ made[t].timeout \in Nat
    BY <2>2, WaitedInt DEF Timely, Inv, Live
  <2>4. Waited(t) = (c - 0) * TICK_MS
    BY <2>2 DEF Timely, Elapsed, Rem
  <2>5. made[t].timeout <= c * TICK_MS
    BY <2>3, CountdownNat
  <2>6. Waited(t) = made[t].age + made[t].lag - (lag + p)
    BY DEF Waited
  <2>. HIDE DEF c, p
  <2>7. c * TICK_MS \in Nat /\ (c - 0) * TICK_MS = c * TICK_MS
    BY <2>3
  <2>. DEFINE w == c * TICK_MS
  <2>. HIDE DEF w
  <2>8. Waited(t) = w /\ w \in Nat /\ made[t].timeout <= w
    BY <2>4, <2>5, <2>7 DEF w
  <2>9. made[t].age + made[t].lag >= made[t].timeout
    BY <2>3, <2>6, <2>8
  <2>. QED  BY <2>2, <2>9
<1>2. CASE ~Expire
  <2>1. fired' = fired
    BY <1>2 DEF Next, Add, Cancel, Tick, AdvanceSlot, Advance, Discard, KeepCancelled,
               KeepRound, CallbackReturns, Pass, vars, history
  <2>. QED  BY <2>1
<1>. QED  BY <1>1, <1>2

\* The wheel counts its timers down as a timer service does: a slot is advanced
\* only when no timer is due, and takes one tick off each; a timer fires when
\* nothing remains, once, unless it is cancelled.  And by the clock none fires
\* earlier than its timeout less the time by which the wheel lagged when it was
\* added (wheel_timer.hpp:48).
THEOREM TimeKept ==
  ASSUME IdsLast
  PROVE  Spec => KeepsTime
<1>1. Init => Service!Init
  BY ServesInit
<1>2. Timely /\ Timely' /\ [Next]_vars => [Service!Next]_(Service!vars)
  BY ServesStep
<1>3. Timely /\ [Next]_vars =>
        [\A t \in fired' \ fired : made[t].age + made[t].lag >= made[t].timeout]_vars
  BY FiresInTime
<1>4. Spec => []Timely
  BY TimelyAlways
<1>5. Spec => Service!Spec
  BY <1>1, <1>2, <1>4, PTL DEF Spec, Service!Spec
<1>6. Spec => NotEarly
  BY <1>3, <1>4, PTL DEF Spec, NotEarly
<1>. QED  BY <1>5, <1>6, PTL DEF KeepsTime, ImplementsCountdown

-----------------------------------------------------------------------------
(* How long the reactor may sleep. *)

LEMMA MinOf ==
  ASSUME NEW a \in Int, NEW b \in Int
  PROVE  Min({a, b}) = IF a <= b THEN a ELSE b
<1>. DEFINE m == IF a <= b THEN a ELSE b
<1>1. m \in {a, b} /\ \A y \in {a, b} : m <= y
  OBVIOUS
<1>2. \A x \in {a, b} : (\A y \in {a, b} : x <= y) => x = m
  OBVIOUS
<1>. HIDE DEF m
<1>3. Min({a, b}) = m
  BY <1>1, <1>2 DEF Min
<1>. QED  BY <1>3 DEF m

LEMMA LeastOf ==
  ASSUME NEW S \in SUBSET Nat, S # {}
  PROVE  Min(S) \in S /\ \A y \in S : Min(S) <= y
<1>. DEFINE R == OpToRel(<, Nat)
<1>1. \A x, y \in Nat : x < y => <<x, y>> \in R
  BY DEF OpToRel
<1>2. IsWellFoundedOn(R, Nat)
  BY NatLessThanWellFounded
<1>. HIDE DEF R
<1>3. PICK x \in S : \A y \in S : ~(<<y, x>> \in R)
  BY <1>2, WFMin
<1>4. ASSUME NEW y \in S PROVE x <= y
  <2>1. x \in Nat /\ y \in Nat /\ ~(y < x)
    BY <1>1, <1>3, <1>4
  <2>. QED  BY <2>1
<1>. QED  BY <1>4 DEF Min

LEMMA OffsetIs ==
  ASSUME NEW s \in Slots, NEW c \in Slots
  PROVE  /\ (s - c) % WHEEL_SIZE \in Nat
         /\ (s - c) % WHEEL_SIZE <= IF s > c THEN s - c ELSE s - c + WHEEL_SIZE
<1>1. /\ WHEEL_SIZE \in Nat \ {0} /\ s - c \in Int
      /\ s \in 0 .. WHEEL_SIZE - 1 /\ c \in 0 .. WHEEL_SIZE - 1
  BY WheelAssumption DEF Slots
<1>2. CASE s >= c
  <2>. DEFINE x == s - c
  <2>1. x \in Slots /\ x \in Int /\ x = WHEEL_SIZE * 0 + x
    BY <1>1, <1>2 DEF Slots
  <2>. HIDE DEF x
  <2>2. x % WHEEL_SIZE = x
    BY <2>1, ModIs
  <2>3. x = s - c
    BY DEF x
  <2>. QED  BY <2>2, <2>3, <1>1, <1>2
<1>3. CASE s < c
  <2>1. s - c + WHEEL_SIZE \in Slots /\ s - c = WHEEL_SIZE * (-1) + (s - c + WHEEL_SIZE)
    BY <1>1, <1>3 DEF Slots
  <2>2. (s - c) % WHEEL_SIZE = s - c + WHEEL_SIZE
    BY <2>1, <1>1, ModIs
  <2>. QED  BY <2>2, <1>1, <1>3
<1>. QED  BY <1>1, <1>2, <1>3

\* What time_until_next_expiration() takes the least of.
Sleep(s, i) ==
  (TICK_MS - Min({TICK_MS, lag}))
    + TICK_MS * (((s - current_slot) % WHEEL_SIZE) + entries[i].remaining_rounds * WHEEL_SIZE)

LEMMA SleepBounded == Inv => SleepIsBounded
<1>. SUFFICES ASSUME Inv, Idle, NEW i \in LiveEntries
              PROVE  /\ TimeUntilNextExpiration # Never
                     /\ TimeUntilNextExpiration + Min({TICK_MS, lag}) <= (Remaining(i) + 1) * TICK_MS
  BY DEF SleepIsBounded
<1>. DEFINE S == {Sleep(c[1], c[2]) : c \in Candidates}
            low == Min({TICK_MS, lag})
<1>1. i \in Active /\ handles = <<>>
  BY DEF LiveEntries, Idle
<1>2. /\ TICK_MS \in Nat \ {0} /\ lag \in Nat /\ current_slot \in Slots /\ WHEEL_SIZE \in Nat \ {0}
      /\ slots \in [Slots -> Seq(Handle)]
  BY WheelAssumption DEF Inv, TypeOK
<1>3. low \in Nat /\ TICK_MS - low \in Nat
  BY <1>2, MinOf
<1>4. /\ lists[-1] = handles /\ -1 \in Lists
      /\ \A s \in Slots : s \in Lists /\ s # -1 /\ lists[s] = slots[s]
      /\ \A s \in Lists : s # -1 => s \in Slots
  BY WheelAssumption DEF lists, Lists, Slots
<1>5. pending_entries # 0
  <2>1. pending_entries = Cardinality(Active) /\ IsFiniteSet(Active)
    BY Domains DEF Inv, Counted
  <2>. QED  BY <1>1, <2>1, FS_EmptySet
<1>6. TimeUntilNextExpiration = Min(S)
  BY <1>5 DEF TimeUntilNextExpiration, Sleep
<1>7. ~Visited(i)
  BY <1>1, <1>4 DEF Visited, In
<1>8. PICK u \in Lists : \E h \in Handle : In(lists, u, h) /\ h.index = i
  BY <1>1, HandleSomewhere
<1>9. PICK h \in Handle : In(lists, u, h) /\ h.index = i
  BY <1>8
<1>10. u \in Slots /\ entries[i].slot_idx = u /\ Current(h) /\ lists[u] = slots[u]
  <2>1. u # -1
    BY <1>7, <1>9 DEF Visited
  <2>. QED  BY <2>1, <1>4, <1>9, HandleCurrent
<1>11. <<u, i>> \in Candidates
  <2>1. PICK k \in 1 .. Len(slots[u]) : slots[u][k] = h
    BY <1>9, <1>10 DEF In
  <2>2. Len(slots[u]) \in Nat /\ Len(slots[u]) <= Len(entries) /\ Len(entries) \in Nat
    BY <1>10, ListsShort, Domains DEF Inv
  <2>3. k \in 1 .. Len(entries) /\ k \in DOMAIN slots[u]
    <3>1. slots[u] \in Seq(Handle)
      BY <1>2, <1>10
    <3>. QED  BY <2>1, <2>2, <3>1
  <2>. DEFINE p == <<u, k>>
  <2>4. p \in Slots \X (1 .. Len(entries)) /\ p[1] = u /\ p[2] = k
    BY <1>10, <2>3
  <2>5. p[2] \in DOMAIN slots[p[1]] /\ Current(slots[p[1]][p[2]])
        /\ <<p[1], slots[p[1]][p[2]].index>> = <<u, i>>
    BY <1>9, <1>10, <2>1, <2>3, <2>4
  <2>. HIDE DEF p
  <2>. QED  BY <2>4, <2>5 DEF Candidates
<1>12. S \subseteq Nat
  <2>. SUFFICES ASSUME NEW c \in Candidates PROVE Sleep(c[1], c[2]) \in Nat
    OBVIOUS
  <2>1. PICK p \in Slots \X (1 .. Len(entries)) :
          /\ p[2] \in DOMAIN slots[p[1]]
          /\ c = <<p[1], slots[p[1]][p[2]].index>>
    BY DEF Candidates
  <2>2. p[1] \in Slots /\ c[1] = p[1] /\ c[2] = slots[p[1]][p[2]].index
    BY <2>1
  <2>3. In(lists, p[1], slots[p[1]][p[2]])
    <3>1. slots[p[1]] \in Seq(Handle) /\ lists[p[1]] = slots[p[1]]
      BY <1>2, <1>4, <2>2
    <3>. QED  BY <2>1, <3>1 DEF In
  <2>4. c[2] \in Active
    BY <1>4, <2>2, <2>3, HandleCurrent
  <2>5. entries[c[2]].remaining_rounds \in Nat
    BY <2>4, RemainingIs DEF Remainders
  <2>6. (c[1] - current_slot) % WHEEL_SIZE \in Nat
    BY <1>2, <2>2, OffsetIs
  <2>. DEFINE a == TICK_MS - low
              f == (c[1] - current_slot) % WHEEL_SIZE
              g == entries[c[2]].remaining_rounds
  <2>7. Sleep(c[1], c[2]) = a + TICK_MS * (f + g * WHEEL_SIZE)
    BY DEF Sleep
  <2>8. a \in Nat /\ f \in Nat /\ g \in Nat
    BY <1>3, <2>5, <2>6
  <2>. HIDE DEF a, f, g
  <2>9. g * WHEEL_SIZE \in Nat
    BY <1>2, <2>8
  <2>10. TICK_MS * (f + g * WHEEL_SIZE) \in Nat
    <3>. DEFINE q == f + g * WHEEL_SIZE
    <3>1. q \in Nat
      BY <2>8, <2>9
    <3>. HIDE DEF q
    <3>2. TICK_MS * q \in Nat
      BY <1>2, <3>1
    <3>. QED  BY <3>2 DEF q
  <2>11. a + TICK_MS * (f + g * WHEEL_SIZE) \in Nat
    BY <2>8, <2>10
  <2>. QED  BY <2>7, <2>11
<1>13. Sleep(u, i) \in S
  <2>1. <<u, i>>[1] = u /\ <<u, i>>[2] = i
    OBVIOUS
  <2>. QED  BY <1>11, <2>1
<1>. HIDE DEF S, low
<1>14. Min(S) \in Nat /\ Min(S) <= Sleep(u, i) /\ Sleep(u, i) \in Nat
  BY <1>12, <1>13, LeastOf
<1>15. Sleep(u, i) + low <= (Remaining(i) + 1) * TICK_MS
  <2>. DEFINE f == (u - current_slot) % WHEEL_SIZE
              p == entries[i].remaining_rounds * WHEEL_SIZE
              a == SlotsAhead(i)
  <2>1. /\ Remaining(i) = p + a /\ a \in 0 .. WHEEL_SIZE /\ entries[i].remaining_rounds \in Nat
    BY <1>1, RemainingIs DEF Remainders
  <2>2. p \in Nat
    BY <1>2, <2>1
  <2>3. f \in Nat /\ f <= a
    BY <1>2, <1>7, <1>10, OffsetIs DEF SlotsAhead
  <2>4. Sleep(u, i) = (TICK_MS - low) + TICK_MS * (f + p)
    BY DEF Sleep, low
  <2>. HIDE DEF f, p, a
  <2>5. a \in Nat
    BY <1>2, <2>1
  <2>6. TICK_MS * (f + p) <= TICK_MS * (a + p) /\ TICK_MS * (f + p) \in Nat
        /\ TICK_MS * (a + p) \in Nat
    <3>1. TICK_MS * (a + p) = TICK_MS * (f + p) + TICK_MS * (a - f)
      BY <1>2, <2>2, <2>3, <2>5
    <3>2. TICK_MS * (a - f) \in Nat /\ TICK_MS * (f + p) \in Nat
      BY <1>2, <2>2, <2>3, <2>5
    <3>. QED  BY <3>1, <3>2
  <2>7. (Remaining(i) + 1) * TICK_MS = TICK_MS * (a + p) + TICK_MS
    BY <1>2, <2>1, <2>2, <2>5
  <2>. QED  BY <1>2, <1>3, <2>4, <2>6, <2>7
<1>16. Min(S) # -1 /\ Min(S) + low <= (Remaining(i) + 1) * TICK_MS
  <2>1. (Remaining(i) + 1) * TICK_MS \in Nat
    BY <1>1, <1>2, RemainingIs DEF Remainders
  <2>. DEFINE w == (Remaining(i) + 1) * TICK_MS
  <2>. HIDE DEF w
  <2>2. w \in Nat /\ Sleep(u, i) + low <= w
    BY <2>1, <1>15 DEF w
  <2>3. Min(S) + low <= w
    BY <2>2, <1>3, <1>14
  <2>. QED  BY <2>3, <1>14 DEF w
<1>. QED  BY <1>6, <1>16 DEF Never, low

\* While a timer is set the reactor is told a time to sleep, and it is at most a
\* tick longer than what remains to any timer.
THEOREM SleepCorrect == Spec => []SleepIsBounded
BY InvInit, InvStep, SleepBounded, PTL DEF Spec
=============================================================================
