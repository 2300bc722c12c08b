--------------------------- MODULE LibraryProofs ---------------------------
(***************************************************************************)
(* The parts of the library keep what their callers rely on and implement  *)
(* what they promise, for any capacities, sizes, contents and routes, and  *)
(* the generator orders and names the types of any document.               *)
(***************************************************************************)
EXTENDS Library, FiniteSetTheorems, SequenceTheorems, TLAPS

-----------------------------------------------------------------------------
(* Numbers and finite sets. *)

\* A set of natural numbers has a least one.
LEMMA LeastNumber ==
  ASSUME NEW T \in SUBSET Nat, T # {}
  PROVE  \E x \in T : \A y \in T : x <= y
<1>. DEFINE Below == {0 .. n - 1 : n \in T}
            R == StrictSubsetOrdering(Nat)
            S == FiniteSubsetsOf(Nat)
<1>1. Below # {}
  OBVIOUS
<1>2. \A n \in T : 0 .. n - 1 \in S
  BY FS_Interval DEF FiniteSubsetsOf
<1>3. Below \subseteq S
  BY <1>2
<1>4. IsWellFoundedOn(R, S)
  BY FS_StrictSubsetOrderingWellFounded
<1>5. PICK X \in Below : \A Y \in Below : ~(<<Y, X>> \in R)
  <2>. HIDE DEF Below, R, S
  <2>. QED  BY <1>1, <1>3, <1>4, WFMin
<1>6. PICK x \in T : X = 0 .. x - 1
  OBVIOUS
<1>7. ASSUME NEW y \in T PROVE x <= y
  <2>1. CASE y < x
    <3>1. 0 .. y - 1 \in Below
      OBVIOUS
    <3>2. y \in 0 .. x - 1 /\ y \notin 0 .. y - 1 /\ 0 .. y - 1 \subseteq 0 .. x - 1
      BY <2>1
    <3>3. <<0 .. y - 1, X>> \in R
      BY <1>6, <3>2 DEF StrictSubsetOrdering
    <3>. QED  BY <1>5, <3>1, <3>3
  <2>. QED  BY <2>1
<1>. QED  BY <1>7

\* A power of two is above its exponent: a set has a subset for each element.
LEMMA PowerOfTwo ==
  ASSUME NEW n \in Nat
  PROVE  2 ^ n \in Nat /\ n <= 2 ^ n
<1>. DEFINE f == [i \in 1 .. n |-> {i}]
<1>1. IsFiniteSet(1 .. n) /\ Cardinality(1 .. n) = n
  BY FS_Interval
<1>2. IsFiniteSet(SUBSET (1 .. n)) /\ Cardinality(SUBSET (1 .. n)) = 2 ^ n
  BY <1>1, FS_SUBSET
<1>3. f \in Injection(1 .. n, SUBSET (1 .. n))
  BY DEF Injection, IsInjective
<1>4. Cardinality(1 .. n) <= Cardinality(SUBSET (1 .. n))
  BY <1>2, <1>3, FS_Injection
<1>. QED  BY <1>1, <1>2, <1>4, FS_CardinalityType

\* The parts count as these proofs do.
LEMMA SameCount ==
  \A S : /\ Io!Cardinality(S) = Cardinality(S)
         /\ Ring!Cardinality(S) = Cardinality(S)
         /\ Memory!Cardinality(S) = Cardinality(S)
         /\ Headers!Cardinality(S) = Cardinality(S)
         /\ Routes!Cardinality(S) = Cardinality(S)
         /\ Order!Cardinality(S) = Cardinality(S)
         /\ Naming!Cardinality(S) = Cardinality(S)
<1>1. \A S : Io!Cardinality(S) = Cardinality(S)
  BY DEF Io!Cardinality, Cardinality
<1>2. \A S : Ring!Cardinality(S) = Cardinality(S)
  BY DEF Ring!Cardinality, Cardinality
<1>3. \A S : Memory!Cardinality(S) = Cardinality(S)
  BY DEF Memory!Cardinality, Cardinality
<1>4. \A S : Headers!Cardinality(S) = Cardinality(S)
  BY DEF Headers!Cardinality, Cardinality
<1>5. \A S : Routes!Cardinality(S) = Cardinality(S)
  BY DEF Routes!Cardinality, Cardinality
<1>6. \A S : Order!Cardinality(S) = Cardinality(S)
  BY DEF Order!Cardinality, Cardinality
<1>7. \A S : Naming!Cardinality(S) = Cardinality(S)
  BY DEF Naming!Cardinality, Cardinality
<1>. QED  BY <1>1, <1>2, <1>3, <1>4, <1>5, <1>6, <1>7

\* Two sets without a common element count as much as both.
LEMMA ApartCount ==
  ASSUME NEW S, NEW T, IsFiniteSet(S), IsFiniteSet(T), S \intersect T = {}
  PROVE  IsFiniteSet(S \union T)
             /\ Cardinality(S \union T) = Cardinality(S) + Cardinality(T)
BY FS_Union, FS_EmptySet, FS_CardinalityType

\* The numbers from zero to below n are n.
LEMMA CountFromZero ==
  \A n, S : n \in Nat /\ S = 0 .. n - 1 => IsFiniteSet(S) /\ Cardinality(S) = n
<1>. TAKE n, S
<1>. HAVE n \in Nat /\ S = 0 .. n - 1
<1>. DEFINE j == n - 1
<1>1. j \in Int /\ j + 1 = n
  OBVIOUS
<1>. HIDE DEF j
<1>2. IsFiniteSet(0 .. j) /\ Cardinality(0 .. j) = IF 0 > j THEN 0 ELSE j - 0 + 1
  BY <1>1, FS_Interval
<1>3. S = 0 .. j
  BY DEF j
<1>. QED  BY <1>1, <1>2, <1>3

\* A row of bytes of a block has as many of them as its length.
LEMMA BytesOf ==
  \A b, i, j, S : i \in Int /\ j \in Int /\ i <= j + 1 /\ S = {b} \X (i .. j)
                   => IsFiniteSet(S) /\ Cardinality(S) = j - i + 1
<1>. TAKE b, i, j, S
<1>. HAVE i \in Int /\ j \in Int /\ i <= j + 1 /\ S = {b} \X (i .. j)
<1>. DEFINE I == i .. j
<1>1. IsFiniteSet({b}) /\ Cardinality({b}) = 1
  BY FS_Singleton
<1>2. IsFiniteSet(I) /\ Cardinality(I) = j - i + 1
  BY FS_Interval
<1>3. IsFiniteSet(S) /\ Cardinality(S) = Cardinality({b}) * Cardinality(I)
  BY <1>1, <1>2, FS_Product
<1>4. Cardinality(S) = 1 * (j - i + 1)
  <2>. HIDE DEF I
  <2>. QED  BY <1>1, <1>2, <1>3
<1>. QED  BY <1>3, <1>4

-----------------------------------------------------------------------------
(* The MPSC queue. *)

USE DEF Mpsc!None

LEMMA NodesAre == Mpsc!MpscAssumption => \A n : n \in Mpsc!Nodes <=> n \in Nat
    /\ n <= MaxNodes
BY DEF Mpsc!MpscAssumption, Mpsc!Nodes

-----------------------------------------------------------------------------
(* Where nodes are: those that the consumer has left are freed, every node *)
(* is linked to its successor or about to be by the one producer that got  *)
(* it from head_.                                                          *)

Linking(p) == mpsc_pc[p] = "link"

Labels ==
  /\ mpsc_pc[Consumer] \in {"idle", "uncount"}
  /\ \A p \in Producers : mpsc_pc[p] # "uncount"

Chain ==
  /\ mpsc_tail <= Mpsc!head
  /\ mpsc_freed = 0 .. mpsc_tail - 1
  /\ \A n \in Mpsc!Nodes : mpsc_next[n] = Mpsc!None \/ (mpsc_next[n] = n + 1
                               /\ n < Mpsc!head)
  /\ \A p \in Producers : Linking(p) =>
       mpsc_prev[p] < Mpsc!head /\ mpsc_tail <= mpsc_prev[p]
           /\ mpsc_next[mpsc_prev[p]] = Mpsc!None
  /\ \A p, q \in Producers : p # q /\ Linking(p) /\ Linking(q)
                                 => mpsc_prev[p] # mpsc_prev[q]

Limited == mpsc_maxSize < SizeRange

Linked == Mpsc!TypeOK /\ Limited /\ Labels /\ Chain

LEMMA LinkedInit == Mpsc!MpscAssumption /\ Mpsc!Init => Linked
<1>. SUFFICES ASSUME Mpsc!MpscAssumption, Mpsc!Init PROVE Linked
  OBVIOUS
<1>1. mpsc_data \in Seq(Producers \X Nat) /\ mpsc_taken \in Seq(Producers \X Nat)
          /\ Mpsc!head = 0
  BY EmptySeq DEF Mpsc!Init, Mpsc!head
<1>2. /\ mpsc_maxSize \in Nat /\ mpsc_next \in [Mpsc!Nodes -> Mpsc!Nodes]
             /\ mpsc_tail \in Mpsc!Nodes /\ mpsc_size \in Nat
      /\ mpsc_seen \in [Producers -> Nat] /\ mpsc_prev \in [Producers -> Mpsc!Nodes]
      /\ mpsc_accepted \in [Producers -> Nat]
  BY NodesAre DEF Mpsc!Init, Mpsc!MpscAssumption
<1>3. mpsc_pc \in [Producers \union {Consumer} -> Mpsc!PcLabels]
  BY DEF Mpsc!Init, Mpsc!PcLabels
<1>4. mpsc_unchecked \in BOOLEAN /\ mpsc_counts \subseteq Producers
          /\ mpsc_freed \subseteq Mpsc!Nodes
  BY DEF Mpsc!Init
<1>5. Mpsc!head \in Mpsc!Nodes
  BY <1>1, NodesAre DEF Mpsc!MpscAssumption
<1>6. Mpsc!TypeOK
  BY <1>1, <1>2, <1>3, <1>4, <1>5 DEF Mpsc!TypeOK
<1>7. Limited
  BY DEF Mpsc!Init, Limited, Mpsc!MpscAssumption
<1>. QED  BY <1>1, <1>6, <1>7, NodesAre DEF Mpsc!Init, Linked, Labels, Chain, Linking

\* A thread moves on to another label.
LEMMA PcStep ==
  ASSUME Linked, NEW t \in Producers \union {Consumer}, NEW l \in Mpsc!PcLabels,
         mpsc_pc' = [mpsc_pc EXCEPT ![t] = l]
  PROVE  /\ mpsc_pc' \in [Producers \union {Consumer} -> Mpsc!PcLabels]
         /\ mpsc_pc'[t] = l
         /\ \A q \in Producers \union {Consumer} : q # t => mpsc_pc'[q] = mpsc_pc[q]
BY DEF Linked, Mpsc!TypeOK

\* A step of a producer that leaves the nodes alone.
LEMMA Aside ==
  ASSUME Mpsc!MpscAssumption, Linked, NEW p \in Producers,
             NEW l \in Mpsc!PcLabels \ {"link", "uncount"},
         mpsc_pc' = [mpsc_pc EXCEPT ![p] = l],
         UNCHANGED <<mpsc_data, mpsc_next, mpsc_tail, mpsc_freed, mpsc_prev,
             mpsc_maxSize, mpsc_accepted, mpsc_taken>>,
         mpsc_size' \in Nat, mpsc_seen' \in [Producers -> Nat],
             mpsc_counts' \subseteq Producers,
         mpsc_unchecked' \in BOOLEAN
  PROVE  Linked'
<1>1. /\ mpsc_pc' \in [Producers \union {Consumer} -> Mpsc!PcLabels]
      /\ mpsc_pc'[p] = l
      /\ \A q \in Producers \union {Consumer} : q # p => mpsc_pc'[q] = mpsc_pc[q]
  BY PcStep
<1>2. Mpsc!TypeOK'
  BY <1>1 DEF Linked, Mpsc!TypeOK, Mpsc!head
<1>3. Labels'
  BY <1>1 DEF Linked, Labels, Mpsc!MpscAssumption
<1>4. \A q \in Producers : Linking(q)' => Linking(q)
  BY <1>1 DEF Linking
<1>5. Chain'
  BY <1>4 DEF Linked, Chain, Mpsc!head
<1>. QED  BY <1>2, <1>3, <1>5 DEF Linked, Limited

LEMMA PushKeeps ==
  ASSUME Mpsc!MpscAssumption, Linked, NEW p \in Producers, Mpsc!Push(p)
  PROVE  Linked'
<1>1. UNCHANGED <<mpsc_data, mpsc_next, mpsc_tail, mpsc_freed, mpsc_prev, mpsc_maxSize,
          mpsc_accepted, mpsc_taken, mpsc_size, mpsc_seen>>
  BY DEF Mpsc!Push, Mpsc!queueVars
<1>2. mpsc_counts' \subseteq Producers
  BY DEF Mpsc!Push, Linked, Mpsc!TypeOK
<1>3. mpsc_unchecked' \in BOOLEAN
  BY DEF Mpsc!Push
<1>4. "exchange" \in Mpsc!PcLabels \ {"link", "uncount"}
  BY DEF Mpsc!PcLabels
<1>5. mpsc_size' \in Nat /\ mpsc_seen' \in [Producers -> Nat]
  BY <1>1 DEF Linked, Mpsc!TypeOK
<1>6. mpsc_pc' = [mpsc_pc EXCEPT ![p] = "exchange"]
  BY DEF Mpsc!Push
<1>. QED  BY <1>1, <1>2, <1>3, <1>4, <1>5, <1>6, Aside

LEMMA TryPushKeeps ==
  ASSUME Mpsc!MpscAssumption, Linked, NEW p \in Producers, Mpsc!TryPush(p)
  PROVE  Linked'
<1>1. UNCHANGED <<mpsc_data, mpsc_next, mpsc_tail, mpsc_freed, mpsc_prev, mpsc_maxSize,
          mpsc_accepted, mpsc_taken, mpsc_size, mpsc_counts, mpsc_unchecked>>
  BY DEF Mpsc!TryPush, Mpsc!queueVars
<1>2. mpsc_size' \in Nat /\ mpsc_counts' \subseteq Producers
          /\ mpsc_unchecked' \in BOOLEAN
  BY <1>1 DEF Linked, Mpsc!TypeOK
<1>3. mpsc_seen' \in [Producers -> Nat]
  BY DEF Mpsc!TryPush, Linked, Mpsc!TypeOK
<1>4. "reserve" \in Mpsc!PcLabels \ {"link", "uncount"}
  BY DEF Mpsc!PcLabels
<1>5. mpsc_pc' = [mpsc_pc EXCEPT ![p] = "reserve"]
  BY DEF Mpsc!TryPush
<1>. QED  BY <1>1, <1>2, <1>3, <1>4, <1>5, Aside

LEMMA ReserveSlotKeeps ==
  ASSUME Mpsc!MpscAssumption, Linked, NEW p \in Producers, Mpsc!Reserve(p)
  PROVE  Linked'
<1>1. UNCHANGED <<mpsc_data, mpsc_next, mpsc_tail, mpsc_freed, mpsc_prev, mpsc_maxSize,
          mpsc_accepted, mpsc_taken, mpsc_counts, mpsc_unchecked>>
  BY DEF Mpsc!Reserve, Mpsc!queueVars
<1>2. mpsc_counts' \subseteq Producers /\ mpsc_unchecked' \in BOOLEAN
  BY <1>1 DEF Linked, Mpsc!TypeOK
<1>3. mpsc_size' \in Nat
  BY DEF Mpsc!Reserve, Linked, Mpsc!TypeOK
<1>5. mpsc_seen' \in [Producers -> Nat]
  BY DEF Mpsc!Reserve, Linked, Mpsc!TypeOK
<1>4. \E l \in Mpsc!PcLabels \ {"link", "uncount"} : mpsc_pc' = [mpsc_pc EXCEPT ![p] = l]
  BY DEF Mpsc!Reserve, Mpsc!PcLabels
<1>. QED  BY <1>1, <1>2, <1>3, <1>4, <1>5, Aside

LEMMA CountKeeps ==
  ASSUME Mpsc!MpscAssumption, Linked, NEW p \in Producers, Mpsc!Count(p)
  PROVE  Linked'
<1>1. UNCHANGED <<mpsc_data, mpsc_next, mpsc_tail, mpsc_freed, mpsc_prev, mpsc_maxSize,
          mpsc_accepted, mpsc_taken, mpsc_seen, mpsc_unchecked>>
  BY DEF Mpsc!Count, Mpsc!queueVars
<1>2. mpsc_seen' \in [Producers -> Nat] /\ mpsc_unchecked' \in BOOLEAN
  BY <1>1 DEF Linked, Mpsc!TypeOK
<1>3. mpsc_counts' \subseteq Producers
  BY DEF Mpsc!Count, Linked, Mpsc!TypeOK
<1>4. mpsc_size' \in Nat
  BY DEF Mpsc!Count, Linked, Mpsc!TypeOK, Mpsc!MpscAssumption
<1>5. mpsc_pc' = [mpsc_pc EXCEPT ![p] = "idle"] /\ "idle" \in Mpsc!PcLabels \ {"link",
          "uncount"}
  BY DEF Mpsc!Count, Mpsc!PcLabels
<1>. QED  BY <1>1, <1>2, <1>3, <1>4, <1>5, Aside

LEMMA ExchangeKeeps ==
  ASSUME Mpsc!MpscAssumption, Linked, NEW p \in Producers, Mpsc!Exchange(p)
  PROVE  Linked' /\ Mpsc!head' = Mpsc!head + 1
<1>1. UNCHANGED <<mpsc_next, mpsc_tail, mpsc_freed, mpsc_maxSize, mpsc_size, mpsc_seen,
          mpsc_counts, mpsc_unchecked, mpsc_taken>>
  BY DEF Mpsc!Exchange
<1>2. /\ Mpsc!head \in Nat /\ Mpsc!head < MaxNodes /\ mpsc_tail \in Nat
             /\ MaxNodes \in Nat
      /\ \A n : n \in Mpsc!Nodes <=> n \in Nat /\ n <= MaxNodes
  BY NodesAre DEF Mpsc!Exchange, Linked, Mpsc!TypeOK, Mpsc!MpscAssumption
<1>3. <<p, mpsc_accepted[p] + 1>> \in Producers \X Nat
  BY DEF Linked, Mpsc!TypeOK
<1>4. mpsc_data' \in Seq(Producers \X Nat) /\ Mpsc!head' = Mpsc!head + 1
  BY <1>3, AppendProperties DEF Mpsc!Exchange, Linked, Mpsc!TypeOK, Mpsc!head
<1>5. mpsc_pc' = [mpsc_pc EXCEPT ![p] = "link"] /\ "link" \in Mpsc!PcLabels
          /\ Consumer # p
  BY DEF Mpsc!Exchange, Mpsc!PcLabels, Mpsc!MpscAssumption
<1>6. /\ mpsc_pc' \in [Producers \union {Consumer} -> Mpsc!PcLabels]
      /\ mpsc_pc'[p] = "link"
      /\ \A q \in Producers \union {Consumer} : q # p => mpsc_pc'[q] = mpsc_pc[q]
  BY <1>5, PcStep
<1>7. mpsc_accepted' \in [Producers -> Nat]
  BY DEF Mpsc!Exchange, Linked, Mpsc!TypeOK
<1>8. /\ mpsc_prev' \in [Producers -> Mpsc!Nodes] /\ mpsc_prev'[p] = Mpsc!head
      /\ \A q \in Producers : q # p => mpsc_prev'[q] = mpsc_prev[q]
  BY <1>2 DEF Mpsc!Exchange, Linked, Mpsc!TypeOK
<1>9. Mpsc!TypeOK'
  <2>1. Mpsc!head' \in Mpsc!Nodes
    BY <1>2, <1>4
  <2>. QED  BY <1>1, <1>4, <1>6, <1>7, <1>8, <2>1 DEF Linked, Mpsc!TypeOK
<1>10. Labels'
  BY <1>5, <1>6 DEF Linked, Labels
<1>11. Chain'
  <2>1. \A q \in Producers : q # p /\ Linking(q)' => Linking(q)
                                 /\ mpsc_prev'[q] = mpsc_prev[q]
    BY <1>6, <1>8 DEF Linking
  <2>2. \A n \in Mpsc!Nodes : mpsc_next[n] = Mpsc!None \/ (mpsc_next[n] = n + 1
                                  /\ n < Mpsc!head)
    BY DEF Linked, Chain
  <2>3. mpsc_next[Mpsc!head] = Mpsc!None
    BY <1>2, <2>2
  <2>4. \A q \in Producers : Linking(q) =>
          mpsc_prev[q] \in Nat /\ mpsc_prev[q] < Mpsc!head /\ mpsc_tail <= mpsc_prev[q]
              /\ mpsc_next[mpsc_prev[q]] = Mpsc!None
    BY <1>2 DEF Linked, Chain, Mpsc!TypeOK
  <2>5. mpsc_tail <= Mpsc!head /\ mpsc_freed = 0 .. mpsc_tail - 1
    BY DEF Linked, Chain
  <2>6. \A q \in Producers : Linking(q)' =>
          mpsc_prev'[q] < Mpsc!head' /\ mpsc_tail' <= mpsc_prev'[q]
              /\ mpsc_next'[mpsc_prev'[q]] = Mpsc!None
    <3>. SUFFICES ASSUME NEW q \in Producers, Linking(q)'
                  PROVE  mpsc_prev'[q] < Mpsc!head' /\ mpsc_tail' <= mpsc_prev'[q]
                             /\ mpsc_next'[mpsc_prev'[q]] = Mpsc!None
      OBVIOUS
    <3>1. CASE q = p
      BY <1>1, <1>2, <1>4, <1>8, <2>3, <2>5, <3>1
    <3>2. CASE q # p
      BY <1>1, <1>2, <1>4, <2>1, <2>4, <3>2
    <3>. QED  BY <3>1, <3>2
  <2>7. \A q, r \in Producers : q # r /\ Linking(q)' /\ Linking(r)'
                                    => mpsc_prev'[q] # mpsc_prev'[r]
    <3>1. \A q, r \in Producers : q # r /\ Linking(q) /\ Linking(r)
                                      => mpsc_prev[q] # mpsc_prev[r]
      BY DEF Linked, Chain
    <3>. QED  BY <1>2, <1>8, <2>1, <2>4, <3>1
  <2>8. \A n \in Mpsc!Nodes : mpsc_next'[n] = Mpsc!None \/ (mpsc_next'[n] = n + 1
                                  /\ n < Mpsc!head')
    BY <1>1, <1>2, <1>4, <2>2
  <2>. QED  BY <1>1, <1>2, <1>4, <2>5, <2>6, <2>7, <2>8 DEF Chain
<1>. QED  BY <1>1, <1>4, <1>9, <1>10, <1>11 DEF Linked, Limited

LEMMA LinkKeeps ==
  ASSUME Mpsc!MpscAssumption, Linked, NEW p \in Producers, Mpsc!Link(p)
  PROVE  Linked'
<1>. DEFINE l == IF p \in mpsc_counts THEN "count" ELSE "idle"
<1>1. /\ Mpsc!head \in Nat /\ mpsc_tail \in Nat /\ MaxNodes \in Nat
             /\ Mpsc!head <= MaxNodes
      /\ \A n : n \in Mpsc!Nodes <=> n \in Nat /\ n <= MaxNodes
  BY NodesAre DEF Linked, Mpsc!TypeOK, Mpsc!MpscAssumption
<1>2. /\ Linking(p) /\ mpsc_prev[p] \in Nat /\ mpsc_prev[p] < Mpsc!head
             /\ mpsc_tail <= mpsc_prev[p]
  BY <1>1 DEF Mpsc!Link, Linked, Chain, Mpsc!TypeOK, Linking
<1>3. UNCHANGED <<mpsc_data, mpsc_tail, mpsc_freed, mpsc_seen, mpsc_prev, mpsc_counts,
          mpsc_unchecked, mpsc_maxSize, mpsc_size, mpsc_accepted, mpsc_taken>>
  BY DEF Mpsc!Link, Mpsc!callVars
<1>4. mpsc_next' = [mpsc_next EXCEPT ![mpsc_prev[p]] = mpsc_prev[p] + 1]
  BY DEF Mpsc!Link
<1>5. /\ mpsc_next' \in [Mpsc!Nodes -> Mpsc!Nodes]
             /\ mpsc_next'[mpsc_prev[p]] = mpsc_prev[p] + 1
      /\ \A n \in Mpsc!Nodes : n # mpsc_prev[p] => mpsc_next'[n] = mpsc_next[n]
  <2>1. mpsc_prev[p] \in Mpsc!Nodes /\ mpsc_prev[p] + 1 \in Mpsc!Nodes
    BY <1>1, <1>2
  <2>2. mpsc_next \in [Mpsc!Nodes -> Mpsc!Nodes]
    BY DEF Linked, Mpsc!TypeOK
  <2>. QED  BY <1>4, <2>1, <2>2
<1>6. mpsc_pc' = [mpsc_pc EXCEPT ![p] = l] /\ l \in Mpsc!PcLabels /\ Consumer # p
          /\ l \notin {"link", "uncount"}
  BY DEF Mpsc!Link, Mpsc!PcLabels, Mpsc!MpscAssumption
<1>. HIDE DEF l
<1>7. /\ mpsc_pc' \in [Producers \union {Consumer} -> Mpsc!PcLabels]
      /\ mpsc_pc'[p] = l
      /\ \A q \in Producers \union {Consumer} : q # p => mpsc_pc'[q] = mpsc_pc[q]
  BY <1>6, PcStep
<1>8. Mpsc!TypeOK'
  BY <1>3, <1>5, <1>7 DEF Linked, Mpsc!TypeOK, Mpsc!head
<1>9. Labels'
  BY <1>6, <1>7 DEF Linked, Labels
<1>10. Chain'
  <2>1. \A q \in Producers : Linking(q)' => q # p /\ Linking(q)
    BY <1>6, <1>7 DEF Linking
  <2>2. \A q \in Producers : Linking(q)' =>
          mpsc_prev[q] < Mpsc!head /\ mpsc_tail <= mpsc_prev[q]
              /\ mpsc_prev[q] # mpsc_prev[p] /\ mpsc_prev[q] \in Mpsc!Nodes
          /\ mpsc_next[mpsc_prev[q]] = Mpsc!None
    BY <1>2, <2>1 DEF Linked, Chain, Mpsc!TypeOK
  <2>3. \A n \in Mpsc!Nodes : mpsc_next'[n] = Mpsc!None \/ (mpsc_next'[n] = n + 1
                                  /\ n < Mpsc!head)
    BY <1>2, <1>5 DEF Linked, Chain
  <2>4. Mpsc!head' = Mpsc!head
    BY <1>3 DEF Mpsc!head
  <2>5. \A q, r \in Producers : q # r /\ Linking(q)' /\ Linking(r)'
                                    => mpsc_prev[q] # mpsc_prev[r]
    BY <2>1 DEF Linked, Chain
  <2>6. mpsc_tail <= Mpsc!head /\ mpsc_freed = 0 .. mpsc_tail - 1
    BY DEF Linked, Chain
  <2>. QED  BY <1>3, <1>5, <2>2, <2>3, <2>4, <2>5, <2>6 DEF Chain
<1>. QED  BY <1>3, <1>8, <1>9, <1>10 DEF Linked, Limited

LEMMA PopKeeps ==
  ASSUME Mpsc!MpscAssumption, Linked, Mpsc!Pop
  PROVE  Linked' /\ mpsc_tail' = mpsc_tail + 1 /\ mpsc_tail < Mpsc!head
             /\ mpsc_taken' = Append(mpsc_taken, mpsc_data[mpsc_tail + 1])
<1>. DEFINE l == IF mpsc_maxSize > 0 THEN "uncount" ELSE "idle"
<1>1. /\ Mpsc!head \in Nat /\ mpsc_tail \in Nat /\ MaxNodes \in Nat
             /\ Mpsc!head <= MaxNodes /\ mpsc_tail \in Mpsc!Nodes
      /\ \A n : n \in Mpsc!Nodes <=> n \in Nat /\ n <= MaxNodes
  BY NodesAre DEF Linked, Mpsc!TypeOK, Mpsc!MpscAssumption
<1>2. mpsc_next[mpsc_tail] = mpsc_tail + 1 /\ mpsc_tail < Mpsc!head
  BY <1>1 DEF Mpsc!Pop, Linked, Chain
<1>3. UNCHANGED <<mpsc_data, mpsc_next, mpsc_seen, mpsc_prev, mpsc_counts,
          mpsc_unchecked, mpsc_maxSize, mpsc_size, mpsc_accepted>>
  BY DEF Mpsc!Pop, Mpsc!callVars
<1>4. /\ mpsc_tail' = mpsc_tail + 1 /\ mpsc_freed' = mpsc_freed \union {mpsc_tail}
             /\ mpsc_taken' = Append(mpsc_taken, mpsc_data[mpsc_tail + 1])
  BY <1>2 DEF Mpsc!Pop
<1>5. mpsc_data[mpsc_tail + 1] \in Producers \X Nat
  BY <1>1, <1>2 DEF Linked, Mpsc!TypeOK, Mpsc!head
<1>6. mpsc_taken' \in Seq(Producers \X Nat)
  BY <1>4, <1>5, AppendProperties DEF Linked, Mpsc!TypeOK
<1>7. mpsc_pc' = [mpsc_pc EXCEPT ![Consumer] = l] /\ l \in Mpsc!PcLabels
          /\ l \in {"idle", "uncount"}
  BY DEF Mpsc!Pop, Mpsc!PcLabels
<1>. HIDE DEF l
<1>8. /\ mpsc_pc' \in [Producers \union {Consumer} -> Mpsc!PcLabels]
      /\ mpsc_pc'[Consumer] = l
      /\ \A q \in Producers \union {Consumer} : q # Consumer => mpsc_pc'[q] = mpsc_pc[q]
  BY <1>7, PcStep
<1>9. \A q \in Producers : mpsc_pc'[q] = mpsc_pc[q]
  BY <1>8 DEF Mpsc!MpscAssumption
<1>10. Mpsc!TypeOK'
  <2>1. mpsc_tail' \in Mpsc!Nodes /\ mpsc_freed' \subseteq Mpsc!Nodes
    BY <1>1, <1>2, <1>4 DEF Linked, Mpsc!TypeOK
  <2>. QED  BY <1>3, <1>6, <1>8, <2>1 DEF Linked, Mpsc!TypeOK, Mpsc!head
<1>11. Labels'
  BY <1>7, <1>8, <1>9 DEF Linked, Labels
<1>12. Chain'
  <2>1. \A q \in Producers : Linking(q)' <=> Linking(q)
    BY <1>9 DEF Linking
  <2>2. \A q \in Producers : Linking(q) =>
          mpsc_prev[q] < Mpsc!head /\ mpsc_tail + 1 <= mpsc_prev[q]
              /\ mpsc_next[mpsc_prev[q]] = Mpsc!None
    <3>1. \A q \in Producers : Linking(q) =>
            mpsc_prev[q] \in Nat /\ mpsc_prev[q] < Mpsc!head /\ mpsc_tail <= mpsc_prev[q]
                /\ mpsc_next[mpsc_prev[q]] = Mpsc!None
      BY <1>1 DEF Linked, Chain, Mpsc!TypeOK
    <3>2. \A q \in Producers : Linking(q) => mpsc_prev[q] # mpsc_tail
      BY <1>1, <1>2, <3>1
    <3>. QED  BY <1>1, <3>1, <3>2
  <2>3. Mpsc!head' = Mpsc!head
    BY <1>3 DEF Mpsc!head
  <2>4. mpsc_freed' = 0 .. mpsc_tail' - 1
    BY <1>1, <1>4 DEF Linked, Chain
  <2>5. mpsc_tail' <= Mpsc!head'
    BY <1>1, <1>2, <1>4, <2>3
  <2>. QED  BY <1>3, <1>4, <2>1, <2>2, <2>3, <2>4, <2>5 DEF Linked, Chain
<1>. QED  BY <1>2, <1>3, <1>4, <1>10, <1>11, <1>12 DEF Linked, Limited

LEMMA UncountKeeps ==
  ASSUME Mpsc!MpscAssumption, Linked, Mpsc!Uncount
  PROVE  Linked'
<1>1. UNCHANGED <<mpsc_data, mpsc_next, mpsc_tail, mpsc_freed, mpsc_seen, mpsc_prev,
          mpsc_counts, mpsc_unchecked, mpsc_maxSize, mpsc_accepted, mpsc_taken>>
  BY DEF Mpsc!Uncount, Mpsc!queueVars, Mpsc!callVars
<1>2. mpsc_size' \in Nat
  BY DEF Mpsc!Uncount, Linked, Mpsc!TypeOK, Mpsc!MpscAssumption
<1>3. mpsc_pc' = [mpsc_pc EXCEPT ![Consumer] = "idle"] /\ "idle" \in Mpsc!PcLabels
  BY DEF Mpsc!Uncount, Mpsc!PcLabels
<1>4. /\ mpsc_pc' \in [Producers \union {Consumer} -> Mpsc!PcLabels]
      /\ mpsc_pc'[Consumer] = "idle"
      /\ \A q \in Producers : mpsc_pc'[q] = mpsc_pc[q]
  BY <1>3, PcStep DEF Mpsc!MpscAssumption
<1>5. Mpsc!TypeOK'
  BY <1>1, <1>2, <1>4 DEF Linked, Mpsc!TypeOK, Mpsc!head
<1>6. Labels' /\ (\A q \in Producers : Linking(q)' <=> Linking(q))
  BY <1>4 DEF Linked, Labels, Linking
<1>7. Chain'
  BY <1>1, <1>6 DEF Linked, Chain, Mpsc!head
<1>. QED  BY <1>1, <1>5, <1>6, <1>7 DEF Linked, Limited

LEMMA LinkedNext ==
  ASSUME Mpsc!MpscAssumption, Linked, [Mpsc!Next]_(Mpsc!vars)
  PROVE  Linked'
<1>1. CASE UNCHANGED Mpsc!vars
  BY <1>1 DEF Mpsc!vars, Linked, Mpsc!TypeOK, Limited, Labels, Chain, Linking, Mpsc!head
<1>2. ASSUME NEW p \in Producers, Mpsc!Produce(p) PROVE Linked'
  BY <1>2, PushKeeps, TryPushKeeps, ReserveSlotKeeps, ExchangeKeeps, LinkKeeps,
         CountKeeps DEF Mpsc!Produce
<1>3. CASE Mpsc!Consume
  BY <1>3, PopKeeps, UncountKeeps DEF Mpsc!Consume
<1>. QED  BY <1>1, <1>2, <1>3 DEF Mpsc!Next

-----------------------------------------------------------------------------
(* The count: what is counted and not yet in the list, in the list and not *)
(* yet counted, out of it and still counted.                               *)

Reserved  == {p \in Producers : mpsc_pc[p] = "exchange" /\ p \notin mpsc_counts}
Uncounted == {p \in Producers : mpsc_pc[p] \in {"link", "count"} /\ p \in mpsc_counts}
Popped    == IF mpsc_pc[Consumer] = "uncount" THEN 1 ELSE 0

CountedSoFar == Mpsc!Held + Cardinality(Reserved) - Cardinality(Uncounted) + Popped

Counters ==
  mpsc_maxSize > 0 =>
    /\ mpsc_size = CountedSoFar % SizeRange
    /\ \A p \in Producers : mpsc_pc[p] = "reserve" => mpsc_seen[p] < mpsc_maxSize
    /\ \A p \in Producers : p \in mpsc_counts => mpsc_pc[p] \in {"exchange", "link",
                                "count"}
    /\ \A p \in Producers : mpsc_pc[p] = "count" => p \in mpsc_counts
    /\ ~mpsc_unchecked => mpsc_counts = {} /\ CountedSoFar <= mpsc_maxSize

\* A set that gains or loses one element.
LEMMA OneIn ==
  ASSUME NEW S, NEW T, NEW x, x \notin S, T = S \union {x}, IsFiniteSet(S)
  PROVE  Cardinality(S) \in Nat /\ Cardinality(T) = Cardinality(S) + 1
BY FS_AddElement, FS_CardinalityType

LEMMA Finite ==
  Mpsc!MpscAssumption => /\ IsFiniteSet(Reserved) /\ IsFiniteSet(Uncounted)
                    /\ Cardinality(Reserved) \in Nat /\ Cardinality(Uncounted) \in Nat
<1>1. \A S : Mpsc!IsFiniteSet(S) => IsFiniteSet(S)
  BY DEF Mpsc!IsFiniteSet, IsFiniteSet
<1>. QED  BY <1>1, FS_Subset, FS_CardinalityType DEF Mpsc!MpscAssumption, Reserved,
         Uncounted

\* The remainder is the only number below m that differs by a multiple of it.
LEMMA Remainder ==
  ASSUME NEW q \in Int, NEW m \in Nat \ {0}, NEW s \in 0 .. m - 1
  PROVE  (m * q + s) % m = s
OBVIOUS

\* Counting up and down wraps with the count.
LEMMA WrapUp ==
  ASSUME NEW n \in Int, NEW m \in Nat \ {0}
  PROVE  ((n % m) + 1) % m = (n + 1) % m
<1>. DEFINE q == n \div m
            r == n % m
<1>1. q \in Int /\ r \in 0 .. m - 1 /\ n = m * q + r
  OBVIOUS
<1>. HIDE DEF q, r
<1>2. CASE r + 1 < m
  <2>1. n + 1 = m * q + (r + 1)
    BY <1>1
  <2>2. (n + 1) % m = r + 1
    BY <1>1, <1>2, <2>1, Remainder
  <2>3. (m * 0 + (r + 1)) % m = r + 1
    BY <1>1, <1>2, Remainder
  <2>. QED  BY <1>1, <2>2, <2>3 DEF r
<1>3. CASE r + 1 = m
  <2>1. n + 1 = m * (q + 1) + 0
    BY <1>1, <1>3
  <2>2. (n + 1) % m = 0
    BY <1>1, <2>1, Remainder
  <2>3. (m * 1 + 0) % m = 0
    BY Remainder
  <2>. QED  BY <1>1, <1>3, <2>2, <2>3 DEF r
<1>. QED  BY <1>1, <1>2, <1>3

LEMMA WrapDown ==
  ASSUME NEW n \in Int, NEW m \in Nat \ {0}
  PROVE  ((n % m) - 1) % m = (n - 1) % m
<1>. DEFINE q == n \div m
            r == n % m
<1>1. q \in Int /\ r \in 0 .. m - 1 /\ n = m * q + r
  OBVIOUS
<1>. HIDE DEF q, r
<1>2. CASE r > 0
  <2>1. n - 1 = m * q + (r - 1)
    BY <1>1
  <2>2. (n - 1) % m = r - 1
    BY <1>1, <1>2, <2>1, Remainder
  <2>3. (m * 0 + (r - 1)) % m = r - 1
    BY <1>1, <1>2, Remainder
  <2>. QED  BY <1>1, <2>2, <2>3 DEF r
<1>3. CASE r = 0
  <2>1. n - 1 = m * (q - 1) + (m - 1)
    BY <1>1, <1>3
  <2>2. (n - 1) % m = m - 1
    BY <1>1, <2>1, Remainder
  <2>3. (m * (0 - 1) + (m - 1)) % m = m - 1
    BY Remainder
  <2>4. m * (0 - 1) + (m - 1) = 0 - 1
    OBVIOUS
  <2>. QED  BY <1>1, <1>3, <2>2, <2>3, <2>4 DEF r
<1>. QED  BY <1>1, <1>2, <1>3

\* What the step of the count says of a queue with a limit.
LEMMA CountIs ==
  ASSUME Mpsc!MpscAssumption, Linked, Counters, mpsc_maxSize > 0
  PROVE  /\ Mpsc!Held \in Nat /\ Mpsc!Held <= MaxNodes /\ Popped \in {0, 1}
                /\ CountedSoFar \in Int
         /\ mpsc_maxSize \in Nat /\ SizeRange \in Nat \ {0} /\ MaxNodes \in Nat
         /\ mpsc_size = CountedSoFar % SizeRange
         /\ ~mpsc_unchecked => CountedSoFar \in Nat /\ CountedSoFar <= mpsc_maxSize
                /\ Mpsc!Held <= CountedSoFar
<1>1. /\ Mpsc!Held \in Nat /\ Mpsc!Held <= MaxNodes /\ mpsc_maxSize \in Nat
             /\ MaxNodes \in Nat
      /\ SizeRange \in Nat \ {0}
  BY NodesAre DEF Linked, Mpsc!TypeOK, Chain, Mpsc!Held, Mpsc!MpscAssumption
<1>2. Popped \in {0, 1}
  BY DEF Popped
<1>3. CountedSoFar \in Int
  BY <1>1, <1>2, Finite DEF CountedSoFar
<1>4. ASSUME ~mpsc_unchecked PROVE CountedSoFar \in Nat /\ CountedSoFar <= mpsc_maxSize
                 /\ Mpsc!Held <= CountedSoFar
  <2>1. Uncounted = {}
    BY <1>4 DEF Counters, Uncounted
  <2>2. Cardinality(Uncounted) = 0
    BY <2>1, FS_EmptySet
  <2>. QED  BY <1>1, <1>2, <1>4, <2>2, Finite DEF CountedSoFar, Counters
<1>. QED  BY <1>1, <1>2, <1>3, <1>4 DEF Counters

\* A step of a producer: the others stay in their sets.
LEMMA Others ==
  ASSUME Mpsc!MpscAssumption, Linked, NEW p \in Producers, NEW l \in Mpsc!PcLabels,
         mpsc_pc' = [mpsc_pc EXCEPT ![p] = l]
  PROVE  /\ mpsc_pc'[p] = l /\ Popped' = Popped
         /\ \A q \in Producers : q # p => mpsc_pc'[q] = mpsc_pc[q]
BY PcStep DEF Mpsc!MpscAssumption, Popped

LEMMA PushCounts ==
  ASSUME Mpsc!MpscAssumption, Linked, Counters, mpsc_maxSize > 0, NEW p \in Producers,
             Mpsc!Push(p)
  PROVE  Counters'
<1>1. mpsc_pc' = [mpsc_pc EXCEPT ![p] = "exchange"] /\ "exchange" \in Mpsc!PcLabels
          /\ mpsc_pc[p] = "idle"
  BY DEF Mpsc!Push, Mpsc!PcLabels
<1>2. /\ mpsc_pc'[p] = "exchange" /\ Popped' = Popped
      /\ \A q \in Producers : q # p => mpsc_pc'[q] = mpsc_pc[q]
  BY <1>1, Others
<1>3. mpsc_counts' = mpsc_counts \union {p} /\ mpsc_unchecked' = TRUE
          /\ p \notin mpsc_counts
  BY <1>1 DEF Mpsc!Push, Counters
<1>4. UNCHANGED <<mpsc_size, mpsc_seen, mpsc_maxSize>> /\ Mpsc!Held' = Mpsc!Held
  BY DEF Mpsc!Push, Mpsc!queueVars, Mpsc!Held, Mpsc!head
<1>5. Reserved' = Reserved /\ Uncounted' = Uncounted
  BY <1>1, <1>2, <1>3 DEF Reserved, Uncounted
<1>6. CountedSoFar' = CountedSoFar
  BY <1>2, <1>4, <1>5 DEF CountedSoFar
<1>. QED  BY <1>2, <1>3, <1>4, <1>6 DEF Counters

LEMMA TryPushCounts ==
  ASSUME Mpsc!MpscAssumption, Linked, Counters, mpsc_maxSize > 0, NEW p \in Producers,
             Mpsc!TryPush(p)
  PROVE  Counters'
<1>1. mpsc_pc' = [mpsc_pc EXCEPT ![p] = "reserve"] /\ "reserve" \in Mpsc!PcLabels
          /\ mpsc_pc[p] = "idle"
  BY DEF Mpsc!TryPush, Mpsc!PcLabels
<1>2. /\ mpsc_pc'[p] = "reserve" /\ Popped' = Popped
      /\ \A q \in Producers : q # p => mpsc_pc'[q] = mpsc_pc[q]
  BY <1>1, Others
<1>3. UNCHANGED <<mpsc_size, mpsc_counts, mpsc_unchecked, mpsc_maxSize>>
          /\ Mpsc!Held' = Mpsc!Held
  BY DEF Mpsc!TryPush, Mpsc!queueVars, Mpsc!Held, Mpsc!head
<1>4. Reserved' = Reserved /\ Uncounted' = Uncounted
  BY <1>1, <1>2, <1>3 DEF Reserved, Uncounted
<1>5. CountedSoFar' = CountedSoFar
  BY <1>2, <1>3, <1>4 DEF CountedSoFar
<1>6. \A q \in Producers : mpsc_pc'[q] = "reserve" => mpsc_seen'[q] < mpsc_maxSize
  BY <1>2 DEF Mpsc!TryPush, Counters, Linked, Mpsc!TypeOK
<1>7. p \notin mpsc_counts
  BY <1>1 DEF Counters
<1>. QED  BY <1>2, <1>3, <1>5, <1>6, <1>7 DEF Counters

\* A producer that loses the race looks again or gives up.
LEMMA ReserveAgainCounts ==
  ASSUME Mpsc!MpscAssumption, Linked, Counters, mpsc_maxSize > 0, NEW p \in Producers,
             Mpsc!Reserve(p),
         mpsc_seen' = [mpsc_seen EXCEPT ![p] = mpsc_size],
         mpsc_pc' = [mpsc_pc EXCEPT ![p] = IF mpsc_size < mpsc_maxSize THEN "reserve" ELSE "idle"],
         UNCHANGED mpsc_size
  PROVE  Counters'
<1>. DEFINE l == IF mpsc_size < mpsc_maxSize THEN "reserve" ELSE "idle"
<1>1. l \in Mpsc!PcLabels /\ l \in {"reserve", "idle"} /\ mpsc_pc[p] = "reserve"
          /\ (l = "reserve" => mpsc_size < mpsc_maxSize)
  BY DEF Mpsc!Reserve, Mpsc!PcLabels
<1>. HIDE DEF l
<1>2. /\ mpsc_pc'[p] = l /\ Popped' = Popped
      /\ \A q \in Producers : q # p => mpsc_pc'[q] = mpsc_pc[q]
  BY <1>1, Others DEF l
<1>3. UNCHANGED <<mpsc_size, mpsc_counts, mpsc_unchecked, mpsc_maxSize>>
          /\ Mpsc!Held' = Mpsc!Held
  BY DEF Mpsc!Reserve, Mpsc!queueVars, Mpsc!Held, Mpsc!head
<1>4. Reserved' = Reserved /\ Uncounted' = Uncounted
  BY <1>1, <1>2, <1>3 DEF Reserved, Uncounted
<1>5. CountedSoFar' = CountedSoFar
  BY <1>2, <1>3, <1>4 DEF CountedSoFar
<1>6. \A q \in Producers : mpsc_pc'[q] = "reserve" => mpsc_seen'[q] < mpsc_maxSize
  BY <1>1, <1>2 DEF Counters, Linked, Mpsc!TypeOK
<1>7. p \notin mpsc_counts
  BY <1>1 DEF Counters
<1>. QED  BY <1>1, <1>2, <1>3, <1>5, <1>6, <1>7 DEF Counters

LEMMA ReserveCounts ==
  ASSUME Mpsc!MpscAssumption, Linked, Counters, mpsc_maxSize > 0, NEW p \in Producers,
             Mpsc!Reserve(p)
  PROVE  Counters'
<1>1. CASE /\ mpsc_size = mpsc_seen[p] /\ mpsc_size' = mpsc_size + 1
           /\ mpsc_pc' = [mpsc_pc EXCEPT ![p] = "exchange"] /\ UNCHANGED mpsc_seen
  <2>1. "exchange" \in Mpsc!PcLabels /\ mpsc_pc[p] = "reserve" /\ p \notin mpsc_counts
    BY DEF Mpsc!Reserve, Mpsc!PcLabels, Counters
  <2>2. /\ mpsc_pc'[p] = "exchange" /\ Popped' = Popped
        /\ \A q \in Producers : q # p => mpsc_pc'[q] = mpsc_pc[q]
    BY <1>1, <2>1, Others
  <2>3. UNCHANGED <<mpsc_seen, mpsc_counts, mpsc_unchecked, mpsc_maxSize>>
            /\ Mpsc!Held' = Mpsc!Held
    BY <1>1 DEF Mpsc!Reserve, Mpsc!queueVars, Mpsc!Held, Mpsc!head
  <2>4. Reserved' = Reserved \union {p} /\ p \notin Reserved /\ Uncounted' = Uncounted
    BY <2>1, <2>2, <2>3 DEF Reserved, Uncounted
  <2>5. Cardinality(Reserved') = Cardinality(Reserved) + 1
    BY <2>4, Finite, OneIn
  <2>6. CountedSoFar' = CountedSoFar + 1
    BY <2>2, <2>3, <2>4, <2>5, CountIs, Finite DEF CountedSoFar
  <2>7. mpsc_size < mpsc_maxSize /\ mpsc_maxSize < SizeRange /\ mpsc_size \in Nat
    BY <1>1, <2>1 DEF Counters, Linked, Mpsc!TypeOK, Limited
  <2>8. mpsc_size' = CountedSoFar' % SizeRange
    <3>1. (mpsc_size + 1) % SizeRange = (CountedSoFar + 1) % SizeRange
      BY CountIs, WrapUp
    <3>2. (SizeRange * 0 + (mpsc_size + 1)) % SizeRange = mpsc_size + 1
      BY <2>7, CountIs, Remainder
    <3>3. (mpsc_size + 1) % SizeRange = mpsc_size + 1
      BY <2>7, <3>2, CountIs
    <3>. QED  BY <1>1, <2>6, <3>1, <3>3
  <2>9. ~mpsc_unchecked => CountedSoFar' <= mpsc_maxSize
    <3>1. SUFFICES ASSUME ~mpsc_unchecked PROVE CountedSoFar + 1 <= mpsc_maxSize
      BY <2>6
    <3>2. (SizeRange * 0 + CountedSoFar) % SizeRange = CountedSoFar
      BY <2>7, <3>1, CountIs, Remainder
    <3>3. mpsc_size = CountedSoFar
      BY <3>1, <3>2, CountIs
    <3>. QED  BY <2>7, <3>3, CountIs
  <2>. QED  BY <2>1, <2>2, <2>3, <2>8, <2>9 DEF Counters
<1>2. CASE /\ mpsc_seen' = [mpsc_seen EXCEPT ![p] = mpsc_size]
           /\ mpsc_pc' = [mpsc_pc EXCEPT ![p] = IF mpsc_size < mpsc_maxSize THEN "reserve" ELSE "idle"]
           /\ UNCHANGED mpsc_size
  BY <1>2, ReserveAgainCounts
<1>. QED  BY <1>1, <1>2 DEF Mpsc!Reserve

LEMMA ExchangeCounts ==
  ASSUME Mpsc!MpscAssumption, Linked, Counters, mpsc_maxSize > 0, NEW p \in Producers,
             Mpsc!Exchange(p)
  PROVE  Counters'
<1>1. mpsc_pc' = [mpsc_pc EXCEPT ![p] = "link"] /\ "link" \in Mpsc!PcLabels
          /\ mpsc_pc[p] = "exchange"
  BY DEF Mpsc!Exchange, Mpsc!PcLabels
<1>2. /\ mpsc_pc'[p] = "link" /\ Popped' = Popped
      /\ \A q \in Producers : q # p => mpsc_pc'[q] = mpsc_pc[q]
  BY <1>1, Others
<1>3. UNCHANGED <<mpsc_size, mpsc_seen, mpsc_counts, mpsc_unchecked, mpsc_maxSize,
          mpsc_tail>>
  BY DEF Mpsc!Exchange
<1>4. Mpsc!Held' = Mpsc!Held + 1
  <2>1. Mpsc!head \in Nat /\ mpsc_tail \in Nat /\ Mpsc!head' = Mpsc!head + 1
    BY ExchangeKeeps, NodesAre DEF Linked, Mpsc!TypeOK
  <2>. QED  BY <1>3, <2>1 DEF Mpsc!Held
<1>5. CASE p \in mpsc_counts
  <2>1. Uncounted' = Uncounted \union {p} /\ p \notin Uncounted /\ Reserved' = Reserved
    BY <1>1, <1>2, <1>3, <1>5 DEF Reserved, Uncounted
  <2>2. Cardinality(Uncounted') = Cardinality(Uncounted) + 1
    BY <2>1, Finite, OneIn
  <2>3. CountedSoFar' = CountedSoFar
    BY <1>2, <1>4, <2>1, <2>2, CountIs, Finite DEF CountedSoFar
  <2>. QED  BY <1>2, <1>3, <2>3 DEF Counters
<1>6. CASE p \notin mpsc_counts
  <2>1. Reserved = Reserved' \union {p} /\ p \notin Reserved' /\ Uncounted' = Uncounted
    BY <1>1, <1>2, <1>3, <1>6 DEF Reserved, Uncounted
  <2>2. IsFiniteSet(Reserved')
    BY <2>1, Finite, FS_Subset
  <2>3. Cardinality(Reserved) = Cardinality(Reserved') + 1
            /\ Cardinality(Reserved') \in Nat
    BY <2>1, <2>2, OneIn
  <2>4. CountedSoFar' = CountedSoFar
    BY <1>2, <1>4, <2>1, <2>3, CountIs, Finite DEF CountedSoFar
  <2>. QED  BY <1>2, <1>3, <2>4 DEF Counters
<1>. QED  BY <1>5, <1>6

LEMMA LinkCounts ==
  ASSUME Mpsc!MpscAssumption, Linked, Counters, mpsc_maxSize > 0, NEW p \in Producers,
             Mpsc!Link(p)
  PROVE  Counters'
<1>. DEFINE l == IF p \in mpsc_counts THEN "count" ELSE "idle"
<1>1. /\ mpsc_pc' = [mpsc_pc EXCEPT ![p] = l] /\ l \in Mpsc!PcLabels
             /\ mpsc_pc[p] = "link"
      /\ (p \in mpsc_counts => l = "count") /\ (p \notin mpsc_counts => l = "idle")
  BY DEF Mpsc!Link, Mpsc!PcLabels
<1>. HIDE DEF l
<1>2. /\ mpsc_pc'[p] = l /\ Popped' = Popped
      /\ \A q \in Producers : q # p => mpsc_pc'[q] = mpsc_pc[q]
  BY <1>1, Others
<1>3. UNCHANGED <<mpsc_size, mpsc_seen, mpsc_counts, mpsc_unchecked, mpsc_maxSize>>
          /\ Mpsc!Held' = Mpsc!Held
  BY DEF Mpsc!Link, Mpsc!callVars, Mpsc!Held, Mpsc!head
<1>4. Reserved' = Reserved /\ Uncounted' = Uncounted
  BY <1>1, <1>2, <1>3 DEF Reserved, Uncounted
<1>5. CountedSoFar' = CountedSoFar
  BY <1>2, <1>3, <1>4 DEF CountedSoFar
<1>. QED  BY <1>1, <1>2, <1>3, <1>5 DEF Counters

LEMMA CountCounts ==
  ASSUME Mpsc!MpscAssumption, Linked, Counters, mpsc_maxSize > 0, NEW p \in Producers,
             Mpsc!Count(p)
  PROVE  Counters'
<1>1. mpsc_pc' = [mpsc_pc EXCEPT ![p] = "idle"] /\ "idle" \in Mpsc!PcLabels
          /\ mpsc_pc[p] = "count" /\ p \in mpsc_counts
  BY DEF Mpsc!Count, Mpsc!PcLabels, Counters
<1>2. /\ mpsc_pc'[p] = "idle" /\ Popped' = Popped
      /\ \A q \in Producers : q # p => mpsc_pc'[q] = mpsc_pc[q]
  BY <1>1, Others
<1>3. /\ UNCHANGED <<mpsc_seen, mpsc_unchecked, mpsc_maxSize>> /\ Mpsc!Held' = Mpsc!Held
      /\ mpsc_counts' = mpsc_counts \ {p} /\ mpsc_size' = (mpsc_size + 1) % SizeRange
  BY DEF Mpsc!Count, Mpsc!queueVars, Mpsc!Held, Mpsc!head
<1>4. Uncounted = Uncounted' \union {p} /\ p \notin Uncounted' /\ Reserved' = Reserved
  BY <1>1, <1>2, <1>3 DEF Reserved, Uncounted
<1>5. IsFiniteSet(Uncounted')
  BY <1>4, Finite, FS_Subset
<1>6. Cardinality(Uncounted) = Cardinality(Uncounted') + 1
          /\ Cardinality(Uncounted') \in Nat
  BY <1>4, <1>5, OneIn
<1>7. CountedSoFar' = CountedSoFar + 1
  BY <1>2, <1>3, <1>4, <1>6, CountIs, Finite DEF CountedSoFar
<1>8. mpsc_size' = CountedSoFar' % SizeRange
  BY <1>3, <1>7, CountIs, WrapUp
<1>9. mpsc_unchecked
  BY <1>1 DEF Counters
<1>. QED  BY <1>2, <1>3, <1>8, <1>9 DEF Counters

LEMMA PopCounts ==
  ASSUME Mpsc!MpscAssumption, Linked, Counters, mpsc_maxSize > 0, Mpsc!Pop
  PROVE  Counters'
<1>1. mpsc_pc' = [mpsc_pc EXCEPT ![Consumer] = "uncount"] /\ "uncount" \in Mpsc!PcLabels
          /\ mpsc_pc[Consumer] = "idle"
  BY DEF Mpsc!Pop, Mpsc!PcLabels
<1>2. /\ mpsc_pc'[Consumer] = "uncount" /\ \A q \in Producers : mpsc_pc'[q] = mpsc_pc[q]
  BY <1>1, PcStep DEF Mpsc!MpscAssumption
<1>3. UNCHANGED <<mpsc_data, mpsc_size, mpsc_seen, mpsc_counts, mpsc_unchecked,
          mpsc_maxSize>>
  BY DEF Mpsc!Pop, Mpsc!callVars
<1>4. Mpsc!Held' = Mpsc!Held - 1
  <2>1. Mpsc!head \in Nat /\ mpsc_tail \in Nat /\ mpsc_tail' = mpsc_tail + 1
            /\ Mpsc!head' = Mpsc!head
    BY <1>3, PopKeeps, NodesAre DEF Linked, Mpsc!TypeOK, Mpsc!head
  <2>. QED  BY <2>1 DEF Mpsc!Held
<1>5. Reserved' = Reserved /\ Uncounted' = Uncounted /\ Popped = 0 /\ Popped' = 1
  BY <1>1, <1>2, <1>3 DEF Reserved, Uncounted, Popped
<1>6. CountedSoFar' = CountedSoFar
  BY <1>4, <1>5, CountIs, Finite DEF CountedSoFar
<1>. QED  BY <1>2, <1>3, <1>6 DEF Counters

LEMMA UncountCounts ==
  ASSUME Mpsc!MpscAssumption, Linked, Counters, mpsc_maxSize > 0, Mpsc!Uncount
  PROVE  Counters'
<1>1. mpsc_pc' = [mpsc_pc EXCEPT ![Consumer] = "idle"] /\ "idle" \in Mpsc!PcLabels
          /\ mpsc_pc[Consumer] = "uncount"
  BY DEF Mpsc!Uncount, Mpsc!PcLabels
<1>2. /\ mpsc_pc'[Consumer] = "idle" /\ \A q \in Producers : mpsc_pc'[q] = mpsc_pc[q]
  BY <1>1, PcStep DEF Mpsc!MpscAssumption
<1>3. /\ UNCHANGED <<mpsc_seen, mpsc_counts, mpsc_unchecked, mpsc_maxSize>>
             /\ Mpsc!Held' = Mpsc!Held
      /\ mpsc_size' = (mpsc_size - 1) % SizeRange
  BY DEF Mpsc!Uncount, Mpsc!queueVars, Mpsc!callVars, Mpsc!Held, Mpsc!head
<1>4. Reserved' = Reserved /\ Uncounted' = Uncounted /\ Popped = 1 /\ Popped' = 0
  BY <1>1, <1>2, <1>3 DEF Reserved, Uncounted, Popped
<1>5. CountedSoFar' = CountedSoFar - 1
  BY <1>3, <1>4, CountIs, Finite DEF CountedSoFar
<1>6. mpsc_size' = CountedSoFar' % SizeRange
  BY <1>3, <1>5, CountIs, WrapDown
<1>7. ~mpsc_unchecked => CountedSoFar' <= mpsc_maxSize
  BY <1>5, CountIs
<1>. QED  BY <1>2, <1>3, <1>6, <1>7 DEF Counters

LEMMA CountersNext ==
  ASSUME Mpsc!MpscAssumption, Linked, Counters, [Mpsc!Next]_(Mpsc!vars)
  PROVE  Counters'
<1>1. mpsc_maxSize' = mpsc_maxSize
  BY DEF Mpsc!Next, Mpsc!Produce, Mpsc!Consume, Mpsc!vars, Mpsc!Push, Mpsc!TryPush,
         Mpsc!Reserve, Mpsc!Exchange, Mpsc!Link, Mpsc!Count, Mpsc!Pop, Mpsc!Uncount
<1>2. CASE ~(mpsc_maxSize > 0)
  BY <1>1, <1>2 DEF Counters
<1>3. CASE mpsc_maxSize > 0
  <2>1. CASE UNCHANGED Mpsc!vars
    BY <2>1 DEF Mpsc!vars, Counters, CountedSoFar, Mpsc!Held, Mpsc!head, Reserved,
           Uncounted, Popped
  <2>2. ASSUME NEW p \in Producers, Mpsc!Produce(p) PROVE Counters'
    BY <1>3, <2>2, PushCounts, TryPushCounts, ReserveCounts, ExchangeCounts, LinkCounts,
           CountCounts
       DEF Mpsc!Produce
  <2>3. CASE Mpsc!Consume
    BY <1>3, <2>3, PopCounts, UncountCounts DEF Mpsc!Consume
  <2>. QED  BY <2>1, <2>2, <2>3 DEF Mpsc!Next
<1>. QED  BY <1>2, <1>3

LEMMA CountersInit == Mpsc!MpscAssumption /\ Mpsc!Init => Counters
<1>. SUFFICES ASSUME Mpsc!MpscAssumption, Mpsc!Init, mpsc_maxSize > 0 PROVE Counters
  BY DEF Counters
<1>1. Reserved = {} /\ Uncounted = {} /\ Popped = 0 /\ Mpsc!Held = 0
  BY DEF Mpsc!Init, Reserved, Uncounted, Popped, Mpsc!Held, Mpsc!head, Mpsc!MpscAssumption
<1>2. CountedSoFar = 0
  BY <1>1, FS_EmptySet DEF CountedSoFar
<1>3. 0 % SizeRange = 0 /\ mpsc_maxSize \in Nat
          /\ (\A p \in Producers : mpsc_pc[p] = "idle")
  BY DEF Mpsc!Init, Mpsc!MpscAssumption
<1>. QED  BY <1>2, <1>3 DEF Mpsc!Init, Counters

\* A node that is freed is not touched again, a limit is kept, and a count
\* that has gone below zero comes back.
LEMMA SafeFromLinked ==
  Mpsc!MpscAssumption /\ Linked /\ Counters => Mpsc!MpscSafe
<1>. SUFFICES ASSUME Mpsc!MpscAssumption, Linked, Counters PROVE Mpsc!MpscSafe
  OBVIOUS
<1>1. Mpsc!NoUseAfterFree
  <2>1. mpsc_tail \in Nat /\ (\A p \in Producers : mpsc_prev[p] \in Nat)
    BY NodesAre DEF Linked, Mpsc!TypeOK
  <2>. QED  BY <2>1 DEF Linked, Chain, Linking, Mpsc!NoUseAfterFree
<1>2. Mpsc!BoundKept
  BY CountIs DEF Mpsc!BoundKept
<1>3. Mpsc!SizeSettles
  <2>. SUFFICES ASSUME mpsc_maxSize > 0,
                           \A t \in DOMAIN mpsc_pc : mpsc_pc[t] \in {"idle", "reserve"}
                PROVE  mpsc_size = Mpsc!Held
    BY DEF Mpsc!SizeSettles
  <2>1. Reserved = {} /\ Uncounted = {} /\ Popped = 0
    BY DEF Linked, Mpsc!TypeOK, Reserved, Uncounted, Popped
  <2>2. CountedSoFar = Mpsc!Held
    BY <2>1, CountIs, FS_EmptySet DEF CountedSoFar
  <2>3. (SizeRange * 0 + Mpsc!Held) % SizeRange = Mpsc!Held
    BY CountIs, Remainder DEF Mpsc!MpscAssumption
  <2>. QED  BY <2>2, <2>3, CountIs
<1>. QED  BY <1>1, <1>2, <1>3 DEF Mpsc!MpscSafe, Linked

-----------------------------------------------------------------------------
(* The queue of values behind tail_ is the queue of FifoQueue.  A push takes *)
(* effect at its exchange, so it must still be allowed there.                *)

Allowed == \A p \in Producers : mpsc_pc[p] \in {"reserve", "exchange"}
    => mpsc_accepted[p] < MaxPushes

Values == Producers \X Nat
QueueOf == SubSeq(mpsc_data, mpsc_tail + 1, Len(mpsc_data))
TakenOf == [c \in {Consumer} |-> mpsc_taken]

LEMMA AllowedNext ==
  Mpsc!MpscAssumption /\ Linked /\ Allowed /\ [Mpsc!Next]_(Mpsc!vars) => Allowed'
<1>. SUFFICES ASSUME Mpsc!MpscAssumption, Linked, Allowed,
                         [Mpsc!Next]_(Mpsc!vars) PROVE Allowed'
  OBVIOUS
<1>. USE DEF Linked, Mpsc!TypeOK, Allowed, Mpsc!MpscAssumption
<1>1. ASSUME NEW p \in Producers, Mpsc!Push(p) \/ Mpsc!TryPush(p) \/ Mpsc!Reserve(p)
                 \/ Mpsc!Link(p) \/ Mpsc!Count(p)
      PROVE  Allowed'
  <2>1. mpsc_accepted' = mpsc_accepted
    BY <1>1 DEF Mpsc!Push, Mpsc!TryPush, Mpsc!Reserve, Mpsc!Link, Mpsc!Count
  <2>2. \A q \in Producers : q # p => mpsc_pc'[q] = mpsc_pc[q]
    BY <1>1 DEF Mpsc!Push, Mpsc!TryPush, Mpsc!Reserve, Mpsc!Link, Mpsc!Count
  <2>3. mpsc_pc'[p] \in {"reserve", "exchange"} => mpsc_accepted[p] < MaxPushes
    BY <1>1 DEF Mpsc!Push, Mpsc!TryPush, Mpsc!Reserve, Mpsc!Link, Mpsc!Count, Mpsc!MayPush
  <2>. QED  BY <2>1, <2>2, <2>3
<1>2. ASSUME NEW p \in Producers, Mpsc!Exchange(p) PROVE Allowed'
  BY <1>2 DEF Mpsc!Exchange
<1>3. CASE Mpsc!Pop \/ Mpsc!Uncount
  BY <1>3 DEF Mpsc!Pop, Mpsc!Uncount
<1>4. CASE UNCHANGED Mpsc!vars
  BY <1>4 DEF Mpsc!vars
<1>. QED  BY <1>1, <1>2, <1>3, <1>4 DEF Mpsc!Next, Mpsc!Produce, Mpsc!Consume

LEMMA QueueElements ==
  ASSUME Mpsc!TypeOK
  PROVE  /\ QueueOf \in Seq(Values)
         /\ Len(QueueOf) = IF mpsc_tail < Mpsc!head THEN Mpsc!head - mpsc_tail ELSE 0
         /\ \A i \in 1 .. Mpsc!head - mpsc_tail : QueueOf[i] = mpsc_data[mpsc_tail + i]
<1>1. /\ mpsc_data \in Seq(Values) /\ Mpsc!head = Len(mpsc_data) /\ Mpsc!head \in Nat
             /\ mpsc_tail \in Nat
  BY DEF Mpsc!TypeOK, Values, Mpsc!head, Mpsc!Nodes
<1>2. \A i \in mpsc_tail + 1 .. Mpsc!head : mpsc_data[i] \in Values
  BY <1>1
<1>3. /\ QueueOf \in Seq(Values)
      /\ Len(QueueOf) = IF mpsc_tail + 1 <= Mpsc!head THEN Mpsc!head - (mpsc_tail + 1) + 1 ELSE 0
      /\ \A i \in 1 .. Mpsc!head - (mpsc_tail + 1) + 1 : QueueOf[i] = mpsc_data[(mpsc_tail + 1) + i - 1]
  BY <1>1, <1>2, SubSeqProperties DEF QueueOf
<1>. QED  BY <1>1, <1>3

LEMMA BehindIs ==
  ASSUME NEW S, NEW s, NEW a \in Nat, NEW b \in Nat, a <= b,
         \A i \in a + 1 .. b + 1 : s[i] \in S
  PROVE  /\ SubSeq(s, a + 1, b + 1) \in Seq(S) /\ Len(SubSeq(s, a + 1, b + 1)) = b + 1 - a
         /\ \A i \in 1 .. b + 1 - a : SubSeq(s, a + 1, b + 1)[i] = s[a + i]
<1>1. a + 1 \in Int /\ b + 1 \in Int /\ a + 1 <= b + 1
  OBVIOUS
<1>2. /\ SubSeq(s, a + 1, b + 1) \in Seq(S)
      /\ Len(SubSeq(s, a + 1, b + 1)) = b + 1 - (a + 1) + 1
      /\ \A i \in 1 .. b + 1 - (a + 1) + 1 : SubSeq(s, a + 1, b + 1)[i] = s[a + 1 + i - 1]
  BY <1>1, SubSeqProperties
<1>. QED  BY <1>2

LEMMA ExchangePushes ==
  ASSUME Mpsc!MpscAssumption, Linked, Linked', Allowed, NEW p \in Producers,
             Mpsc!Exchange(p)
  PROVE  Mpsc!Fifo!Push(p)
<1>. DEFINE e == <<p, mpsc_accepted[p] + 1>>
<1>1. /\ Mpsc!TypeOK /\ Mpsc!TypeOK' /\ mpsc_tail <= Mpsc!head /\ Mpsc!head \in Nat
             /\ mpsc_tail \in Nat /\ Mpsc!head < MaxNodes
  BY NodesAre DEF Linked, Chain, Mpsc!Exchange, Mpsc!TypeOK
<1>2. mpsc_accepted[p] < MaxPushes
  BY DEF Allowed, Mpsc!Exchange
<1>3. Len(QueueOf) < MaxNodes
  BY <1>1, QueueElements DEF Mpsc!MpscAssumption
<1>4. e \in Values /\ mpsc_data \in Seq(Values)
  BY <1>1 DEF Mpsc!TypeOK, Values
<1>5. /\ mpsc_data' = Append(mpsc_data, e) /\ mpsc_tail' = mpsc_tail
             /\ Mpsc!head' = Mpsc!head + 1
      /\ \A i \in 1 .. Mpsc!head : mpsc_data'[i] = mpsc_data[i]
      /\ mpsc_data'[Mpsc!head + 1] = e
  BY <1>4, AppendProperties DEF Mpsc!Exchange, Mpsc!head
<1>6. QueueOf' = Append(QueueOf, e)
  <2>1. /\ QueueOf' \in Seq(Values) /\ Len(QueueOf') = Mpsc!head + 1 - mpsc_tail
        /\ \A i \in 1 .. Mpsc!head + 1 - mpsc_tail : QueueOf'[i] = mpsc_data'[mpsc_tail + i]
    <3>1. \A i \in mpsc_tail + 1 .. Mpsc!head + 1 : mpsc_data'[i] \in Values
      BY <1>1, <1>4, <1>5 DEF Mpsc!head
    <3>2. QueueOf' = SubSeq(mpsc_data', mpsc_tail + 1, Mpsc!head + 1)
      BY <1>5 DEF QueueOf, Mpsc!head
    <3>3. mpsc_tail \in Nat /\ Mpsc!head \in Nat /\ mpsc_tail <= Mpsc!head
      BY <1>1
    <3>. DEFINE a == mpsc_tail
                b == Mpsc!head
                d == mpsc_data'
    <3>4. a \in Nat /\ b \in Nat /\ a <= b /\ \A i \in a + 1 .. b + 1 : d[i] \in Values
      BY <3>1, <3>3
    <3>. HIDE DEF a, b, d
    <3>5. /\ SubSeq(d, a + 1, b + 1) \in Seq(Values)
          /\ Len(SubSeq(d, a + 1, b + 1)) = b + 1 - a
          /\ \A i \in 1 .. b + 1 - a : SubSeq(d, a + 1, b + 1)[i] = d[a + i]
      BY <3>4, BehindIs
    <3>. HIDE DEF Mpsc!head
    <3>. QED  BY <3>2, <3>5 DEF a, b, d
  <2>2. /\ QueueOf \in Seq(Values) /\ Len(QueueOf) = Mpsc!head - mpsc_tail
        /\ \A i \in 1 .. Mpsc!head - mpsc_tail : QueueOf[i] = mpsc_data[mpsc_tail + i]
    BY <1>1, QueueElements
  <2>3. /\ Append(QueueOf, e) \in Seq(Values) /\ Len(Append(QueueOf,
               e)) = Mpsc!head - mpsc_tail + 1
        /\ \A i \in 1 .. Mpsc!head - mpsc_tail : Append(QueueOf, e)[i] = QueueOf[i]
        /\ Append(QueueOf, e)[Mpsc!head - mpsc_tail + 1] = e
    BY <1>4, <2>2, AppendProperties
  <2>4. ASSUME NEW i \in 1 .. Mpsc!head + 1 - mpsc_tail PROVE QueueOf'[i] = Append(QueueOf, e)[i]
    <3>1. CASE i = Mpsc!head + 1 - mpsc_tail
      <4>1. mpsc_tail + i = Mpsc!head + 1 /\ i = Mpsc!head - mpsc_tail + 1
        BY <1>1, <3>1
      <4>2. QueueOf'[i] = e
        BY <1>5, <2>1, <4>1
      <4>. QED  BY <2>3, <4>1, <4>2
    <3>2. CASE i # Mpsc!head + 1 - mpsc_tail
      <4>1. i \in 1 .. Mpsc!head - mpsc_tail /\ mpsc_tail + i \in 1 .. Mpsc!head
        BY <1>1, <3>2
      <4>. QED  BY <1>5, <2>1, <2>2, <2>3, <4>1
    <3>. QED  BY <3>1, <3>2
  <2>5. Len(QueueOf') = Len(Append(QueueOf, e))
    BY <1>1, <2>1, <2>3
  <2>. QED  BY <2>1, <2>3, <2>4, <2>5, SeqEqual
<1>7. mpsc_accepted' = [mpsc_accepted EXCEPT ![p] = @ + 1] /\ TakenOf' = TakenOf
  BY DEF Mpsc!Exchange, TakenOf
<1>. QED  BY <1>2, <1>3, <1>6, <1>7 DEF Mpsc!Fifo!Push, QueueOf, TakenOf

LEMMA PopPops ==
  ASSUME Mpsc!MpscAssumption, Linked, Mpsc!Pop
  PROVE  Mpsc!Fifo!Pop(Consumer)
<1>1. /\ Mpsc!TypeOK /\ Mpsc!head \in Nat /\ mpsc_tail \in Nat /\ mpsc_tail < Mpsc!head
             /\ mpsc_tail' = mpsc_tail + 1
      /\ mpsc_next[mpsc_tail] = mpsc_tail + 1
  BY NodesAre DEF Linked, Chain, Mpsc!Pop, Mpsc!TypeOK
<1>2. mpsc_data \in Seq(Values) /\ Mpsc!head = Len(mpsc_data)
  BY <1>1 DEF Mpsc!TypeOK, Values, Mpsc!head
<1>3. Head(QueueOf) = mpsc_data[mpsc_tail + 1] /\ Tail(QueueOf) = SubSeq(mpsc_data,
          mpsc_tail + 2, Len(mpsc_data))
  <2>1. mpsc_tail + 1 \in 1 .. Len(mpsc_data)
            /\ Len(mpsc_data) \in mpsc_tail + 1 .. Len(mpsc_data)
    BY <1>1, <1>2
  <2>2. Tail(QueueOf) = SubSeq(mpsc_data, (mpsc_tail + 1) + 1, Len(mpsc_data))
            /\ Head(QueueOf) = mpsc_data[mpsc_tail + 1]
    BY <1>2, <2>1, HeadTailOfSubSeq DEF QueueOf
  <2>. QED  BY <1>1, <2>2
<1>4. QueueOf' = Tail(QueueOf)
  <2>1. mpsc_data' = mpsc_data /\ mpsc_tail' + 1 = mpsc_tail + 2
    BY <1>1 DEF Mpsc!Pop
  <2>. QED  BY <1>3, <2>1 DEF QueueOf
<1>5. QueueOf # <<>>
  BY <1>1, QueueElements
<1>6. TakenOf' = [TakenOf EXCEPT ![Consumer] = Append(@, Head(QueueOf))]
  <2>1. mpsc_taken' = Append(mpsc_taken, mpsc_data[mpsc_tail + 1])
    BY <1>1 DEF Mpsc!Pop
  <2>. QED  BY <1>3, <2>1 DEF TakenOf
<1>7. mpsc_accepted' = mpsc_accepted
  BY DEF Mpsc!Pop
<1>. QED  BY <1>4, <1>5, <1>6, <1>7 DEF Mpsc!Fifo!Pop, QueueOf, TakenOf

LEMMA OthersStutter ==
  ASSUME NEW p \in Producers, Mpsc!Push(p) \/ Mpsc!TryPush(p) \/ Mpsc!Reserve(p)
             \/ Mpsc!Link(p) \/ Mpsc!Count(p)
  PROVE  UNCHANGED Mpsc!Fifo!vars
<1>1. UNCHANGED <<mpsc_data, mpsc_tail, mpsc_accepted, mpsc_taken>>
  BY DEF Mpsc!Push, Mpsc!TryPush, Mpsc!Reserve, Mpsc!Link, Mpsc!Count, Mpsc!queueVars
<1>. QED  BY <1>1 DEF Mpsc!Fifo!vars

LEMMA FifoInit == Mpsc!Init => Mpsc!Fifo!Init /\ Allowed
<1>. SUFFICES ASSUME Mpsc!Init PROVE Mpsc!Fifo!Init /\ Allowed
  OBVIOUS
<1>1. SubSeq(mpsc_data, mpsc_tail + 1, Len(mpsc_data)) = <<>>
  BY SubSeqEmpty DEF Mpsc!Init
<1>. QED  BY <1>1 DEF Mpsc!Init, Mpsc!Fifo!Init, Allowed

LEMMA FifoNext ==
  Mpsc!MpscAssumption /\ Linked /\ Linked' /\ Allowed /\ [Mpsc!Next]_(Mpsc!vars)
      => [Mpsc!Fifo!Next]_(Mpsc!Fifo!vars)
<1>. SUFFICES ASSUME Mpsc!MpscAssumption, Linked, Linked', Allowed,
                         [Mpsc!Next]_(Mpsc!vars)
              PROVE  [Mpsc!Fifo!Next]_(Mpsc!Fifo!vars)
  OBVIOUS
<1>1. ASSUME NEW p \in Producers, Mpsc!Exchange(p) PROVE Mpsc!Fifo!Next
  BY <1>1, ExchangePushes DEF Mpsc!Fifo!Next
<1>2. CASE Mpsc!Pop
  BY <1>2, PopPops DEF Mpsc!Fifo!Next
<1>3. ASSUME NEW p \in Producers, Mpsc!Push(p) \/ Mpsc!TryPush(p) \/ Mpsc!Reserve(p)
                 \/ Mpsc!Link(p) \/ Mpsc!Count(p)
      PROVE  UNCHANGED Mpsc!Fifo!vars
  BY <1>3, OthersStutter
<1>4. CASE Mpsc!Uncount \/ UNCHANGED Mpsc!vars
  <2>1. UNCHANGED <<mpsc_data, mpsc_tail, mpsc_accepted, mpsc_taken>>
    BY <1>4 DEF Mpsc!Uncount, Mpsc!vars, Mpsc!queueVars
  <2>. QED  BY <2>1 DEF Mpsc!Fifo!vars
<1>. QED  BY <1>1, <1>2, <1>3, <1>4 DEF Mpsc!Next, Mpsc!Produce, Mpsc!Consume

\* The queue is a FIFO queue: a push takes effect at its exchange, a pop when
\* it moves tail_ (mpsc_queue.hpp:54-84).
THEOREM MpscFifo ==
  ASSUME Mpsc!MpscAssumption
  PROVE  Mpsc!Spec => Mpsc!ImplementsFifo
<1>1. Mpsc!Init => Linked /\ Allowed /\ Mpsc!Fifo!Init
  BY LinkedInit, FifoInit
<1>2. Linked /\ Allowed /\ [Mpsc!Next]_(Mpsc!vars) => Linked' /\ Allowed'
          /\ [Mpsc!Fifo!Next]_(Mpsc!Fifo!vars)
  BY LinkedNext, AllowedNext, FifoNext
<1>. QED  BY <1>1, <1>2, PTL DEF Mpsc!Spec, Mpsc!ImplementsFifo, Mpsc!Fifo!Spec

HIDE DEF Mpsc!None

MpscRight == Linked /\ Counters /\ Allowed

LEMMA MpscInit ==
  Mpsc!MpscAssumption /\ Mpsc!Init => MpscRight /\ Mpsc!Fifo!Init
BY LinkedInit, CountersInit, FifoInit DEF MpscRight

LEMMA MpscNext ==
  Mpsc!MpscAssumption /\ MpscRight /\ [Mpsc!Next]_(Mpsc!vars)
    => MpscRight' /\ [Mpsc!Fifo!Next]_(Mpsc!Fifo!vars)
BY LinkedNext, CountersNext, AllowedNext, FifoNext DEF MpscRight

LEMMA MpscRightSafe ==
  Mpsc!MpscAssumption /\ MpscRight => Mpsc!MpscSafe
BY SafeFromLinked DEF MpscRight

-----------------------------------------------------------------------------
(* The arena: its allocations stay apart, aligned and in place.            *)

\* align_up adds less than the alignment.
LEMMA AlignUpBounds ==
  ASSUME NEW n \in Nat, NEW k \in Nat \ {0}
  PROVE  Memory!AlignUp(n, k) \in Nat /\ Memory!AlignUp(n, k) >= n
<1>1. n % k \in 0 .. k - 1
  OBVIOUS
<1>2. (k - (n % k)) % k \in 0 .. k - 1
  BY <1>1
<1>. QED  BY <1>1, <1>2 DEF Memory!AlignUp

\* What align_up returns is a multiple of the alignment.
LEMMA AlignUpAligns ==
  ASSUME NEW n \in Nat, NEW k \in Nat \ {0}
  PROVE  Memory!AlignUp(n, k) % k = 0
<1>. DEFINE q == n \div k
            r == n % k
<1>1. q \in Nat /\ r \in 0 .. k - 1 /\ n = k * q + r
  OBVIOUS
<1>2. CASE r = 0
  <2>1. (k - r) % k = 0
    BY <1>2
  <2>. QED  BY <1>1, <1>2, <2>1 DEF Memory!AlignUp
<1>3. CASE r # 0
  <2>1. (k - r) % k = k - r
    BY <1>1, <1>3
  <2>2. Memory!AlignUp(n, k) = k * (q + 1)
    BY <1>1, <2>1 DEF Memory!AlignUp
  <2>3. (k * (q + 1)) % k = 0
    BY <1>1
  <2>. QED  BY <2>2, <2>3
<1>. QED  BY <1>2, <1>3

\* The size of a new block is one of the two that it is the larger of.
LEMMA NewBlockFits ==
  ASSUME Memory!ArenaAssumption, NEW n \in ArenaSizes
  PROVE  LET sz == Memory!Max({BlockSize, n + MaxAlignment}) IN sz \in Nat /\ n <= sz
<1>. USE DEF Memory!ArenaAssumption
<1>. DEFINE S == {BlockSize, n + MaxAlignment}
<1>1. PICK x \in S : \A y \in S : y <= x
  OBVIOUS
<1>2. Memory!Max(S) \in S /\ \A y \in S : y <= Memory!Max(S)
  BY <1>1 DEF Memory!Max
<1>. QED  BY <1>2

Placed == Memory!TypeOK /\ Memory!InsideItsBlock /\ Memory!Disjoint /\ Memory!Aligned

\* What holds of the allocations in use, before one more is made.
LEMMA OneMore ==
  ASSUME Memory!ArenaAssumption, Placed, NEW b \in Blocks, NEW n \in ArenaSizes,
             NEW k \in ArenaAlignments,
         NEW at \in Nat, at % k = 0,
         arena_live' = arena_live \union {Memory!Given(b, at, n, k)},
         arena_owner' \in [Blocks -> Arenas \union {NotMade, Freed}],
             arena_owner'[b] \in Arenas,
         arena_bsize' \in [Blocks -> Nat], arena_used' \in [Blocks -> Nat],
         arena_used'[b] = at + n, arena_used'[b] <= arena_bsize'[b],
         \A c \in Blocks \ {b} : arena_used'[c] = arena_used[c]
                                     /\ arena_bsize'[c] = arena_bsize[c]
                                     /\ arena_owner'[c] = arena_owner[c],
         \A l \in arena_live : l.block = b => l.at + l.len <= at,
         arena_bytes' \in [Arenas -> Nat], arena_capacity' \in [Arenas -> Nat]
  PROVE  Placed'
<1>. DEFINE new == Memory!Given(b, at, n, k)
<1>. USE DEF Memory!ArenaAssumption, Placed
<1>1. new \in [block : Blocks, at : Nat, len : ArenaSizes, align : ArenaAlignments]
  BY DEF Memory!Given
<1>2. Memory!TypeOK'
  BY <1>1 DEF Memory!TypeOK
<1>3. /\ new.block = b /\ new.at = at /\ new.len = n /\ new.align = k
  BY DEF Memory!Given
<1>4. \A l \in arena_live : l.block \in Blocks /\ l.at \in Nat /\ l.len \in Nat
  BY DEF Memory!TypeOK
<1>5. Memory!InsideItsBlock'
  <2>. SUFFICES ASSUME NEW l \in arena_live'
                PROVE  /\ arena_owner'[l.block] \in Arenas
                              /\ l.at + l.len <= arena_used'[l.block]
                       /\ arena_used'[l.block] <= arena_bsize'[l.block]
    BY DEF Memory!InsideItsBlock
  <2>1. CASE l = new
    BY <1>3, <2>1
  <2>2. CASE l \in arena_live /\ l.block = b
    BY <1>4, <2>2 DEF Memory!TypeOK
  <2>3. CASE l \in arena_live /\ l.block # b
    BY <1>4, <2>3 DEF Memory!InsideItsBlock
  <2>. QED  BY <2>1, <2>2, <2>3
<1>6. Memory!Disjoint'
  BY <1>3, <1>4 DEF Memory!Disjoint
<1>7. Memory!Aligned'
  BY <1>3 DEF Memory!Aligned
<1>. QED  BY <1>2, <1>5, <1>6, <1>7

LEMMA AllocateInBlockKeeps ==
  ASSUME Memory!ArenaAssumption, Placed, NEW a \in Arenas, NEW n \in ArenaSizes,
             NEW k \in ArenaAlignments,
         Memory!AllocateInBlock(a, n, k)
  PROVE  Placed'
<1>. USE DEF Memory!ArenaAssumption
<1>1. PICK b \in Memory!BlocksOf(a) :
        /\ Memory!Fits(b, n, k)
        /\ arena_live' = arena_live \union {Memory!Given(b, Memory!AlignUp(arena_used[b],
               k), n, k)}
        /\ arena_used' = [arena_used EXCEPT ![b] = Memory!AlignUp(arena_used[b], k) + n]
  BY DEF Memory!AllocateInBlock
<1>. DEFINE at == Memory!AlignUp(arena_used[b], k)
<1>2. b \in Blocks /\ arena_owner[b] = a /\ arena_used[b] \in Nat
  BY DEF Memory!BlocksOf, Placed, Memory!TypeOK
<1>3. at \in Nat /\ at >= arena_used[b] /\ at % k = 0
  BY <1>2, AlignUpBounds, AlignUpAligns
<1>4. arena_used' \in [Blocks -> Nat] /\ arena_used'[b] = at + n
  BY <1>1, <1>2, <1>3 DEF Placed, Memory!TypeOK
<1>5. \A l \in arena_live : l.block = b => l.at + l.len <= at
  <2>1. \A l \in arena_live : l.at \in Nat /\ l.len \in Nat
    BY DEF Placed, Memory!TypeOK
  <2>2. \A l \in arena_live : l.block = b => l.at + l.len <= arena_used[b]
    BY DEF Placed, Memory!InsideItsBlock
  <2>. HIDE DEF at
  <2>. QED  BY <1>2, <1>3, <2>1, <2>2
<1>6. arena_owner' = arena_owner /\ arena_bsize' = arena_bsize
          /\ arena_capacity' = arena_capacity
      /\ arena_bytes' \in [Arenas -> Nat]
  BY DEF Memory!AllocateInBlock, Placed, Memory!TypeOK
<1>7. arena_used'[b] <= arena_bsize[b]
  BY <1>1, <1>4 DEF Memory!Fits
<1>8. \A c \in Blocks \ {b} : arena_used'[c] = arena_used[c]
  BY <1>1, <1>2 DEF Placed, Memory!TypeOK
<1>. HIDE DEF at
<1>. QED
  BY <1>1, <1>2, <1>3, <1>4, <1>5, <1>6, <1>7, <1>8, OneMore DEF Placed, Memory!TypeOK, at

LEMMA AllocateNewBlockKeeps ==
  ASSUME Memory!ArenaAssumption, Placed, NEW a \in Arenas, NEW n \in ArenaSizes,
             NEW k \in ArenaAlignments,
         Memory!AllocateNewBlock(a, n, k)
  PROVE  Placed'
<1>. USE DEF Memory!ArenaAssumption
<1>. DEFINE sz == Memory!Max({BlockSize, n + MaxAlignment})
<1>1. PICK b \in Blocks :
        /\ arena_owner[b] = NotMade
        /\ arena_owner' = [arena_owner EXCEPT ![b] = a]
               /\ arena_bsize' = [arena_bsize EXCEPT ![b] = sz]
        /\ arena_capacity' = [arena_capacity EXCEPT ![a] = @ + sz]
        /\ arena_used' = [arena_used EXCEPT ![b] = n]
        /\ arena_live' = arena_live \union {Memory!Given(b, 0, n, k)}
  BY DEF Memory!AllocateNewBlock
<1>2. sz \in Nat /\ n <= sz
  BY NewBlockFits
<1>. HIDE DEF sz
<1>3. /\ arena_owner' \in [Blocks -> Arenas \union {NotMade, Freed}]
             /\ arena_owner'[b] = a
      /\ arena_bsize' \in [Blocks -> Nat] /\ arena_bsize'[b] = sz
      /\ arena_used' \in [Blocks -> Nat] /\ arena_used'[b] = n
  BY <1>1, <1>2 DEF Placed, Memory!TypeOK
<1>4. \A c \in Blocks \ {b} : arena_used'[c] = arena_used[c]
                                  /\ arena_bsize'[c] = arena_bsize[c]
                                  /\ arena_owner'[c] = arena_owner[c]
  BY <1>1 DEF Placed, Memory!TypeOK
<1>5. \A l \in arena_live : l.block # b
  BY <1>1 DEF Placed, Memory!InsideItsBlock
<1>6. arena_bytes' \in [Arenas -> Nat] /\ arena_capacity' \in [Arenas -> Nat]
  BY <1>1, <1>2 DEF Memory!AllocateNewBlock, Placed, Memory!TypeOK
<1>7. 0 % k = 0 /\ 0 + n = n
  OBVIOUS
<1>. QED  BY <1>1, <1>2, <1>3, <1>4, <1>5, <1>6, <1>7, OneMore

LEMMA ResetKeeps ==
  ASSUME Memory!ArenaAssumption, Placed, NEW a \in Arenas, Memory!Reset(a)
  PROVE  Placed'
<1>. USE DEF Memory!ArenaAssumption, Placed, Memory!Reset
<1>1. Memory!TypeOK'
  BY DEF Memory!TypeOK
<1>2. \A l \in arena_live' : l \in arena_live
                                 /\ arena_used'[l.block] = arena_used[l.block]
  BY DEF Memory!TypeOK
<1>3. Memory!InsideItsBlock'
  BY <1>2 DEF Memory!InsideItsBlock
<1>. QED  BY <1>1, <1>2, <1>3 DEF Memory!Disjoint, Memory!Aligned

LEMMA MoveAssignKeeps ==
  ASSUME Memory!ArenaAssumption, Placed, NEW a \in Arenas, NEW b \in Arenas \ {a},
             Memory!MoveAssign(a, b)
  PROVE  Placed'
<1>. USE DEF Memory!ArenaAssumption, Placed, Memory!MoveAssign
<1>1. Memory!TypeOK'
  BY DEF Memory!TypeOK
<1>2. \A l \in arena_live' : l \in arena_live /\ arena_owner[l.block] # a
                                 /\ l.block \in Blocks
  BY DEF Memory!TypeOK
<1>3. \A l \in arena_live' : arena_owner'[l.block] \in Arenas
  BY <1>2 DEF Memory!InsideItsBlock
<1>4. Memory!InsideItsBlock'
  BY <1>2, <1>3 DEF Memory!InsideItsBlock
<1>. QED  BY <1>1, <1>2, <1>4 DEF Memory!Disjoint, Memory!Aligned

LEMMA PlacedInit ==
  Memory!ArenaAssumption /\ Memory!Init => Placed
BY DEF Memory!ArenaAssumption, Memory!Init, Placed, Memory!TypeOK,
       Memory!InsideItsBlock, Memory!Disjoint, Memory!Aligned

LEMMA PlacedNext ==
  Memory!ArenaAssumption /\ Placed /\ [Memory!Next]_(Memory!vars) => Placed'
<1>. SUFFICES ASSUME Memory!ArenaAssumption, Placed, [Memory!Next]_(Memory!vars)
              PROVE  Placed'
  OBVIOUS
<1>1. ASSUME NEW a \in Arenas, Memory!Allocate(a) PROVE Placed'
  BY <1>1, AllocateInBlockKeeps, AllocateNewBlockKeeps DEF Memory!Allocate
<1>2. CASE UNCHANGED Memory!vars
  BY <1>2 DEF Memory!vars, Placed, Memory!TypeOK, Memory!InsideItsBlock,
              Memory!Disjoint, Memory!Aligned
<1>. QED  BY <1>1, <1>2, ResetKeeps, MoveAssignKeeps DEF Memory!Next

(* What the arena counts are the bytes of its allocations and blocks.      *)

Tally ==
  \A a \in Arenas :
    /\ IsFiniteSet(Memory!BytesGiven(a)) /\ IsFiniteSet(Memory!BytesOwned(a))
    /\ arena_bytes[a] = Cardinality(Memory!BytesGiven(a))
    /\ arena_capacity[a] = Cardinality(Memory!BytesOwned(a))

\* One allocation more, in a block of its arena and behind the others there.
LEMMA OneMoreGiven ==
  ASSUME Placed, Tally, NEW a \in Arenas, NEW b \in Blocks, NEW at \in Nat,
         NEW n \in Nat, NEW k, arena_live' = arena_live \union {Memory!Given(b, at, n,
             k)},
         arena_owner'[b] = a,
             \A l \in arena_live : arena_owner'[l.block] = arena_owner[l.block],
         \A l \in arena_live : l.block = b => l.at + l.len <= at,
         ArenaSizes \subseteq Nat
  PROVE  /\ \A c \in Arenas \ {a} : Memory!BytesGiven(c)' = Memory!BytesGiven(c)
         /\ IsFiniteSet(Memory!BytesGiven(a)')
         /\ Cardinality(Memory!BytesGiven(a)') = Cardinality(Memory!BytesGiven(a)) + n
<1>. DEFINE new == Memory!Given(b, at, n, k)
            bytes(l) == {l.block} \X (l.at .. l.at + l.len - 1)
<1>1. new.block = b /\ new.at = at /\ new.len = n
  BY DEF Memory!Given
<1>2. \A l \in arena_live : l.at \in Nat /\ l.len \in Nat
  BY DEF Placed, Memory!TypeOK
<1>3. Memory!OfArena(a)' = Memory!OfArena(a) \union {new}
  BY <1>1 DEF Memory!OfArena
<1>4. \A c \in Arenas \ {a} : Memory!OfArena(c)' = Memory!OfArena(c)
  BY <1>1 DEF Memory!OfArena
<1>5. Memory!BytesGiven(a) \intersect bytes(new) = {}
  <2>. SUFFICES ASSUME NEW l \in Memory!OfArena(a), NEW x \in bytes(l), x \in bytes(new)
                PROVE  FALSE
    BY DEF Memory!BytesGiven
  <2>1. l \in arena_live /\ l.block = b /\ x[2] \in l.at .. l.at + l.len - 1
            /\ x[2] \in at .. at + n - 1
    BY <1>1 DEF Memory!OfArena
  <2>2. l.at + l.len <= at /\ l.at \in Nat /\ l.len \in Nat
    BY <2>1, <1>2
  <2>. QED  BY <2>1, <2>2
<1>6. Memory!BytesGiven(a)' = Memory!BytesGiven(a) \union bytes(new)
  BY <1>3 DEF Memory!BytesGiven
<1>7. IsFiniteSet(bytes(new)) /\ Cardinality(bytes(new)) = n
  <2>1. bytes(new) = {b} \X (at .. at + n - 1)
    BY <1>1
  <2>. DEFINE j == at + n - 1
  <2>2. at \in Int /\ j \in Int /\ at <= j + 1 /\ j - at + 1 = n
    OBVIOUS
  <2>. DEFINE N == bytes(new)
  <2>3. N = {b} \X (at .. j)
    BY <2>1
  <2>. HIDE DEF N, j
  <2>4. IsFiniteSet(N) /\ Cardinality(N) = n
    BY <2>2, <2>3, BytesOf
  <2>. QED  BY <2>4 DEF N
<1>8. \A c \in Arenas \ {a} : Memory!BytesGiven(c)' = Memory!BytesGiven(c)
  BY <1>4 DEF Memory!BytesGiven
<1>. DEFINE G == Memory!BytesGiven(a)
            N == bytes(new)
<1>9. IsFiniteSet(G)
  BY DEF Tally
<1>10. IsFiniteSet(G \union N)
           /\ Cardinality(G \union N) = Cardinality(G) + Cardinality(N)
  <2>. HIDE DEF G, N
  <2>1. G \intersect N = {} /\ IsFiniteSet(N)
    BY <1>5, <1>7 DEF G, N
  <2>. QED  BY <1>9, <2>1, ApartCount
<1>. HIDE DEF bytes, new
<1>. QED  BY <1>6, <1>7, <1>8, <1>10

LEMMA AllocateInBlockCounts ==
  ASSUME Memory!ArenaAssumption, Placed, Tally,
         NEW a \in Arenas, NEW n \in ArenaSizes, NEW k \in ArenaAlignments,
         Memory!AllocateInBlock(a, n, k)
  PROVE  Tally'
<1>. USE DEF Memory!ArenaAssumption
<1>1. PICK b \in Memory!BlocksOf(a) :
        arena_live' = arena_live \union
                        {Memory!Given(b, Memory!AlignUp(arena_used[b], k), n, k)}
  BY DEF Memory!AllocateInBlock
<1>. DEFINE at == Memory!AlignUp(arena_used[b], k)
<1>2. b \in Blocks /\ arena_owner[b] = a /\ arena_used[b] \in Nat
  BY DEF Memory!BlocksOf, Placed, Memory!TypeOK
<1>3. at \in Nat /\ at >= arena_used[b]
  BY <1>2, AlignUpBounds
<1>4. \A l \in arena_live : l.block = b => l.at + l.len <= at
  <2>1. \A l \in arena_live : l.at \in Nat /\ l.len \in Nat
    BY DEF Placed, Memory!TypeOK
  <2>2. \A l \in arena_live : l.block = b => l.at + l.len <= arena_used[b]
    BY DEF Placed, Memory!InsideItsBlock
  <2>. HIDE DEF at
  <2>. QED  BY <1>2, <1>3, <2>1, <2>2
<1>5. /\ UNCHANGED <<arena_owner, arena_bsize, arena_capacity>>
      /\ arena_bytes' = [arena_bytes EXCEPT ![a] = @ + n]
      /\ arena_bytes \in [Arenas -> Nat]
  BY DEF Memory!AllocateInBlock, Placed, Memory!TypeOK
<1>6. /\ \A c \in Arenas \ {a} : Memory!BytesGiven(c)' = Memory!BytesGiven(c)
      /\ IsFiniteSet(Memory!BytesGiven(a)')
      /\ Cardinality(Memory!BytesGiven(a)') = Cardinality(Memory!BytesGiven(a)) + n
  <2>1. arena_live' = arena_live \union {Memory!Given(b, at, n, k)}
    BY <1>1
  <2>2. b \in Blocks /\ at \in Nat /\ n \in Nat /\ ArenaSizes \subseteq Nat
    BY <1>2, <1>3
  <2>3. arena_owner'[b] = a
    BY <1>2, <1>5
  <2>4. \A l \in arena_live : arena_owner'[l.block] = arena_owner[l.block]
    BY <1>5
  <2>. HIDE DEF at
  <2>. QED  BY <1>4, <2>1, <2>2, <2>3, <2>4, OneMoreGiven
<1>7. \A c \in Arenas : Memory!BytesOwned(c)' = Memory!BytesOwned(c)
  BY <1>5 DEF Memory!BytesOwned, Memory!BlocksOf
<1>. QED  BY <1>5, <1>6, <1>7 DEF Tally

LEMMA AllocateNewBlockCounts ==
  ASSUME Memory!ArenaAssumption, Placed, Tally,
         NEW a \in Arenas, NEW n \in ArenaSizes, NEW k \in ArenaAlignments,
         Memory!AllocateNewBlock(a, n, k)
  PROVE  Tally'
<1>. USE DEF Memory!ArenaAssumption
<1>. DEFINE sz == Memory!Max({BlockSize, n + MaxAlignment})
<1>1. PICK b \in Blocks :
        /\ arena_owner[b] = NotMade
        /\ arena_owner' = [arena_owner EXCEPT ![b] = a]
        /\ arena_bsize' = [arena_bsize EXCEPT ![b] = sz]
        /\ arena_capacity' = [arena_capacity EXCEPT ![a] = @ + sz]
        /\ arena_live' = arena_live \union {Memory!Given(b, 0, n, k)}
  BY DEF Memory!AllocateNewBlock
<1>2. sz \in Nat /\ n \in Nat
  BY NewBlockFits
<1>. HIDE DEF sz
<1>3. /\ arena_owner'[b] = a /\ arena_bsize'[b] = sz
      /\ \A c \in Blocks \ {b} : arena_owner'[c] = arena_owner[c]
                                     /\ arena_bsize'[c] = arena_bsize[c]
  BY <1>1 DEF Placed, Memory!TypeOK
<1>4. \A l \in arena_live : l.block \in Blocks \ {b}
  BY <1>1 DEF Placed, Memory!InsideItsBlock, Memory!TypeOK
<1>5. /\ \A c \in Arenas \ {a} : Memory!BytesGiven(c)' = Memory!BytesGiven(c)
      /\ IsFiniteSet(Memory!BytesGiven(a)')
      /\ Cardinality(Memory!BytesGiven(a)') = Cardinality(Memory!BytesGiven(a)) + n
  BY <1>1, <1>2, <1>3, <1>4, OneMoreGiven
<1>6. /\ Memory!BlocksOf(a)' = Memory!BlocksOf(a) \union {b}
             /\ b \notin Memory!BlocksOf(a)
      /\ \A c \in Arenas \ {a} : Memory!BlocksOf(c)' = Memory!BlocksOf(c)
                                     /\ b \notin Memory!BlocksOf(c)
  BY <1>1, <1>3 DEF Memory!BlocksOf
<1>7. \A c \in Arenas \ {a} : Memory!BytesOwned(c)' = Memory!BytesOwned(c)
  BY <1>3, <1>6 DEF Memory!BytesOwned, Memory!BlocksOf
<1>. DEFINE N == {b} \X (0 .. sz - 1)
<1>8. Memory!BytesOwned(a)' = Memory!BytesOwned(a) \union N
  <2>1. \A c \in Memory!BlocksOf(a) : c \in Blocks \ {b}
    BY <1>6 DEF Memory!BlocksOf
  <2>. DEFINE Own(c) == {c} \X (0 .. arena_bsize[c] - 1)
  <2>3. \A c \in Memory!BlocksOf(a) : Own(c)' = Own(c)
    BY <1>3, <2>1
  <2>4. Own(b)' = N
    BY <1>3
  <2>5. \A x : x \in Memory!BytesOwned(a) <=> \E c \in Memory!BlocksOf(a) : x \in Own(c)
    BY DEF Memory!BytesOwned
  <2>6. \A x : x \in Memory!BytesOwned(a)' <=> \E c \in Memory!BlocksOf(a)' : x \in Own(c)'
    BY DEF Memory!BytesOwned
  <2>. HIDE DEF Own, N
  <2>. QED  BY <1>6, <2>3, <2>4, <2>5, <2>6
<1>9. Memory!BytesOwned(a) \intersect N = {}
  BY <1>6 DEF Memory!BytesOwned
<1>10. IsFiniteSet(N) /\ Cardinality(N) = sz
  <2>. DEFINE j == sz - 1
  <2>1. 0 \in Int /\ j \in Int /\ 0 <= j + 1 /\ j - 0 + 1 = sz
    BY <1>2
  <2>. HIDE DEF j
  <2>2. N = {b} \X (0 .. j)
    BY DEF j
  <2>. HIDE DEF N
  <2>. QED  BY <2>1, <2>2, BytesOf
<1>11. /\ IsFiniteSet(Memory!BytesOwned(a)')
       /\ Cardinality(Memory!BytesOwned(a)') = Cardinality(Memory!BytesOwned(a)) + sz
  <2>. HIDE DEF N
  <2>. QED  BY <1>8, <1>9, <1>10, ApartCount DEF Tally
<1>12. /\ arena_bytes' = [arena_bytes EXCEPT ![a] = @ + n]
       /\ arena_bytes \in [Arenas -> Nat] /\ arena_capacity \in [Arenas -> Nat]
  BY DEF Memory!AllocateNewBlock, Placed, Memory!TypeOK
<1>. QED  BY <1>1, <1>5, <1>7, <1>11, <1>12 DEF Tally

LEMMA ResetCounts ==
  ASSUME Placed, Tally, NEW a \in Arenas, Memory!Reset(a)
  PROVE  Tally'
<1>1. /\ arena_owner' = arena_owner /\ arena_bsize' = arena_bsize
      /\ arena_capacity' = arena_capacity /\ arena_bytes' = [arena_bytes EXCEPT ![a] = 0]
      /\ arena_live' = {l \in arena_live : arena_owner[l.block] # a}
      /\ arena_bytes \in [Arenas -> Nat]
  BY DEF Memory!Reset, Placed, Memory!TypeOK
<1>2. Memory!OfArena(a)' = {}
          /\ \A c \in Arenas \ {a} : Memory!OfArena(c)' = Memory!OfArena(c)
  BY <1>1 DEF Memory!OfArena
<1>3. Memory!BytesGiven(a)' = {}
  BY <1>2 DEF Memory!BytesGiven
<1>4. \A c \in Arenas \ {a} : Memory!BytesGiven(c)' = Memory!BytesGiven(c)
  BY <1>2 DEF Memory!BytesGiven
<1>5. \A c \in Arenas : Memory!BytesOwned(c)' = Memory!BytesOwned(c)
  BY <1>1 DEF Memory!BytesOwned, Memory!BlocksOf
<1>. QED  BY <1>1, <1>3, <1>4, <1>5, FS_EmptySet DEF Tally

LEMMA MoveAssignCounts ==
  ASSUME Memory!ArenaAssumption, Placed, Tally,
         NEW a \in Arenas, NEW b \in Arenas \ {a}, Memory!MoveAssign(a, b)
  PROVE  Tally'
<1>. USE DEF Memory!ArenaAssumption
<1>1. /\ \A c \in Blocks : arena_owner'[c] = IF arena_owner[c] = a THEN Freed
                                             ELSE IF arena_owner[c] = b THEN a ELSE arena_owner[c]
      /\ arena_bsize' = arena_bsize
      /\ arena_live' = {l \in arena_live : arena_owner[l.block] # a}
      /\ arena_bytes' = [arena_bytes EXCEPT ![a] = arena_bytes[b], ![b] = 0]
      /\ arena_capacity' = [arena_capacity EXCEPT ![a] = arena_capacity[b], ![b] = 0]
      /\ arena_bytes \in [Arenas -> Nat] /\ arena_capacity \in [Arenas -> Nat]
  BY DEF Memory!MoveAssign, Placed, Memory!TypeOK
<1>2. \A l \in arena_live : l.block \in Blocks
  BY DEF Placed, Memory!TypeOK
<1>3. /\ Memory!OfArena(a)' = Memory!OfArena(b) /\ Memory!OfArena(b)' = {}
      /\ \A c \in Arenas \ {a, b} : Memory!OfArena(c)' = Memory!OfArena(c)
  BY <1>1, <1>2 DEF Memory!OfArena
<1>4. /\ Memory!BlocksOf(a)' = Memory!BlocksOf(b) /\ Memory!BlocksOf(b)' = {}
      /\ \A c \in Arenas \ {a, b} : Memory!BlocksOf(c)' = Memory!BlocksOf(c)
  BY <1>1 DEF Memory!BlocksOf
<1>5. /\ Memory!BytesGiven(a)' = Memory!BytesGiven(b) /\ Memory!BytesGiven(b)' = {}
      /\ \A c \in Arenas \ {a, b} : Memory!BytesGiven(c)' = Memory!BytesGiven(c)
  BY <1>3 DEF Memory!BytesGiven
<1>6. /\ Memory!BytesOwned(a)' = Memory!BytesOwned(b) /\ Memory!BytesOwned(b)' = {}
      /\ \A c \in Arenas \ {a, b} : Memory!BytesOwned(c)' = Memory!BytesOwned(c)
  BY <1>1, <1>4 DEF Memory!BytesOwned
<1>. QED  BY ZenonT(30), <1>1, <1>5, <1>6, FS_EmptySet DEF Tally

LEMMA TallyInit ==
  Memory!ArenaAssumption /\ Memory!Init => Tally
<1>. SUFFICES ASSUME Memory!ArenaAssumption, Memory!Init, NEW a \in Arenas
              PROVE  /\ Memory!BytesGiven(a) = {} /\ Memory!BytesOwned(a) = {}
                     /\ arena_bytes[a] = 0 /\ arena_capacity[a] = 0
  BY FS_EmptySet DEF Tally
<1>1. Memory!OfArena(a) = {} /\ Memory!BlocksOf(a) = {}
  BY DEF Memory!Init, Memory!OfArena, Memory!BlocksOf, Memory!ArenaAssumption
<1>. QED  BY <1>1 DEF Memory!BytesGiven, Memory!BytesOwned, Memory!Init

LEMMA TallyNext ==
  Memory!ArenaAssumption /\ Placed /\ Tally /\ [Memory!Next]_(Memory!vars) => Tally'
<1>. SUFFICES ASSUME Memory!ArenaAssumption, Placed, Tally, [Memory!Next]_(Memory!vars)
              PROVE  Tally'
  OBVIOUS
<1>1. ASSUME NEW a \in Arenas, Memory!Allocate(a) PROVE Tally'
  BY <1>1, AllocateInBlockCounts, AllocateNewBlockCounts DEF Memory!Allocate
<1>2. CASE UNCHANGED Memory!vars
  <2>1. UNCHANGED <<arena_owner, arena_bsize, arena_live, arena_bytes, arena_capacity>>
    BY <1>2 DEF Memory!vars
  <2>2. \A a : Memory!BytesGiven(a)' = Memory!BytesGiven(a)
    BY <2>1 DEF Memory!BytesGiven, Memory!OfArena
  <2>3. \A a : Memory!BytesOwned(a)' = Memory!BytesOwned(a)
    BY <2>1 DEF Memory!BytesOwned, Memory!BlocksOf
  <2>. QED  BY <2>1, <2>2, <2>3 DEF Tally
<1>. QED  BY <1>1, <1>2, ResetCounts, MoveAssignCounts DEF Memory!Next

-----------------------------------------------------------------------------
(* Sequences and streams of bytes.                                         *)

\* A function over the first numbers is a sequence.
LEMMA FunctionIsSeq ==
  ASSUME NEW n \in Nat, NEW f \in [1 .. n -> Nat]
  PROVE  f \in Seq(Nat) /\ Len(f) = n
BY SeqDef

\* One that begins as s and goes on as t is their concatenation.
LEMMA JoinedIs ==
  ASSUME NEW s \in Seq(Nat), NEW t \in Seq(Nat), NEW u \in Seq(Nat),
         Len(u) = Len(s) + Len(t),
         \A i \in 1 .. Len(s) : u[i] = s[i], \A i \in 1 .. Len(t) : u[Len(s) + i] = t[i]
  PROVE  u = s \o t
<1>. DEFINE v == s \o t
            m == Len(s)
            n == Len(t)
            k == Len(u)
<1>1. m \in Nat /\ n \in Nat /\ k \in Nat /\ k = m + n
  OBVIOUS
<1>2. /\ v \in Seq(Nat) /\ Len(v) = k
      /\ \A i \in 1 .. k : v[i] = IF i <= m THEN s[i] ELSE t[i - m]
  BY ConcatProperties
<1>3. \A i \in 1 .. m : u[i] = s[i]
  OBVIOUS
<1>4. \A i \in 1 .. n : u[m + i] = t[i]
  OBVIOUS
<1>5. Len(u) = k
  OBVIOUS
<1>. HIDE DEF m, n, k, v
<1>6. ASSUME NEW i \in 1 .. k PROVE u[i] = v[i]
  <2>1. i \in Int /\ 1 <= i /\ i <= k
    BY <1>1
  <2>2. v[i] = IF i <= m THEN s[i] ELSE t[i - m]
    BY <1>2
  <2>3. CASE i <= m
    <3>1. i \in 1 .. m
      BY <1>1, <2>1, <2>3
    <3>. QED  BY <1>3, <2>2, <2>3, <3>1
  <2>4. CASE ~(i <= m)
    <3>. DEFINE j == i - m
    <3>1. j \in 1 .. n /\ m + j = i
      BY <1>1, <2>1, <2>4
    <3>2. v[i] = t[j]
      BY <2>2, <2>4
    <3>. HIDE DEF j
    <3>3. u[m + j] = t[j]
      BY <1>4, <3>1
    <3>. QED  BY <3>1, <3>2, <3>3
  <2>. QED  BY <2>3, <2>4
<1>7. u = v
  BY <1>1, <1>2, <1>5, <1>6, SeqEqual
<1>. QED  BY <1>7 DEF v

\* One that is s from behind the k-th on is a part of s.
LEMMA RestIs ==
  ASSUME NEW m \in Nat, NEW k \in 0 .. m, NEW s \in [1 .. m -> Nat],
         NEW l \in Nat, l = m - k, NEW u \in [1 .. l -> Nat],
         \A i \in 1 .. l : u[i] = s[k + i]
  PROVE  Len(s) = m /\ u = SubSeq(s, k + 1, Len(s))
<1>1. s \in Seq(Nat) /\ Len(s) = m /\ u \in Seq(Nat) /\ Len(u) = l
  BY FunctionIsSeq
<1>. DEFINE v == SubSeq(s, k + 1, m)
<1>2. /\ v \in Seq(Nat) /\ Len(v) = IF k + 1 <= m THEN m - (k + 1) + 1 ELSE 0
      /\ \A i \in 1 .. m - (k + 1) + 1 : v[i] = s[(k + 1) + i - 1]
  BY SubSeqProperties
<1>3. Len(v) = Len(u)
  BY <1>1, <1>2
<1>4. ASSUME NEW i \in 1 .. Len(u) PROVE u[i] = v[i]
  <2>1. i \in 1 .. m - (k + 1) + 1 /\ (k + 1) + i - 1 = k + i /\ i \in 1 .. l
    BY <1>1
  <2>. QED  BY <1>2, <2>1
<1>5. u = v
  <2>. HIDE DEF v
  <2>. QED  BY <1>1, <1>2, <1>3, <1>4, SeqEqual
<1>. QED  BY <1>1, <1>5

-----------------------------------------------------------------------------
(* io_buffer: what moves the bytes keeps them.                             *)

\* A storage of cap bytes, with positions in it.
Storage(b, cap) ==
  /\ b \in [data : [0 .. cap - 1 -> Nat], read : 0 .. cap, write : 0 .. cap]
  /\ b.read <= b.write

LEMMA StorageParts ==
  ASSUME NEW b, NEW cap \in Nat, Storage(b, cap)
  PROVE  /\ Io!capacity(b) = cap /\ DOMAIN b.data = 0 .. cap - 1
         /\ b.data \in [0 .. cap - 1 -> Nat] /\ b.read \in Nat /\ b.write \in Nat
         /\ b.read <= b.write /\ b.write <= cap
         /\ Io!size(b) = b.write - b.read /\ Io!size(b) \in 0 .. cap
         /\ Io!Unread(b) \in [1 .. Io!size(b) -> Nat]
         /\ \A i \in 1 .. Io!size(b) : Io!Unread(b)[i] = b.data[b.read + i - 1]
<1>1. /\ DOMAIN b.data = 0 .. cap - 1 /\ b.data \in [0 .. cap - 1 -> Nat]
      /\ b.read \in Nat /\ b.write \in Nat /\ b.read <= b.write /\ b.write <= cap
  BY DEF Storage
<1>2. Io!capacity(b) = cap
  <2>. DEFINE D == DOMAIN b.data
  <2>1. D = 0 .. cap - 1
    BY <1>1
  <2>. HIDE DEF D
  <2>2. Cardinality(D) = cap
    BY <2>1, CountFromZero
  <2>. QED  BY <2>2, SameCount DEF Io!capacity, D
<1>3. Io!size(b) = b.write - b.read /\ Io!size(b) \in 0 .. cap
  BY <1>1 DEF Io!size
<1>4. \A i \in 1 .. Io!size(b) : b.read + i - 1 \in 0 .. cap - 1
  BY <1>1, <1>3
<1>. QED  BY <1>1, <1>2, <1>3, <1>4 DEF Io!Unread

\* Two storages with as many unread bytes, each the same, hold the same.
LEMMA SameUnread ==
  ASSUME NEW b, NEW cap \in Nat, Storage(b, cap), NEW c, NEW lim \in Nat, Storage(c, lim),
         Io!size(c) = Io!size(b),
         \A i \in 0 .. Io!size(b) - 1 : c.data[c.read + i] = b.data[b.read + i]
  PROVE  Io!Unread(c) = Io!Unread(b)
<1>1. ASSUME NEW i \in 1 .. Io!size(b)
      PROVE  c.data[c.read + i - 1] = b.data[b.read + i - 1]
  <2>1. i - 1 \in 0 .. Io!size(b) - 1 /\ c.read + (i - 1) = c.read + i - 1
        /\ b.read + (i - 1) = b.read + i - 1
    BY StorageParts
  <2>. QED  BY <2>1
<1>. QED  BY <1>1 DEF Io!Unread

LEMMA CompactedKeeps ==
  ASSUME NEW b, NEW cap \in Nat, Storage(b, cap)
  PROVE  /\ Storage(Io!Compacted(b), cap) /\ Io!Compacted(b).write <= b.write
         /\ Io!Unread(Io!Compacted(b)) = Io!Unread(b)
<1>0. /\ DOMAIN b.data = 0 .. cap - 1 /\ b.data \in [0 .. cap - 1 -> Nat]
      /\ b.read \in Nat /\ b.write \in Nat /\ b.read <= b.write /\ b.write <= cap
      /\ Io!size(b) = b.write - b.read /\ Io!size(b) \in 0 .. cap
  BY StorageParts
<1>. DEFINE c == Io!Compacted(b)
            moves == b.read >= CompactThreshold /\ b.read > Io!size(b)
<1>1. CASE ~moves
  <2>1. c = b
    BY <1>1 DEF Io!Compacted
  <2>. QED  BY <2>1, <1>0
<1>2. CASE moves
  <2>1. /\ c.data = [i \in 0 .. cap - 1 |-> IF i < Io!size(b) THEN b.data[b.read + i] ELSE b.data[i]]
        /\ c.read = 0 /\ c.write = Io!size(b)
        /\ c = [data |-> c.data, read |-> c.read, write |-> c.write]
    BY <1>2, <1>0 DEF Io!Compacted
  <2>2. \A i \in 0 .. Io!size(b) - 1 : b.read + i \in 0 .. cap - 1
    BY <1>0
  <2>3. c.data \in [0 .. cap - 1 -> Nat]
    BY SMTT(20), <2>1, <2>2, <1>0
  <2>. HIDE DEF c
  <2>4. Storage(c, cap) /\ c.write <= b.write
    BY <2>1, <2>3, <1>0 DEF Storage
  <2>5. Io!size(c) = Io!size(b)
    BY <2>1, <1>0 DEF Io!size
  <2>6. \A i \in 0 .. Io!size(b) - 1 : c.data[c.read + i] = b.data[b.read + i]
    BY <2>1, <1>0
  <2>7. Io!Unread(c) = Io!Unread(b)
    BY <2>4, <2>5, <2>6, SameUnread
  <2>. QED  BY <2>4, <2>7 DEF c
<1>. QED  BY <1>1, <1>2

LEMMA CopiedKeeps ==
  ASSUME NEW b, NEW cap \in Nat, Storage(b, cap), NEW lim \in Nat, Io!size(b) <= lim
  PROVE  /\ Storage(Io!Copied(b, lim), lim) /\ Io!Copied(b, lim).write = Io!size(b)
         /\ Io!Unread(Io!Copied(b, lim)) = Io!Unread(b)
<1>0. /\ DOMAIN b.data = 0 .. cap - 1 /\ b.data \in [0 .. cap - 1 -> Nat]
      /\ b.read \in Nat /\ b.write \in Nat /\ b.read <= b.write /\ b.write <= cap
      /\ Io!size(b) = b.write - b.read /\ Io!size(b) \in 0 .. cap
  BY StorageParts
<1>. DEFINE c == Io!Copied(b, lim)
<1>1. /\ c.data = [i \in 0 .. lim - 1 |-> IF i < Io!size(b) THEN b.data[b.read + i] ELSE 0]
      /\ c.read = 0 /\ c.write = Io!size(b)
      /\ c = [data |-> c.data, read |-> c.read, write |-> c.write]
  BY DEF Io!Copied, Io!Garbage
<1>2. \A i \in 0 .. Io!size(b) - 1 : b.read + i \in 0 .. cap - 1
  BY SMTT(20), <1>0
<1>3. c.data \in [0 .. lim - 1 -> Nat]
  BY <1>1, <1>2, <1>0
<1>. HIDE DEF c
<1>4. Storage(c, lim)
  <2>1. c.read \in 0 .. lim /\ c.write \in 0 .. lim /\ c.read <= c.write
    BY <1>1, <1>0
  <2>. QED  BY <1>1, <1>3, <2>1 DEF Storage
<1>5. Io!size(c) = Io!size(b)
  BY <1>1, <1>0 DEF Io!size
<1>6. \A i \in 0 .. Io!size(b) - 1 : c.data[c.read + i] = b.data[b.read + i]
  BY <1>1, <1>0
<1>7. Io!Unread(c) = Io!Unread(b)
  BY <1>4, <1>5, <1>6, SameUnread
<1>. QED  BY <1>1, <1>4, <1>7 DEF c

\* The larger of two numbers, and the smaller.
LEMMA LargerOf ==
  ASSUME NEW x \in Int, NEW y \in Int
  PROVE  Io!Max({x, y}) \in {x, y} /\ Io!Max({x, y}) >= x /\ Io!Max({x, y}) >= y
<1>. DEFINE S == {x, y}
<1>1. PICK z \in S : \A w \in S : w <= z
  OBVIOUS
<1>2. Io!Max(S) \in S /\ \A w \in S : w <= Io!Max(S)
  BY <1>1 DEF Io!Max
<1>. QED  BY <1>2

LEMMA SmallerOf ==
  ASSUME NEW x \in Int, NEW y \in Int
  PROVE  Io!Min({x, y}) = IF x <= y THEN x ELSE y
<1>. DEFINE S == {x, y}
<1>1. PICK z \in S : \A w \in S : z <= w
  OBVIOUS
<1>2. Io!Min(S) \in S /\ \A w \in S : Io!Min(S) <= w
  BY <1>1 DEF Io!Min
<1>. QED  BY <1>2

LEMMA EnsureWritableKeeps ==
  ASSUME NEW b, NEW cap \in Nat, Storage(b, cap), NEW n \in Nat
  PROVE  \E lim \in Nat :
           /\ Storage(Io!EnsureWritable(b, n), lim) /\ lim - Io!EnsureWritable(b,
                  n).write >= n
           /\ Io!Unread(Io!EnsureWritable(b, n)) = Io!Unread(b)
<1>. DEFINE c == Io!Compacted(b)
            lim == Io!Max({2 * Io!capacity(c), c.write + n})
<1>0. Io!capacity(b) = cap /\ b.write \in Nat
  BY StorageParts
<1>1. CASE cap - b.write >= n
  BY <1>0, <1>1 DEF Io!EnsureWritable
<1>2. Storage(c, cap) /\ Io!Unread(c) = Io!Unread(b)
  BY CompactedKeeps
<1>3. Io!capacity(c) = cap /\ c.write \in Nat
  BY <1>2, StorageParts
<1>4. CASE ~(cap - b.write >= n) /\ cap - c.write >= n
  BY <1>0, <1>2, <1>3, <1>4 DEF Io!EnsureWritable
<1>5. CASE ~(cap - b.write >= n) /\ ~(cap - c.write >= n)
  <2>1. Io!EnsureWritable(b, n) = Io!Copied(c, lim)
    BY <1>0, <1>3, <1>5 DEF Io!EnsureWritable
  <2>2. lim \in Nat /\ lim >= c.write + n
    <3>. DEFINE x == 2 * Io!capacity(c)
                y == c.write + n
    <3>1. x \in Nat /\ y \in Nat
      BY <1>3
    <3>. HIDE DEF x, y
    <3>2. Io!Max({x, y}) \in {x, y} /\ Io!Max({x, y}) >= y
      BY <3>1, LargerOf
    <3>. QED  BY <3>1, <3>2 DEF x, y
  <2>. HIDE DEF lim, c
  <2>3. Io!size(c) \in Nat /\ Io!size(c) <= c.write /\ Io!size(c) <= lim
    <3>1. Io!size(c) \in 0 .. cap /\ Io!size(c) = c.write - c.read /\ c.read \in Nat
      BY <1>2, StorageParts
    <3>. QED  BY <1>3, <2>2, <3>1
  <2>4. /\ Storage(Io!Copied(c, lim), lim) /\ Io!Copied(c, lim).write = Io!size(c)
        /\ Io!Unread(Io!Copied(c, lim)) = Io!Unread(c)
    BY <1>2, <2>2, <2>3, CopiedKeeps
  <2>5. lim - Io!size(c) >= n
    BY <1>3, <2>2, <2>3
  <2>. QED  BY <1>2, <2>1, <2>2, <2>4, <2>5
<1>. QED  BY <1>1, <1>4, <1>5

-----------------------------------------------------------------------------
(* io_buffer: each operation is one of a stream of bytes.                  *)

\* The bytes that follow those held are put behind them.
Longer(b, n) == [Io!Filled(b, n) EXCEPT !.write = @ + n]

LEMMA FilledAppends ==
  ASSUME NEW b, NEW cap \in Nat, Storage(b, cap), NEW n \in Nat, cap - b.write >= n,
         io_written \in Nat
  PROVE  /\ Storage(Longer(b, n), cap)
         /\ Io!Unread(Longer(b, n)) = Io!Unread(b) \o Io!Stream!Fresh(n)
<1>. DEFINE c == Longer(b, n)
            R == b.read
            W == b.write
            D == b.data
            E == c.data
            m == Io!size(b)
            k == Io!size(c)
            u == Io!Unread(c)
            s == Io!Unread(b)
            t == Io!Stream!Fresh(n)
<1>0. /\ DOMAIN D = 0 .. cap - 1 /\ D \in [0 .. cap - 1 -> Nat]
      /\ R \in Nat /\ W \in Nat /\ R <= W /\ W + n <= cap
      /\ m = W - R /\ m \in Nat
      /\ s \in [1 .. m -> Nat]
      /\ \A i \in 1 .. m : s[i] = D[R + i - 1]
  BY StorageParts
<1>1. /\ E = [i \in 0 .. cap - 1 |-> IF i \in W .. W + n - 1
                                      THEN io_written + i - W + 1 ELSE D[i]]
      /\ c.read = R /\ c.write = W + n
      /\ c = [data |-> c.data, read |-> c.read, write |-> c.write]
  <2>1. b = [data |-> b.data, read |-> b.read, write |-> b.write]
    BY DEF Storage
  <2>. DEFINE F == [i \in 0 .. cap - 1 |-> IF i \in W .. W + n - 1
                                          THEN io_written + i - W + 1 ELSE D[i]]
  <2>2. Io!Filled(b, n) = [data |-> F, read |-> R, write |-> W]
    <3>1. Io!Filled(b, n) = [b EXCEPT !.data = F]
      BY <1>0 DEF Io!Filled
    <3>. HIDE DEF F
    <3>. QED  BY <2>1, <3>1
  <2>. HIDE DEF F, R, W, D
  <2>3. c = [data |-> F, read |-> R, write |-> W + n]
    BY <2>2 DEF Longer
  <2>. QED  BY <2>3 DEF F
<1>2. E \in [0 .. cap - 1 -> Nat]
  <2>. HIDE DEF R, W, D, E
  <2>1. ASSUME NEW i \in 0 .. cap - 1
        PROVE  (IF i \in W .. W + n - 1 THEN io_written + i - W + 1 ELSE D[i]) \in Nat
    <3>1. CASE i \in W .. W + n - 1
      BY <1>0, <3>1
    <3>2. CASE ~(i \in W .. W + n - 1)
      BY <1>0, <3>2
    <3>. QED  BY <3>1, <3>2
  <2>. QED  BY <1>1, <2>1
<1>3. Storage(c, cap)
  <2>1. c.read \in 0 .. cap /\ c.write \in 0 .. cap /\ c.read <= c.write
    <3>. HIDE DEF R, W, D, E
    <3>. QED  BY <1>0, <1>1
  <2>. QED  BY <1>1, <1>2, <2>1 DEF Storage
<1>4. /\ k = m + n
      /\ u \in [1 .. k -> Nat]
      /\ \A i \in 1 .. k : u[i] = E[R + i - 1]
  <2>1. /\ k = c.write - c.read
        /\ u \in [1 .. k -> Nat]
        /\ \A i \in 1 .. k : u[i] = E[c.read + i - 1]
    BY <1>3, StorageParts
  <2>. HIDE DEF R, W, D, E, m, k, u
  <2>2. k = m + n
    BY <2>1, <1>0, <1>1
  <2>. QED  BY <2>1, <2>2, <1>1
<1>5. t \in [1 .. n -> Nat] /\ \A i \in 1 .. n : t[i] = io_written + i
  BY DEF Io!Stream!Fresh
<1>. HIDE DEF c, R, W, D, E, m, k, u, s, t
<1>00. R \in Int /\ W \in Int /\ m \in Int /\ k \in Int /\ m = W - R /\ k = m + n
           /\ W + n <= cap /\ R <= W
  BY <1>0, <1>4
<1>6. ASSUME NEW i \in 1 .. m PROVE u[i] = s[i]
  <2>1. /\ i \in 1 .. k /\ R + i - 1 \in 0 .. cap - 1 /\ ~(R + i - 1 \in W .. W + n - 1)
    BY <1>0, <1>4
  <2>2. E[R + i - 1] = D[R + i - 1]
    BY <1>1, <2>1
  <2>. QED  BY <1>0, <1>4, <2>1, <2>2
<1>7. ASSUME NEW i \in 1 .. n PROVE u[m + i] = t[i]
  <2>. DEFINE j == W + i - 1
  <2>0. i \in Int /\ n \in Int /\ cap \in Int /\ 1 <= i /\ i <= n
    OBVIOUS
  <2>1. m + i \in 1 .. k /\ R + (m + i) - 1 = j
    BY <2>0, <1>00
  <2>b. j \in 0 .. cap - 1 /\ j \in W .. W + n - 1
    BY <2>0, <1>00, <1>0
  <2>a. io_written + j - W + 1 = io_written + i
    BY <1>00
  <2>. HIDE DEF j
  <2>2. E[j] = io_written + i
    BY <1>1, <2>b, <2>a
  <2>3. u[m + i] = E[j]
    BY <1>4, <2>1
  <2>. QED  BY <1>5, <2>2, <2>3
<1>8. s \in Seq(Nat) /\ Len(s) = m /\ t \in Seq(Nat) /\ Len(t) = n
  BY <1>0, <1>5, FunctionIsSeq
<1>9. u \in Seq(Nat) /\ Len(u) = m + n
  <2>1. k \in Nat
    BY <1>0, <1>4
  <2>. QED  BY <2>1, <1>4, FunctionIsSeq
<1>10. u = s \o t
  BY <1>6, <1>7, <1>8, <1>9, JoinedIs
<1>. QED  BY <1>3, <1>10 DEF c, u, s, t

IoRight == (\E cap \in Nat : Storage(io_buf, cap)) /\ io_written \in 0 .. IoMaxBytes

\* Bytes arrive behind those held, or there are none.
LEMMA Arrive ==
  ASSUME IoRight, NEW n \in Nat, io_written' = io_written + n,
             io_written + n <= IoMaxBytes,
         IoMaxBytes \in Nat, NEW b, NEW cap \in Nat, Storage(b, cap), cap - b.write >= n,
         Io!Unread(b) = Io!Unread(io_buf),
         io_buf' = [Io!Filled(b, n) EXCEPT !.write = @ + n]
  PROVE  IoRight' /\ [Io!Stream!Next]_(Io!Stream!vars)
<1>1. io_written \in Nat
  BY DEF IoRight
<1>2. Storage(io_buf', cap)
          /\ Io!Unread(io_buf') = Io!Unread(io_buf) \o Io!Stream!Fresh(n)
  BY <1>1, FilledAppends DEF Longer
<1>3. IoRight'
  <2>1. io_written' \in 0 .. IoMaxBytes
    BY <1>1
  <2>. QED  BY <1>2, <2>1 DEF IoRight, Storage
<1>4. CASE n = 0
  <2>1. PICK lim \in Nat : Storage(io_buf, lim)
    BY DEF IoRight
  <2>2. Io!Unread(io_buf) \in Seq(Nat) /\ Io!size(io_buf) \in Nat
    <3>1. Io!size(io_buf) \in Nat /\ Io!Unread(io_buf) \in [1 .. Io!size(io_buf) -> Nat]
      BY <2>1, StorageParts
    <3>. QED  BY <3>1, FunctionIsSeq
  <2>3. Io!Stream!Fresh(n) = <<>>
    BY <1>4 DEF Io!Stream!Fresh
  <2>4. Io!Unread(io_buf') = Io!Unread(io_buf)
    BY <1>2, <2>2, <2>3, ConcatEmptySeq
  <2>. QED  BY <1>1, <1>3, <1>4, <2>4 DEF Io!Stream!vars, Io!Unread
<1>5. CASE n # 0
  <2>1. io_written' \in Nat /\ io_written' > io_written /\ io_written' - io_written = n
    BY <1>1, <1>5
  <2>2. Io!Unread(io_buf)' = Io!Unread(io_buf')
    BY DEF Io!Unread, Io!size
  <2>. QED  BY <1>2, <1>3, <2>1, <2>2 DEF Io!Stream!Next, Io!Stream!Write
<1>. QED  BY <1>4, <1>5

\* The first n bytes are taken away and the rest stays.
LEMMA Depart ==
  ASSUME IoRight, NEW n \in Nat, NEW lim \in Nat, Storage(io_buf, lim),
             n <= Io!size(io_buf),
         NEW b, NEW cap \in Nat, Storage(b, cap), Io!size(b) = Io!size(io_buf) - n,
         \A i \in 1 .. Io!size(b) : Io!Unread(b)[i] = Io!Unread(io_buf)[n + i],
         NEW c, NEW new \in Nat, Storage(c, new), Io!Unread(c) = Io!Unread(b),
         io_buf' = c, UNCHANGED io_written
  PROVE  IoRight' /\ [Io!Stream!Next]_(Io!Stream!vars)
<1>. DEFINE s == Io!Unread(io_buf)
            u == Io!Unread(b)
            m == Io!size(io_buf)
            l == Io!size(b)
<1>1. m \in Nat /\ s \in [1 .. m -> Nat] /\ l \in Nat /\ u \in [1 .. l -> Nat]
  BY StorageParts
<1>2. IoRight'
  BY DEF IoRight, Storage
<1>3. Io!Unread(io_buf)' = u
  BY DEF Io!Unread, Io!size
<1>4. n \in 0 .. m /\ l = m - n /\ \A i \in 1 .. l : u[i] = s[n + i]
  BY <1>1
<1>. HIDE DEF s, u, m, l
<1>5. Len(s) = m /\ u = SubSeq(s, n + 1, Len(s))
  BY <1>1, <1>4, RestIs
<1>6. CASE n = 0
  <2>1. s \in Seq(Nat) /\ u \in Seq(Nat) /\ Len(s) = m /\ Len(u) = l
    BY <1>1, FunctionIsSeq
  <2>2. l = m /\ \A i \in 1 .. m : u[i] = s[i]
    BY <1>1, <1>4, <1>6
  <2>3. u = s
    BY <2>1, <2>2, SeqEqual
  <2>. QED  BY <1>2, <1>3, <2>3 DEF Io!Stream!vars, s
<1>7. CASE n # 0
  <2>1. n \in 1 .. Len(s)
    BY <1>1, <1>4, <1>5, <1>7
  <2>. QED  BY <1>2, <1>3, <1>5, <2>1 DEF Io!Stream!Next, Io!Stream!Read, s
<1>. QED  BY <1>6, <1>7

\* Both positions at the front.
LEMMA Emptied ==
  ASSUME NEW b, b = [data |-> b.data, read |-> b.read, write |-> b.write]
  PROVE  [b EXCEPT !.read = 0, !.write = 0] = [data |-> b.data, read |-> 0, write |-> 0]
<1>. DEFINE e == [b EXCEPT !.read = 0, !.write = 0]
            D == {b.data}
            R == {b.read, 0}
            W == {b.write, 0}
<1>1. b \in [data : D, read : R, write : W] /\ 0 \in R /\ 0 \in W
  OBVIOUS
<1>. HIDE DEF D, R, W
<1>2. e \in [data : D, read : R, write : W]
  BY <1>1
<1>3. e.data = b.data /\ e.read = 0 /\ e.write = 0
  BY <1>1
<1>. HIDE DEF e
<1>4. e = [data |-> e.data, read |-> e.read, write |-> e.write]
  BY <1>2
<1>. QED  BY <1>3, <1>4 DEF e

LEMMA ConsumeKeeps ==
  ASSUME IoRight, NEW n \in Nat, Io!Consume(n)
  PROVE  IoRight' /\ [Io!Stream!Next]_(Io!Stream!vars)
<1>. DEFINE k == Io!Min({n, Io!size(io_buf)})
            b == [io_buf EXCEPT !.read = @ + k]
            e == [b EXCEPT !.read = 0, !.write = 0]
<1>0. PICK cap \in Nat : Storage(io_buf, cap)
  BY DEF IoRight
<1>1. /\ DOMAIN io_buf.data = 0 .. cap - 1 /\ io_buf.data \in [0 .. cap - 1 -> Nat]
      /\ io_buf.read \in Nat /\ io_buf.write \in Nat /\ io_buf.read <= io_buf.write
      /\ io_buf.write <= cap
      /\ Io!size(io_buf) = io_buf.write - io_buf.read /\ Io!size(io_buf) \in Nat
      /\ Io!Unread(io_buf) \in [1 .. Io!size(io_buf) -> Nat]
      /\ \A i \in 1 .. Io!size(io_buf) :
           Io!Unread(io_buf)[i] = io_buf.data[io_buf.read + i - 1]
  <2>. HIDE DEF k, b, e
  <2>1. /\ DOMAIN io_buf.data = 0 .. cap - 1 /\ io_buf.data \in [0 .. cap - 1 -> Nat]
        /\ io_buf.read \in Nat /\ io_buf.write \in Nat /\ io_buf.read <= io_buf.write
        /\ io_buf.write <= cap
    BY <1>0 DEF Storage
  <2>2. /\ Io!size(io_buf) = io_buf.write - io_buf.read /\ Io!size(io_buf) \in 0 .. cap
        /\ Io!Unread(io_buf) \in [1 .. Io!size(io_buf) -> Nat]
        /\ \A i \in 1 .. Io!size(io_buf) :
             Io!Unread(io_buf)[i] = io_buf.data[io_buf.read + i - 1]
    BY <1>0, StorageParts
  <2>. QED  BY <1>0, <2>1, <2>2
<1>2. k \in Nat /\ k <= n /\ k <= Io!size(io_buf)
  <2>. DEFINE z == Io!size(io_buf)
  <2>1. z \in Nat
    BY <1>1
  <2>. HIDE DEF z
  <2>2. Io!Min({n, z}) = IF n <= z THEN n ELSE z
    BY <2>1, SmallerOf
  <2>. QED  BY <2>1, <2>2 DEF z
<1>. HIDE DEF k
<1>3. /\ b.data = io_buf.data /\ b.read = io_buf.read + k /\ b.write = io_buf.write
      /\ b = [data |-> b.data, read |-> b.read, write |-> b.write]
  <2>1. io_buf = [data |-> io_buf.data, read |-> io_buf.read, write |-> io_buf.write]
    BY <1>0 DEF Storage
  <2>. QED  BY <2>1
<1>4. /\ e.data = io_buf.data /\ e.read = 0 /\ e.write = 0
      /\ e = [data |-> e.data, read |-> e.read, write |-> e.write]
  <2>. HIDE DEF b
  <2>1. e = [data |-> b.data, read |-> 0, write |-> 0]
    BY <1>3, Emptied
  <2>. HIDE DEF e
  <2>. QED  BY <1>3, <2>1
<1>. HIDE DEF b, e
<1>5. Storage(b, cap)
  BY <1>1, <1>2, <1>3 DEF Storage
<1>6. Storage(e, cap)
  BY <1>1, <1>4 DEF Storage
<1>7. /\ Io!size(b) = Io!size(io_buf) - k
      /\ \A i \in 1 .. Io!size(b) : Io!Unread(b)[i] = Io!Unread(io_buf)[k + i]
  <2>. DEFINE m == Io!size(io_buf)
              l == Io!size(b)
              R == io_buf.read
              D == io_buf.data
              u == Io!Unread(b)
              s == Io!Unread(io_buf)
  <2>1. l = m - k /\ m \in Nat /\ R \in Nat
    BY <1>1, <1>2, <1>3 DEF Io!size
  <2>2. b.read = R + k /\ b.data = D
    BY <1>3
  <2>3. \A i \in 1 .. l : u[i] = b.data[b.read + i - 1]
    BY <1>5, StorageParts
  <2>4. \A i \in 1 .. m : s[i] = D[R + i - 1]
    BY <1>1
  <2>. HIDE DEF m, l, R, D, u, s
  <2>5. ASSUME NEW i \in 1 .. l PROVE u[i] = s[k + i]
    <3>1. k + i \in 1 .. m /\ (R + k) + i - 1 = R + (k + i) - 1
      BY <2>1, <1>2
    <3>2. u[i] = D[(R + k) + i - 1]
      BY <2>2, <2>3
    <3>3. s[k + i] = D[R + (k + i) - 1]
      BY <2>4, <3>1
    <3>. QED  BY <3>1, <3>2, <3>3
  <2>. QED  BY <2>1, <2>5 DEF m, l, u, s
<1>8. CASE b.read = b.write
  <2>1. io_buf' = e /\ UNCHANGED io_written
    BY <1>8 DEF Io!Consume, b, e, k
  <2>2. Io!size(b) = 0 /\ Io!size(e) = 0
    BY <1>1, <1>3, <1>4, <1>8 DEF Io!size
  <2>3. Io!Unread(e) = Io!Unread(b)
    BY <2>2, <1>5, <1>6, SameUnread
  <2>. QED  BY <1>0, <1>2, <1>5, <1>6, <1>7, <2>1, <2>3, Depart
<1>9. CASE b.read # b.write
  <2>1. io_buf' = Io!Compacted(b) /\ UNCHANGED io_written
    BY <1>9 DEF Io!Consume, b, e, k
  <2>2. Storage(Io!Compacted(b), cap) /\ Io!Unread(Io!Compacted(b)) = Io!Unread(b)
    BY <1>5, CompactedKeeps
  <2>. QED  BY <1>0, <1>2, <1>5, <1>7, <2>1, <2>2, Depart
<1>. QED  BY <1>8, <1>9

LEMMA ClearKeeps ==
  ASSUME IoRight, Io!Clear
  PROVE  IoRight' /\ [Io!Stream!Next]_(Io!Stream!vars)
<1>. DEFINE e == [io_buf EXCEPT !.read = 0, !.write = 0]
            n == Io!size(io_buf)
<1>0. PICK cap \in Nat : Storage(io_buf, cap)
  BY DEF IoRight
<1>1. /\ e.data = io_buf.data /\ e.read = 0 /\ e.write = 0
      /\ e = [data |-> e.data, read |-> e.read, write |-> e.write]
  <2>1. io_buf = [data |-> io_buf.data, read |-> io_buf.read, write |-> io_buf.write]
    BY <1>0 DEF Storage
  <2>2. e = [data |-> io_buf.data, read |-> 0, write |-> 0]
    BY <2>1, Emptied
  <2>. HIDE DEF e
  <2>. QED  BY <2>2
<1>2. io_buf' = e /\ UNCHANGED io_written
  BY DEF Io!Clear
<1>3. io_buf.data \in [0 .. cap - 1 -> Nat] /\ n \in Nat
  BY <1>0, StorageParts
<1>. HIDE DEF e, n
<1>4. Storage(e, cap)
  BY <1>1, <1>3 DEF Storage
<1>5. Io!size(e) = 0
  BY <1>1 DEF Io!size
<1>6. /\ Io!size(e) = Io!size(io_buf) - n /\ n <= Io!size(io_buf)
      /\ \A i \in 1 .. Io!size(e) : Io!Unread(e)[i] = Io!Unread(io_buf)[n + i]
  BY <1>3, <1>5 DEF n
<1>. QED  BY <1>0, <1>2, <1>3, <1>4, <1>6, Depart

LEMMA ReserveKeeps ==
  ASSUME IoRight, NEW n \in Nat, Io!Reserve(n)
  PROVE  IoRight' /\ [Io!Stream!Next]_(Io!Stream!vars)
<1>0. PICK cap \in Nat : Storage(io_buf, cap)
  BY DEF IoRight
<1>1. Io!size(io_buf) \in 0 .. cap /\ Io!capacity(io_buf) = cap
  BY <1>0, StorageParts
<1>2. n > cap /\ io_buf' = Io!Copied(io_buf, n) /\ UNCHANGED io_written
  BY <1>1 DEF Io!Reserve
<1>3. Io!size(io_buf) <= n
  BY <1>1, <1>2
<1>4. /\ Storage(Io!Copied(io_buf, n), n)
      /\ Io!Unread(Io!Copied(io_buf, n)) = Io!Unread(io_buf)
  BY <1>0, <1>3, CopiedKeeps
<1>5. IoRight'
  BY <1>2, <1>4 DEF IoRight, Storage
<1>. QED  BY <1>2, <1>4, <1>5 DEF Io!Stream!vars, Io!Unread, Io!size

LEMMA IoInit ==
  Io!IoAssumption /\ Io!Init => IoRight /\ Io!Stream!Init
<1>. SUFFICES ASSUME Io!IoAssumption, Io!Init PROVE IoRight /\ Io!Stream!Init
  OBVIOUS
<1>1. /\ InitialCapacity \in Nat /\ io_written = 0 /\ IoMaxBytes \in Nat
      /\ io_buf = [data |-> [i \in 0 .. InitialCapacity - 1 |-> 0], read |-> 0,
             write |-> 0]
  BY DEF Io!IoAssumption, Io!Init, Io!Garbage
<1>2. Storage(io_buf, InitialCapacity)
  BY <1>1 DEF Storage
<1>3. Io!Unread(io_buf) = <<>>
  BY <1>1 DEF Io!Unread, Io!size
<1>. QED  BY <1>1, <1>2, <1>3 DEF IoRight, Io!Stream!Init

LEMMA IoNext ==
  Io!IoAssumption /\ IoRight /\ [Io!Next]_(Io!vars)
    => IoRight' /\ [Io!Stream!Next]_(Io!Stream!vars)
<1>. SUFFICES ASSUME Io!IoAssumption, IoRight, [Io!Next]_(Io!vars)
              PROVE  IoRight' /\ [Io!Stream!Next]_(Io!Stream!vars)
  OBVIOUS
<1>0. IoLengths \subseteq Nat /\ IoMaxBytes \in Nat
  BY DEF Io!IoAssumption
<1>1. PICK cap \in Nat : Storage(io_buf, cap)
  BY DEF IoRight
<1>2. ASSUME NEW n \in IoLengths, Io!Store(n)
      PROVE  IoRight' /\ [Io!Stream!Next]_(Io!Stream!vars)
  <2>1. /\ io_written + n <= IoMaxBytes /\ io_written' = io_written + n
        /\ io_buf' = [Io!Filled(Io!EnsureWritable(io_buf, n), n) EXCEPT !.write = @ + n]
    BY <1>2 DEF Io!Store
  <2>2. PICK lim \in Nat :
          /\ Storage(Io!EnsureWritable(io_buf, n), lim)
          /\ lim - Io!EnsureWritable(io_buf, n).write >= n
          /\ Io!Unread(Io!EnsureWritable(io_buf, n)) = Io!Unread(io_buf)
    BY <1>0, <1>1, EnsureWritableKeeps
  <2>. QED  BY <1>0, <2>1, <2>2, Arrive
<1>3. ASSUME NEW n \in IoLengths, NEW k \in IoLengths, Io!Receive(n, k)
      PROVE  IoRight' /\ [Io!Stream!Next]_(Io!Stream!vars)
  <2>1. /\ io_written + k <= IoMaxBytes /\ io_written' = io_written + k /\ k <= n
        /\ io_buf' = [Io!Filled(Io!EnsureWritable(io_buf, n), k) EXCEPT !.write = @ + k]
    BY <1>3 DEF Io!Receive
  <2>2. PICK lim \in Nat :
          /\ Storage(Io!EnsureWritable(io_buf, n), lim)
          /\ lim - Io!EnsureWritable(io_buf, n).write >= n
          /\ Io!Unread(Io!EnsureWritable(io_buf, n)) = Io!Unread(io_buf)
    BY <1>0, <1>1, EnsureWritableKeeps
  <2>3. lim - Io!EnsureWritable(io_buf, n).write >= k
    <3>1. Io!EnsureWritable(io_buf, n).write \in Nat /\ n \in Nat /\ k \in Nat
      BY <1>0, <2>2, StorageParts
    <3>. QED  BY <2>1, <2>2, <3>1
  <2>. QED  BY <1>0, <2>1, <2>2, <2>3, Arrive
<1>4. CASE UNCHANGED Io!vars
  BY <1>4 DEF Io!vars, IoRight, Storage, Io!Stream!vars, Io!Unread, Io!size
<1>. QED  BY <1>0, <1>2, <1>3, <1>4, ConsumeKeeps, ReserveKeeps, ClearKeeps DEF Io!Next

LEMMA IoRightTypes ==
  IoRight => Io!TypeOK
<1>. SUFFICES ASSUME IoRight PROVE Io!TypeOK
  OBVIOUS
<1>1. PICK cap \in Nat : Storage(io_buf, cap)
  BY DEF IoRight
<1>2. /\ Io!capacity(io_buf) = cap /\ DOMAIN io_buf.data = 0 .. cap - 1
      /\ io_buf.read \in Nat /\ io_buf.write \in Nat
      /\ io_buf.read <= io_buf.write /\ io_buf.write <= cap
  BY <1>1, StorageParts
<1>. QED  BY <1>2 DEF IoRight, Io!TypeOK

-----------------------------------------------------------------------------
(* circular_buffer: positions that run freely, masked for the access.      *)

\* A remainder is what is left, however often the divisor was taken out.
LEMMA RemainderIs ==
  ASSUME NEW c \in Nat \ {0}, NEW q \in Int, NEW r \in 0 .. c - 1, NEW x \in Int,
             x = c * q + r
  PROVE  x % c = r
OBVIOUS

\* Two positions less than the capacity apart have different places.
LEMMA PlacesApart ==
  ASSUME NEW c \in Nat \ {0}, NEW x \in Nat, NEW y \in Nat, x < y, y - x < c
  PROVE  x % c # y % c
<1>. SUFFICES ASSUME x % c = y % c PROVE FALSE
  OBVIOUS
<1>. DEFINE q == x \div c
            p == y \div c
            r == x % c
            d == p - q
<1>1. q \in Int /\ p \in Int /\ r \in Int /\ x = c * q + r /\ y = c * p + r
  OBVIOUS
<1>. HIDE DEF q, p, r
<1>2. d \in Int /\ y - x = c * d
  BY <1>1
<1>. HIDE DEF d
<1>3. CASE d <= 0
  <2>1. c * d <= 0
    BY <1>2, <1>3
  <2>. QED  BY <1>2, <2>1
<1>4. CASE d >= 1
  <2>1. c * d >= c
    BY <1>2, <1>4
  <2>. QED  BY <1>2, <2>1
<1>. QED  BY <1>2, <1>3, <1>4

\* Places follow each other up to the end of the storage.
LEMMA PlaceAfter ==
  ASSUME NEW c \in Nat \ {0}, NEW x \in Nat, NEW d \in Nat, (x % c) + d < c
  PROVE  (x + d) % c = (x % c) + d
<1>. DEFINE q == x \div c
            r == x % c
<1>1. q \in Int /\ r \in Nat /\ x = c * q + r /\ r + d < c
  OBVIOUS
<1>. HIDE DEF q, r
<1>2. x + d \in Int /\ r + d \in 0 .. c - 1 /\ x + d = c * q + (r + d)
  BY <1>1
<1>3. (x + d) % c = r + d
  BY <1>1, <1>2, RemainderIs
<1>. QED  BY <1>3 DEF r

LEMMA NextPowerFits ==
  ASSUME NEW n \in Nat
  PROVE  Ring!NextPowerOfTwo(n) \in Nat \ {0} /\ Ring!NextPowerOfTwo(n) >= n
<1>. DEFINE T == {c \in {2 ^ k : k \in 0 .. n} : c >= n}
<1>1. \A k \in 0 .. n : 2 ^ k \in Nat
  BY PowerOfTwo
<1>2. T \in SUBSET Nat
  BY <1>1
<1>3. 2 ^ n \in T
  <2>1. 2 ^ n \in Nat /\ n <= 2 ^ n
    BY PowerOfTwo
  <2>. QED  BY <2>1
<1>4. \A c \in T : c >= n
  OBVIOUS
<1>5. n # 0 => Ring!NextPowerOfTwo(n) = Ring!Min(T)
  BY DEF Ring!NextPowerOfTwo
<1>6. n = 0 => Ring!NextPowerOfTwo(n) = 1
  BY DEF Ring!NextPowerOfTwo
<1>. HIDE DEF T
<1>7. PICK x \in T : \A y \in T : x <= y
  BY <1>2, <1>3, LeastNumber
<1>8. Ring!Min(T) \in T
  BY <1>7 DEF Ring!Min
<1>9. CASE n = 0
  BY <1>6, <1>9
<1>10. CASE n # 0
  <2>1. Ring!Min(T) \in Nat /\ Ring!Min(T) >= n
    BY <1>2, <1>4, <1>8
  <2>. QED  BY <1>5, <1>10, <2>1
<1>. QED  BY <1>9, <1>10

\* The smaller of two numbers, for the ring.
LEMMA RingSmallerOf ==
  ASSUME NEW x \in Int, NEW y \in Int
  PROVE  Ring!Min({x, y}) = IF x <= y THEN x ELSE y
<1>. DEFINE S == {x, y}
<1>1. PICK z \in S : \A w \in S : z <= w
  OBVIOUS
<1>2. Ring!Min(S) \in S /\ \A w \in S : Ring!Min(S) <= w
  BY <1>1 DEF Ring!Min
<1>. QED  BY <1>2

\* Positions in order, no further apart than the capacity.
RingOf(cap) ==
  /\ cap \in Nat \ {0} /\ ring_buffer \in [0 .. cap - 1 -> Nat]
  /\ ring_head \in Nat /\ ring_tail \in Nat
  /\ ring_head <= ring_tail /\ ring_tail - ring_head <= cap
  /\ ring_written \in 0 .. RingMaxBytes

RingRight == \E cap \in Nat : RingOf(cap)

\* What follows for the bytes held.
RingHolds(cap) ==
  /\ Ring!capacity = cap /\ DOMAIN ring_buffer = 0 .. cap - 1
  /\ Ring!size = ring_tail - ring_head /\ Ring!size \in 0 .. cap
  /\ \A p \in Nat : Ring!Masked(p) = p % cap /\ p % cap \in 0 .. cap - 1
  /\ Ring!Held \in [1 .. Ring!size -> Nat]
  /\ \A i \in 1 .. Ring!size : Ring!Held[i] = ring_buffer[(ring_head + i - 1) % cap]

LEMMA RingParts ==
  ASSUME NEW CONSTANT cap
  PROVE  RingOf(cap) => RingHolds(cap)
<1>. SUFFICES ASSUME RingOf(cap) PROVE RingHolds(cap)
  OBVIOUS
<1>1. /\ cap \in Nat \ {0} /\ ring_buffer \in [0 .. cap - 1 -> Nat]
      /\ ring_head \in Nat /\ ring_tail \in Nat
      /\ ring_head <= ring_tail /\ ring_tail - ring_head <= cap
      /\ DOMAIN ring_buffer = 0 .. cap - 1
  BY DEF RingOf
<1>2. Ring!capacity = cap
  <2>. DEFINE D == DOMAIN ring_buffer
  <2>1. D = 0 .. cap - 1 /\ cap \in Nat
    BY <1>1
  <2>. HIDE DEF D
  <2>2. Cardinality(D) = cap
    BY <2>1, CountFromZero
  <2>. QED  BY <2>2, SameCount DEF Ring!capacity, D
<1>3. Ring!size = ring_tail - ring_head /\ Ring!size \in 0 .. cap
  BY <1>1 DEF Ring!size
<1>4. ASSUME NEW p \in Nat PROVE Ring!Masked(p) = p % cap /\ p % cap \in 0 .. cap - 1
  <2>1. p % cap \in 0 .. cap - 1
    BY <1>1
  <2>. QED  BY <1>2, <2>1 DEF Ring!Masked
<1>. DEFINE sz == Ring!size
<1>5. sz \in Nat /\ Ring!Held = [i \in 1 .. sz |-> Ring!Byte(ring_head + i - 1)]
  BY <1>1, <1>3 DEF Ring!Held
<1>. HIDE DEF sz
<1>6. ASSUME NEW i \in 1 .. sz
      PROVE  /\ Ring!Byte(ring_head + i - 1) = ring_buffer[(ring_head + i - 1) % cap]
             /\ Ring!Byte(ring_head + i - 1) \in Nat
  <2>. DEFINE p == ring_head + i - 1
  <2>1. p \in Nat
    BY <1>1, <1>5
  <2>. HIDE DEF p
  <2>2. Ring!Byte(p) = ring_buffer[p % cap] /\ p % cap \in 0 .. cap - 1
    BY <1>4, <2>1 DEF Ring!Byte
  <2>3. ring_buffer[p % cap] \in Nat
    BY <1>1, <2>2
  <2>. QED  BY <2>2, <2>3 DEF p
<1>7. Ring!Held \in [1 .. sz -> Nat]
          /\ \A i \in 1 .. sz : Ring!Held[i] = Ring!Byte(ring_head + i - 1)
  BY <1>5, <1>6
<1>. QED  BY <1>1, <1>2, <1>3, <1>4, <1>6, <1>7 DEF sz, RingHolds

LEMMA RingPartsNext ==
  ASSUME NEW CONSTANT cap
  PROVE  RingOf(cap)' => RingHolds(cap)'
<1>1. RingOf(cap) => RingHolds(cap)
  BY RingParts
<1>. QED  BY <1>1, PTL

\* Bytes come in behind those held, at places that none of those has.
LEMMA RingWriteKeeps ==
  ASSUME NEW CONSTANT cap, RingOf(cap), NEW n \in Nat, Ring!Write(n)
  PROVE  RingOf(cap)' /\ Ring!Stream!Write
<1>. DEFINE R == ring_head
            W == ring_tail
            D == ring_buffer
            E == ring_buffer'
            m == Ring!size
            k == Ring!ToWrite(n)
            s == Ring!Held
            u == Ring!Held'
            t == Ring!Stream!Fresh(k)
            at(p) == {j \in 0 .. k - 1 : (W + j) % cap = p}
<1>0. /\ cap \in Nat \ {0} /\ D \in [0 .. cap - 1 -> Nat] /\ DOMAIN D = 0 .. cap - 1
      /\ R \in Nat /\ W \in Nat /\ R <= W /\ m = W - R /\ m \in 0 .. cap
      /\ \A p \in Nat : Ring!Masked(p) = p % cap /\ p % cap \in 0 .. cap - 1
      /\ s \in [1 .. m -> Nat]
      /\ \A i \in 1 .. m : s[i] = D[(R + i - 1) % cap]
      /\ ring_written \in Nat
  <2>1. /\ DOMAIN D = 0 .. cap - 1 /\ m = W - R /\ m \in 0 .. cap
        /\ \A p \in Nat : Ring!Masked(p) = p % cap /\ p % cap \in 0 .. cap - 1
        /\ s \in [1 .. m -> Nat]
        /\ \A i \in 1 .. m : s[i] = D[(R + i - 1) % cap]
    BY RingParts DEF RingHolds
  <2>2. /\ cap \in Nat \ {0} /\ D \in [0 .. cap - 1 -> Nat]
        /\ R \in Nat /\ W \in Nat /\ R <= W /\ ring_written \in Nat
    BY DEF RingOf
  <2>. QED  BY <2>1, <2>2
<1>1. k \in Nat /\ k > 0 /\ k <= cap - m /\ ring_written + k <= RingMaxBytes
  <2>1. Ring!capacity = cap
    BY RingParts DEF RingHolds
  <2>. DEFINE z == cap - m
  <2>2. z \in Int
    BY <1>0
  <2>3. k = Ring!Min({n, z})
    BY <2>1 DEF Ring!ToWrite
  <2>. HIDE DEF z
  <2>4. k = IF n <= z THEN n ELSE z
    BY <2>2, <2>3, RingSmallerOf
  <2>5. k > 0 /\ ring_written + k <= RingMaxBytes
    BY DEF Ring!Write
  <2>. HIDE DEF k
  <2>6. k \in Int /\ k <= z
    BY <2>2, <2>4
  <2>. QED  BY <2>5, <2>6 DEF z
<1>2. /\ E = [p \in 0 .. cap - 1 |-> IF at(p) = {} THEN D[p]
                                      ELSE ring_written + 1 + Ring!Max(at(p))]
      /\ ring_tail' = W + k /\ ring_written' = ring_written + k /\ ring_head' = R
  <2>1. \A j \in 0 .. k - 1 : Ring!Masked(W + j) = (W + j) % cap
    <3>. HIDE DEF k
    <3>1. \A j \in 0 .. k - 1 : W + j \in Nat
      BY <1>0, <1>1
    <3>. QED  BY <1>0, <3>1
  <2>2. \A p : at(p) = {j \in 0 .. k - 1 : Ring!Masked(W + j) = p}
    BY <2>1
  <2>3. E = [p \in DOMAIN D |->
               IF {j \in 0 .. k - 1 : Ring!Masked(W + j) = p} = {} THEN D[p]
               ELSE ring_written + 1 + Ring!Max({j \in 0 .. k - 1 : Ring!Masked(W + j) = p})]
    BY DEF Ring!Write
  <2>. QED  BY <1>0, <2>2, <2>3 DEF Ring!Write
<1>. HIDE DEF R, W, D, E, m, k, s, t
<1>a. /\ cap \in Int /\ R \in Int /\ W \in Int /\ m \in Int /\ k \in Int /\ R >= 0
      /\ R <= W /\ m = W - R /\ m <= cap /\ k > 0 /\ k <= cap - m /\ cap > 0
  BY <1>0, <1>1
<1>3. ASSUME NEW j \in 0 .. k - 1 PROVE at((W + j) % cap) = {j}
  <2>1. ASSUME NEW i \in 0 .. k - 1, i # j PROVE (W + i) % cap # (W + j) % cap
    <3>1. W + i \in Nat /\ W + j \in Nat
      BY <1>0, <1>1
    <3>2. CASE i < j
      <4>1. W + i < W + j /\ (W + j) - (W + i) < cap
        BY <1>0, <1>1, <3>2
      <4>. QED  BY <1>0, <3>1, <4>1, PlacesApart
    <3>3. CASE j < i
      <4>1. W + j < W + i /\ (W + i) - (W + j) < cap
        BY <1>0, <1>1, <3>3
      <4>. QED  BY <1>0, <3>1, <4>1, PlacesApart
    <3>. QED  BY <1>1, <2>1, <3>2, <3>3
  <2>. QED  BY <2>1
<1>4. ASSUME NEW i \in 1 .. m PROVE at((R + i - 1) % cap) = {}
  <2>. DEFINE p == R + i - 1
  <2>1. p \in Nat /\ R <= p /\ p < W
    BY <1>a
  <2>. HIDE DEF p
  <2>2. ASSUME NEW j \in 0 .. k - 1 PROVE (W + j) % cap # p % cap
    <3>1. W + j \in Nat /\ p < W + j /\ (W + j) - p < cap
      BY <1>a, <2>1
    <3>. QED  BY <1>0, <2>1, <3>1, PlacesApart
  <2>. QED  BY <2>2 DEF p
<1>5. E \in [0 .. cap - 1 -> Nat]
  <2>1. ASSUME NEW p \in 0 .. cap - 1
        PROVE  (IF at(p) = {} THEN D[p] ELSE ring_written + 1 + Ring!Max(at(p))) \in Nat
    <3>1. CASE at(p) = {}
      BY <1>0, <3>1
    <3>2. CASE at(p) # {}
      <4>1. PICK j \in 0 .. k - 1 : (W + j) % cap = p
        BY <3>2
      <4>2. at(p) = {j}
        BY <1>3, <4>1
      <4>3. Ring!Max({j}) = j /\ j \in Nat
        <5>1. j \in Nat
          BY <1>a
        <5>. QED  BY <5>1 DEF Ring!Max
      <4>. HIDE DEF at
      <4>. QED  BY <1>0, <3>2, <4>2, <4>3
    <3>. QED  BY <3>1, <3>2
  <2>. HIDE DEF at
  <2>. QED  BY <1>2, <2>1
<1>6. RingOf(cap)'
  <2>1. W + k \in Nat /\ R <= W + k /\ (W + k) - R <= cap
            /\ ring_written + k \in 0 .. RingMaxBytes
    <3>1. RingMaxBytes \in Int \/ RingMaxBytes \notin Int
      OBVIOUS
    <3>. QED  BY <1>0, <1>1
  <2>. QED  BY <1>0, <1>2, <1>5, <2>1 DEF RingOf, E
<1>7. /\ Ring!size' = m + k /\ u \in [1 .. m + k -> Nat]
      /\ \A i \in 1 .. m + k : u[i] = E[(R + i - 1) % cap]
  <2>1. /\ Ring!size' = ring_tail' - ring_head'
        /\ Ring!Held' \in [1 .. Ring!size' -> Nat]
        /\ \A i \in 1 .. Ring!size' :
             Ring!Held'[i] = ring_buffer'[(ring_head' + i - 1) % cap]
    BY <1>6, RingPartsNext DEF RingHolds
  <2>2. Ring!size' = m + k
    BY <1>a, <1>2, <2>1
  <2>. QED  BY <1>2, <2>1, <2>2 DEF E, u
<1>. HIDE DEF u
<1>8. ASSUME NEW i \in 1 .. m PROVE u[i] = s[i]
  <2>. DEFINE p == (R + i - 1) % cap
  <2>1. i \in 1 .. m + k /\ p \in 0 .. cap - 1
    <3>1. R + i - 1 \in Nat /\ i \in 1 .. m + k
      BY <1>a
    <3>. QED  BY <1>0, <3>1
  <2>2. at(p) = {}
    BY <1>4
  <2>3. u[i] = E[p] /\ s[i] = D[p]
    BY <1>0, <1>7, <2>1
  <2>. HIDE DEF p, at
  <2>. QED  BY <1>2, <2>1, <2>2, <2>3
<1>9. ASSUME NEW i \in 1 .. k PROVE u[m + i] = ring_written + i
  <2>. DEFINE j == i - 1
              p == (W + j) % cap
  <2>1. j \in 0 .. k - 1 /\ R + (m + i) - 1 = W + j /\ m + i \in 1 .. m + k
            /\ W + j \in Nat
    BY <1>0, <1>1
  <2>2. p \in 0 .. cap - 1 /\ u[m + i] = E[p]
    BY <1>0, <1>7, <2>1
  <2>3. at(p) = {j}
    BY <1>3, <2>1
  <2>4. Ring!Max({j}) = j
    BY <2>1 DEF Ring!Max
  <2>5. ring_written + 1 + j = ring_written + i
    BY <1>0, <1>1
  <2>. HIDE DEF j, p, at
  <2>6. E[p] = IF at(p) = {} THEN D[p] ELSE ring_written + 1 + Ring!Max(at(p))
    BY <1>2, <2>2
  <2>7. E[p] = ring_written + 1 + j
    BY <2>3, <2>4, <2>6
  <2>. QED  BY <2>2, <2>5, <2>7
<1>10. s \in Seq(Nat) /\ Len(s) = m
  <2>1. m \in Nat
    BY <1>a
  <2>2. s \in [1 .. m -> Nat]
    BY <1>0
  <2>. QED  BY <2>1, <2>2, FunctionIsSeq
<1>11. u \in Seq(Nat) /\ Len(u) = m + k
  <2>. DEFINE l == m + k
  <2>1. l \in Nat
    BY <1>a
  <2>3. u \in [1 .. l -> Nat]
    BY <1>7
  <2>. HIDE DEF l
  <2>2. u \in Seq(Nat) /\ Len(u) = l
    BY <2>1, <2>3, FunctionIsSeq
  <2>. QED  BY <2>2 DEF l
<1>12. t \in Seq(Nat) /\ Len(t) = k /\ \A i \in 1 .. k : t[i] = ring_written + i
  <2>1. t \in [1 .. k -> Nat] /\ \A i \in 1 .. k : t[i] = ring_written + i
    BY <1>0, <1>1 DEF t, Ring!Stream!Fresh
  <2>. QED  BY <1>1, <2>1, FunctionIsSeq
<1>13. u = s \o t
  <2>1. \A i \in 1 .. Len(s) : u[i] = s[i]
    BY <1>8, <1>10
  <2>2. \A i \in 1 .. Len(t) : u[Len(s) + i] = t[i]
    BY <1>9, <1>10, <1>12
  <2>. QED  BY <1>10, <1>11, <1>12, <2>1, <2>2, JoinedIs
<1>14. ring_written' \in Nat /\ ring_written' > ring_written
           /\ ring_written' - ring_written = k
  BY <1>0, <1>1, <1>2
<1>. QED  BY <1>6, <1>13, <1>14 DEF Ring!Stream!Write, u, s, t

LEMMA RingReadKeeps ==
  ASSUME NEW CONSTANT cap, RingOf(cap), NEW n \in Nat, Ring!Read(n)
  PROVE  RingOf(cap)' /\ [Ring!Stream!Next]_(Ring!Stream!vars)
<1>. DEFINE R == ring_head
            D == ring_buffer
            m == Ring!size
            k == Ring!Min({n, Ring!size})
            s == Ring!Held
            u == Ring!Held'
            l == Ring!size'
<1>0. /\ cap \in Nat /\ R \in Nat /\ ring_tail \in Nat /\ m = ring_tail - R
             /\ m \in 0 .. cap
      /\ s \in [1 .. m -> Nat]
      /\ \A i \in 1 .. m : s[i] = D[(R + i - 1) % cap]
  <2>1. /\ m = ring_tail - R /\ m \in 0 .. cap /\ s \in [1 .. m -> Nat]
        /\ \A i \in 1 .. m : s[i] = D[(R + i - 1) % cap]
    BY RingParts DEF RingHolds
  <2>2. cap \in Nat /\ R \in Nat /\ ring_tail \in Nat
    BY DEF RingOf
  <2>. QED  BY <2>1, <2>2
<1>1. k \in Nat /\ k <= m
  <2>. HIDE DEF m
  <2>1. m \in Int
    BY <1>0
  <2>2. Ring!Min({n, m}) = IF n <= m THEN n ELSE m
    BY <2>1, RingSmallerOf
  <2>3. k = Ring!Min({n, m})
    BY DEF m
  <2>. HIDE DEF k
  <2>. QED  BY <1>0, <2>2, <2>3
<1>2. ring_head' = R + k /\ UNCHANGED <<ring_buffer, ring_tail, ring_written>>
  BY DEF Ring!Read
<1>. HIDE DEF m, k
<1>3. R + k \in Nat /\ R + k <= ring_tail /\ ring_tail - (R + k) <= cap
  BY <1>0, <1>1
<1>4. RingOf(cap)'
  BY <1>2, <1>3 DEF RingOf
<1>5. /\ l = ring_tail - (R + k) /\ l \in Nat /\ u \in [1 .. l -> Nat]
      /\ \A i \in 1 .. l : u[i] = D[((R + k) + i - 1) % cap]
  <2>1. /\ l = ring_tail' - ring_head' /\ l \in 0 .. cap /\ u \in [1 .. l -> Nat]
        /\ \A i \in 1 .. l : u[i] = ring_buffer'[(ring_head' + i - 1) % cap]
    BY <1>4, RingPartsNext DEF RingHolds
  <2>. HIDE DEF l, u
  <2>2. l \in Nat
    BY <1>0, <2>1
  <2>. QED  BY <1>2, <2>1, <2>2
<1>. HIDE DEF s, u, l, R, D
<1>6. l = m - k /\ m \in Nat /\ k \in 0 .. m
  BY <1>0, <1>1, <1>3, <1>5
<1>7. ASSUME NEW i \in 1 .. l PROVE u[i] = s[k + i]
  <2>1. k + i \in 1 .. m /\ (R + k) + i - 1 = R + (k + i) - 1
    BY <1>0, <1>1, <1>6
  <2>2. u[i] = D[((R + k) + i - 1) % cap]
    BY <1>5
  <2>3. s[k + i] = D[(R + (k + i) - 1) % cap]
    BY <1>0, <2>1
  <2>. QED  BY <2>1, <2>2, <2>3
<1>8. Len(s) = m /\ u = SubSeq(s, k + 1, Len(s))
  BY ZenonT(30), <1>0, <1>5, <1>6, <1>7, RestIs
<1>9. CASE k = 0
  <2>1. ring_head' = ring_head
    BY <1>0, <1>2, <1>9 DEF R
  <2>. QED  BY <1>2, <1>4, <2>1 DEF Ring!Stream!vars, Ring!Held, Ring!size, Ring!Byte,
           Ring!Masked,
                                   Ring!capacity
<1>10. CASE k # 0
  <2>1. k \in 1 .. Len(s)
    BY <1>6, <1>8, <1>10
  <2>. QED  BY <1>2, <1>4, <1>8, <2>1 DEF Ring!Stream!Next, Ring!Stream!Read, s, u
<1>. QED  BY <1>9, <1>10

LEMMA RingClearKeeps ==
  ASSUME NEW CONSTANT cap, RingOf(cap), Ring!Clear
  PROVE  RingOf(cap)' /\ [Ring!Stream!Next]_(Ring!Stream!vars)
<1>1. /\ ring_head' = 0 /\ ring_tail' = 0 /\ UNCHANGED <<ring_buffer, ring_written>>
  BY DEF Ring!Clear
<1>2. RingOf(cap)'
  BY <1>1 DEF RingOf
<1>3. Ring!Held' = <<>>
  <2>1. Ring!size' = 0
    BY <1>1 DEF Ring!size
  <2>. QED  BY <2>1 DEF Ring!Held
<1>. DEFINE m == Ring!size
            s == Ring!Held
<1>4. m \in Nat /\ s \in Seq(Nat) /\ Len(s) = m
  <2>1. cap \in Nat /\ m \in 0 .. cap /\ s \in [1 .. m -> Nat]
    BY RingParts DEF RingHolds, RingOf
  <2>. HIDE DEF m, s
  <2>2. m \in Nat
    BY <2>1
  <2>. QED  BY <2>1, <2>2, FunctionIsSeq
<1>. HIDE DEF m, s
<1>5. CASE m = 0
  <2>1. s = <<>>
    BY <1>4, <1>5, EmptySeq
  <2>. QED  BY <1>1, <1>2, <1>3, <2>1 DEF Ring!Stream!vars, s
<1>6. CASE m # 0
  <2>1. m \in 1 .. Len(s) /\ SubSeq(s, m + 1, Len(s)) = <<>>
    BY <1>4, <1>6
  <2>. QED  BY <1>1, <1>2, <1>3, <2>1 DEF Ring!Stream!Next, Ring!Stream!Read, s
<1>. QED  BY <1>5, <1>6

LEMMA RingReserveKeeps ==
  ASSUME NEW CONSTANT cap, RingOf(cap), NEW n \in Nat, Ring!Reserve(n)
  PROVE  RingRight' /\ [Ring!Stream!Next]_(Ring!Stream!vars)
<1>. DEFINE new == Ring!NextPowerOfTwo(n)
            m == Ring!size
            R == ring_head
            E == ring_buffer'
            s == Ring!Held
            u == Ring!Held'
<1>0. /\ cap \in Nat \ {0} /\ m \in 0 .. cap /\ Ring!capacity = cap /\ R \in Nat
      /\ s \in [1 .. m -> Nat] /\ \A i \in 1 .. m : s[i] = Ring!Byte(R + i - 1)
  <2>1. m \in 0 .. cap /\ Ring!capacity = cap /\ s \in [1 .. m -> Nat]
    BY RingParts DEF RingHolds
  <2>2. cap \in Nat \ {0} /\ R \in Nat
    BY DEF RingOf
  <2>. QED  BY <2>1, <2>2 DEF Ring!Held
<1>1. new \in Nat \ {0} /\ new >= n /\ n > cap
  BY <1>0, NextPowerFits DEF Ring!Reserve
<1>2. /\ E = [i \in 0 .. new - 1 |-> IF i < m THEN Ring!Byte(R + i) ELSE 0]
      /\ ring_head' = 0 /\ ring_tail' = m /\ ring_written' = ring_written
  BY DEF Ring!Reserve, Ring!Garbage
<1>. HIDE DEF new, m, R, E, s
<1>3. m \in Nat /\ m < new
  BY <1>0, <1>1
<1>4. ASSUME NEW i \in 0 .. new - 1, i < m PROVE Ring!Byte(R + i) \in Nat
                 /\ Ring!Byte(R + i) = s[i + 1]
  <2>1. i + 1 \in 1 .. m /\ R + (i + 1) - 1 = R + i
    BY <1>0, <1>1, <1>3, <1>4
  <2>2. s[i + 1] = Ring!Byte(R + (i + 1) - 1) /\ s[i + 1] \in Nat
    BY <1>0, <2>1
  <2>. QED  BY <2>1, <2>2
<1>5. E \in [0 .. new - 1 -> Nat]
  <2>1. \A i \in 0 .. new - 1 : (IF i < m THEN Ring!Byte(R + i) ELSE 0) \in Nat
    BY <1>4
  <2>. QED  BY <1>2, <2>1
<1>6. RingOf(new)'
  <2>1. 0 <= m /\ m - 0 <= new
    BY <1>1, <1>3
  <2>2. ring_written \in 0 .. RingMaxBytes
    BY DEF RingOf
  <2>. QED  BY <1>1, <1>2, <1>3, <1>5, <2>1, <2>2 DEF RingOf, E
<1>7. RingRight'
  <2>1. new \in Nat
    BY <1>1
  <2>. QED  BY <1>6, <2>1 DEF RingRight
<1>8. /\ u \in [1 .. m -> Nat]
      /\ \A i \in 1 .. m : u[i] = E[(i - 1) % new]
  <2>1. /\ Ring!size' = ring_tail' - ring_head' /\ u \in [1 .. Ring!size' -> Nat]
        /\ \A i \in 1 .. Ring!size' : u[i] = ring_buffer'[(ring_head' + i - 1) % new]
    BY <1>6, RingPartsNext DEF RingHolds
  <2>. HIDE DEF u
  <2>2. Ring!size' = m
    BY <1>2, <1>3, <2>1
  <2>3. \A i \in 1 .. m : ring_head' + i - 1 = i - 1
    BY <1>2, <1>3
  <2>. QED  BY <1>2, <2>1, <2>2, <2>3 DEF E
<1>. HIDE DEF u
<1>9. ASSUME NEW i \in 1 .. m PROVE u[i] = s[i]
  <2>. DEFINE j == i - 1
  <2>1. j \in 0 .. new - 1 /\ j < m /\ j + 1 = i
    BY <1>1, <1>3
  <2>2. j % new = j
    BY <1>1, <2>1
  <2>3. u[i] = E[j]
    BY <1>8, <2>2
  <2>. HIDE DEF j
  <2>4. E[j] = Ring!Byte(R + j)
    BY <1>2, <2>1
  <2>5. Ring!Byte(R + j) = s[j + 1]
    BY <1>4, <2>1
  <2>. QED  BY <2>1, <2>3, <2>4, <2>5
<1>10. u = s
  <2>1. u \in Seq(Nat) /\ s \in Seq(Nat) /\ Len(u) = m /\ Len(s) = m
    BY <1>0, <1>3, <1>8, FunctionIsSeq
  <2>. QED  BY <1>9, <2>1, SeqEqual
<1>. QED  BY <1>2, <1>7, <1>10 DEF Ring!Stream!vars, s, u

LEMMA RingInit ==
  Ring!RingAssumption /\ Ring!Init => RingRight /\ Ring!Stream!Init
<1>. SUFFICES ASSUME Ring!RingAssumption, Ring!Init PROVE RingRight /\ Ring!Stream!Init
  OBVIOUS
<1>1. PICK n \in RingCapacities : ring_buffer = [i \in 0 .. Ring!NextPowerOfTwo(n) - 1 |-> 0]
  BY DEF Ring!Init, Ring!Garbage
<1>. DEFINE new == Ring!NextPowerOfTwo(n)
<1>2. n \in Nat /\ RingMaxBytes \in Nat
  BY DEF Ring!RingAssumption
<1>3. new \in Nat \ {0}
  BY <1>2, NextPowerFits
<1>4. ring_head = 0 /\ ring_tail = 0 /\ ring_written = 0
  BY DEF Ring!Init
<1>. HIDE DEF new
<1>5. RingOf(new)
  BY <1>1, <1>2, <1>3, <1>4 DEF RingOf, new
<1>6. RingRight
  <2>1. new \in Nat
    BY <1>3
  <2>. QED  BY <1>5, <2>1 DEF RingRight
<1>7. Ring!Held = <<>>
  <2>1. Ring!size = 0
    BY <1>4 DEF Ring!size
  <2>. QED  BY <2>1 DEF Ring!Held
<1>. QED  BY <1>4, <1>6, <1>7 DEF Ring!Stream!Init

LEMMA RingNext ==
  Ring!RingAssumption /\ RingRight /\ [Ring!Next]_(Ring!vars)
    => RingRight' /\ [Ring!Stream!Next]_(Ring!Stream!vars)
<1>. SUFFICES ASSUME Ring!RingAssumption, RingRight, [Ring!Next]_(Ring!vars)
              PROVE  RingRight' /\ [Ring!Stream!Next]_(Ring!Stream!vars)
  OBVIOUS
<1>0. RingLengths \subseteq Nat /\ RingCapacities \subseteq Nat
  BY DEF Ring!RingAssumption
<1>1. PICK cap \in Nat : RingOf(cap)
  BY DEF RingRight
<1>2. RingOf(cap)' => RingRight'
  BY DEF RingRight
<1>3. CASE UNCHANGED Ring!vars
  BY <1>1, <1>3 DEF Ring!vars, RingRight, RingOf, Ring!Stream!vars, Ring!Held, Ring!size,
         Ring!Byte,
                    Ring!Masked, Ring!capacity
<1>4. ASSUME NEW n \in RingLengths, Ring!Write(n)
      PROVE  RingRight' /\ [Ring!Stream!Next]_(Ring!Stream!vars)
  BY <1>0, <1>1, <1>2, <1>4, RingWriteKeeps DEF Ring!Stream!Next
<1>5. ASSUME NEW n \in RingLengths, Ring!Read(n)
      PROVE  RingRight' /\ [Ring!Stream!Next]_(Ring!Stream!vars)
  BY <1>0, <1>1, <1>2, <1>5, RingReadKeeps
<1>6. ASSUME NEW n \in RingCapacities, Ring!Reserve(n)
      PROVE  RingRight' /\ [Ring!Stream!Next]_(Ring!Stream!vars)
  BY <1>0, <1>1, <1>6, RingReserveKeeps
<1>7. CASE Ring!Clear
  BY <1>1, <1>2, <1>7, RingClearKeeps
<1>. QED  BY <1>3, <1>4, <1>5, <1>6, <1>7 DEF Ring!Next

\* What is peeked at is held, from the oldest byte on.
LEMMA RingPeeks ==
  RingRight => Ring!PeekIsPrefix
<1>. SUFFICES ASSUME RingRight PROVE Ring!PeekIsPrefix
  OBVIOUS
<1>1. PICK cap \in Nat : RingOf(cap)
  BY DEF RingRight
<1>. DEFINE R == ring_head
            D == ring_buffer
            m == Ring!size
            s == Ring!Held
            u == Ring!Peeked
            r == R % cap
            l == Ring!Min({Ring!size, Ring!capacity - Ring!Masked(ring_head)})
<1>2. /\ cap \in Nat \ {0} /\ R \in Nat /\ m \in 0 .. cap /\ D \in [0 .. cap - 1 -> Nat]
      /\ Ring!capacity = cap /\ Ring!Masked(R) = r /\ r \in 0 .. cap - 1
      /\ s \in [1 .. m -> Nat]
      /\ \A i \in 1 .. m : s[i] = D[(R + i - 1) % cap]
  <2>1. /\ m \in 0 .. cap /\ Ring!capacity = cap
        /\ \A p \in Nat : Ring!Masked(p) = p % cap /\ p % cap \in 0 .. cap - 1
        /\ s \in [1 .. m -> Nat]
        /\ \A i \in 1 .. m : s[i] = D[(R + i - 1) % cap]
    BY <1>1, RingParts DEF RingHolds
  <2>2. cap \in Nat \ {0} /\ R \in Nat /\ D \in [0 .. cap - 1 -> Nat]
    BY <1>1 DEF RingOf
  <2>. QED  BY <2>1, <2>2
<1>3. u = [i \in 1 .. l |-> D[r + i - 1]]
  BY <1>2 DEF Ring!Peeked
<1>4. l \in Nat /\ l <= m /\ l <= cap - r /\ (m > 0 => l > 0)
  <2>. DEFINE z == cap - r
  <2>1. z \in Nat /\ z > 0 /\ m \in Nat
    BY <1>2
  <2>2. l = Ring!Min({m, z})
    BY <1>2
  <2>. HIDE DEF l, z, m
  <2>3. l = IF m <= z THEN m ELSE z
    BY <2>1, <2>2, RingSmallerOf
  <2>. QED  BY <2>1, <2>3 DEF z
<1>. HIDE DEF R, D, m, s, u, l
<1>5. ASSUME NEW i \in 1 .. l PROVE D[r + i - 1] = s[i] /\ s[i] \in Nat
  <2>. DEFINE d == i - 1
  <2>1. d \in Nat /\ r + d < cap /\ R + d = R + i - 1 /\ i \in 1 .. m /\ r + d = r + i - 1
    BY <1>2, <1>4
  <2>. HIDE DEF d
  <2>2. (R + d) % cap = r + d
    BY <1>2, <2>1, PlaceAfter
  <2>3. s[i] = D[(R + i - 1) % cap] /\ s[i] \in Nat
    BY <1>2, <2>1
  <2>. QED  BY <2>1, <2>2, <2>3
<1>6. u \in [1 .. l -> Nat] /\ \A i \in 1 .. l : u[i] = s[i]
  BY <1>3, <1>5
<1>7. u \in Seq(Nat) /\ Len(u) = l
  BY <1>4, <1>6, FunctionIsSeq
<1>8. s \in Seq(Nat) /\ Len(s) = m
  <2>1. m \in Nat
    BY <1>2
  <2>. QED  BY <1>2, <2>1, FunctionIsSeq
<1>. DEFINE v == SubSeq(s, 1, l)
<1>9. v \in Seq(Nat) /\ Len(v) = l /\ \A i \in 1 .. l : v[i] = s[i]
  <2>1. /\ v \in Seq(Nat) /\ Len(v) = IF 1 <= l THEN l - 1 + 1 ELSE 0
        /\ \A i \in 1 .. l - 1 + 1 : v[i] = s[1 + i - 1]
    BY <1>2, <1>4, <1>8, SubSeqProperties
  <2>. HIDE DEF v
  <2>2. \A i \in 1 .. l : i \in 1 .. l - 1 + 1 /\ 1 + i - 1 = i
    BY <1>4
  <2>. QED  BY <1>4, <2>1, <2>2
<1>. HIDE DEF v
<1>10. u = v
  BY <1>6, <1>7, <1>9, SeqEqual
<1>11. m > 0 => u # <<>>
  BY <1>4, <1>7
<1>. QED  BY <1>7, <1>10, <1>11 DEF Ring!PeekIsPrefix, u, v, s, m

-----------------------------------------------------------------------------
(* headers_map: the list of the names that the library does not know.      *)

Entries == Seq(UnknownNames \X FieldValues)

\* No name has two entries.
Apart(o) == \A i, j \in 1 .. Len(o) : o[i][1] = o[j][1] => i = j

\* The value of a name, as get() finds it.
LookUp(o, n) ==
  LET at == {i \in 1 .. Len(o) : o[i][1] = n}
  IN  IF at = {} THEN NoValue ELSE o[Headers!Min(at)][2]

LEMMA EntryParts ==
  ASSUME NEW o \in Entries
  PROVE  /\ Len(o) \in Nat
         /\ \A i \in 1 .. Len(o) : /\ o[i] \in UnknownNames \X FieldValues
                                   /\ o[i][1] \in UnknownNames /\ o[i][2] \in FieldValues
                                   /\ o[i] = <<o[i][1], o[i][2]>>
<1>1. Len(o) \in Nat /\ \A i \in 1 .. Len(o) : o[i] \in UnknownNames \X FieldValues
  BY DEF Entries
<1>. QED  BY <1>1

\* A name that has an entry has its value, and another has none.
LEMMA LookUpFinds ==
  ASSUME NEW o, Apart(o), NEW i \in 1 .. Len(o), Len(o) \in Nat
  PROVE  /\ {j \in 1 .. Len(o) : o[j][1] = o[i][1]} = {i}
         /\ Headers!Min({j \in 1 .. Len(o) : o[j][1] = o[i][1]}) = i
         /\ LookUp(o, o[i][1]) = o[i][2]
<1>1. {j \in 1 .. Len(o) : o[j][1] = o[i][1]} = {i}
  BY DEF Apart
<1>2. Headers!Min({i}) = i
  BY DEF Headers!Min
<1>. QED  BY <1>1, <1>2 DEF LookUp

LEMMA LookUpIs ==
  ASSUME NEW o, Apart(o), Len(o) \in Nat, NEW i \in 1 .. Len(o), NEW x, o[i][1] = x,
             NEW v, o[i][2] = v
  PROVE  LookUp(o, x) = v
BY LookUpFinds

LEMMA LookUpMisses ==
  ASSUME NEW o, NEW n, \A i \in 1 .. Len(o) : o[i][1] # n
  PROVE  LookUp(o, n) = NoValue
BY DEF LookUp

\* A new name is put at the end.
LEMMA ListAppends ==
  ASSUME NEW o \in Entries, Apart(o), NEW n \in UnknownNames, NEW v \in FieldValues,
         \A i \in 1 .. Len(o) : o[i][1] # n
  PROVE  LET p == Append(o, <<n, v>>)
         IN  /\ p \in Entries /\ Apart(p)
             /\ \A x : LookUp(p, x) = IF x = n THEN v ELSE LookUp(o, x)
<1>. DEFINE p == Append(o, <<n, v>>)
            l == Len(o)
<1>1. /\ l \in Nat /\ Len(p) = l + 1 /\ p \in Entries
      /\ \A i \in 1 .. l : p[i] = o[i]
      /\ p[l + 1] = <<n, v>>
  BY DEF Entries
<1>. HIDE DEF p
<1>2. ASSUME NEW i \in 1 .. l + 1, i \notin 1 .. l PROVE i = l + 1
  BY <1>1, <1>2
<1>3. Apart(p)
  <2>1. ASSUME NEW i \in 1 .. l + 1, NEW j \in 1 .. l + 1, p[i][1] = p[j][1] PROVE i = j
    <3>1. CASE i \in 1 .. l /\ j \in 1 .. l
      BY <1>1, <2>1, <3>1 DEF Apart
    <3>2. CASE i \in 1 .. l /\ j \notin 1 .. l
      BY <1>1, <1>2, <2>1, <3>2
    <3>3. CASE i \notin 1 .. l /\ j \in 1 .. l
      BY <1>1, <1>2, <2>1, <3>3
    <3>4. CASE i \notin 1 .. l /\ j \notin 1 .. l
      BY <1>2, <3>4
    <3>. QED  BY <3>1, <3>2, <3>3, <3>4
  <2>. QED  BY <1>1, <2>1 DEF Apart
<1>4. ASSUME NEW x PROVE LookUp(p, x) = IF x = n THEN v ELSE LookUp(o, x)
  <2>1. CASE x = n
    <3>1. l + 1 \in 1 .. Len(p) /\ p[l + 1][1] = x /\ p[l + 1][2] = v /\ Len(p) \in Nat
      BY <1>1, <2>1
    <3>. QED  BY <1>3, <2>1, <3>1, LookUpFinds
  <2>2. CASE x # n /\ \E i \in 1 .. l : o[i][1] = x
    <3>1. PICK i \in 1 .. l : o[i][1] = x
      BY <2>2
    <3>2. i \in 1 .. Len(p) /\ p[i] = o[i] /\ Len(p) \in Nat
      BY <1>1
    <3>3. LookUp(p, x) = o[i][2]
      BY <1>3, <3>1, <3>2, LookUpIs
    <3>4. LookUp(o, x) = o[i][2]
      BY <1>1, <3>1, LookUpIs
    <3>. QED  BY <2>2, <3>3, <3>4
  <2>3. CASE x # n /\ ~\E i \in 1 .. l : o[i][1] = x
    <3>1. ASSUME NEW i \in 1 .. Len(p) PROVE p[i][1] # x
      BY <1>1, <1>2, <2>3
    <3>. QED  BY <2>3, <3>1, LookUpMisses
  <2>. QED  BY <2>1, <2>2, <2>3
<1>. QED  BY <1>1, <1>3, <1>4 DEF p

\* A name that has an entry is given another value there.
LEMMA ListReplaces ==
  ASSUME NEW o \in Entries, Apart(o), NEW k \in 1 .. Len(o), NEW n, o[k][1] = n,
         NEW v \in FieldValues,
         NEW p \in Entries, Len(p) = Len(o), p[k] = <<n, v>>,
         \A i \in 1 .. Len(o) : i # k => p[i] = o[i]
  PROVE  /\ Apart(p)
         /\ \A x : LookUp(p, x) = IF x = n THEN v ELSE LookUp(o, x)
<1>. DEFINE l == Len(o)
<1>0. l \in Nat /\ n \in UnknownNames /\ <<n, v>> \in UnknownNames \X FieldValues
  BY EntryParts
<1>1. /\ Len(p) = l /\ p \in Entries /\ p[k] = <<n, v>>
      /\ \A i \in 1 .. l : i # k => p[i] = o[i]
  BY <1>0 DEF Entries
<1>2. \A i \in 1 .. l : p[i][1] = o[i][1]
  BY <1>1
<1>3. Apart(p)
  BY <1>1, <1>2 DEF Apart
<1>4. ASSUME NEW x PROVE LookUp(p, x) = IF x = n THEN v ELSE LookUp(o, x)
  <2>1. CASE x = n
    <3>1. k \in 1 .. Len(p) /\ p[k][1] = x /\ p[k][2] = v /\ Len(p) \in Nat
      BY <1>0, <1>1, <2>1
    <3>. QED  BY <1>3, <2>1, <3>1, LookUpIs
  <2>2. CASE x # n /\ \E i \in 1 .. l : o[i][1] = x
    <3>1. PICK i \in 1 .. l : o[i][1] = x
      BY <2>2
    <3>2. i # k /\ i \in 1 .. Len(p) /\ p[i] = o[i] /\ Len(p) \in Nat
      BY <1>0, <1>1, <2>2, <3>1
    <3>3. LookUp(p, x) = o[i][2]
      BY <1>3, <3>1, <3>2, LookUpIs
    <3>4. LookUp(o, x) = o[i][2]
      BY <1>0, <3>1, LookUpIs
    <3>. QED  BY <2>2, <3>3, <3>4
  <2>3. CASE x # n /\ ~\E i \in 1 .. l : o[i][1] = x
    <3>1. ASSUME NEW i \in 1 .. Len(p) PROVE p[i][1] # x
      BY <1>1, <1>2, <2>3
    <3>. QED  BY <2>3, <3>1, LookUpMisses
  <2>. QED  BY <2>1, <2>2, <2>3
<1>. QED  BY <1>1, <1>3, <1>4

\* An entry is taken out and the others stay in their order.
LEMMA ListRemoves ==
  ASSUME NEW o \in Entries, Apart(o), NEW k \in 1 .. Len(o)
  PROVE  LET p == Headers!RemoveAt(o, k)
         IN  /\ p \in Entries /\ Apart(p) /\ Len(p) = Len(o) - 1
             /\ \A x : LookUp(p, x) = IF x = o[k][1] THEN NoValue ELSE LookUp(o, x)
<1>. DEFINE p == Headers!RemoveAt(o, k)
            l == Len(o)
            h == k - 1
            r == l - k
            s == SubSeq(o, 1, h)
            t == SubSeq(o, k + 1, l)
            from(i) == IF i <= h THEN i ELSE i + 1
<1>0. l \in Nat /\ k \in 1 .. l /\ h \in Nat /\ r \in Nat /\ h + r = l - 1
          /\ l - 1 \in Nat
      /\ h + 1 = k
  BY EntryParts
<1>1. s \in Entries /\ Len(s) = h /\ \A i \in 1 .. h : s[i] = o[i]
  <2>1. \A i \in 1 .. h : o[i] \in UnknownNames \X FieldValues
    BY <1>0, EntryParts
  <2>2. /\ s \in Seq(UnknownNames \X FieldValues)
        /\ Len(s) = IF 1 <= h THEN h - 1 + 1 ELSE 0
        /\ \A i \in 1 .. h - 1 + 1 : s[i] = o[1 + i - 1]
    BY <1>0, <2>1, SubSeqProperties
  <2>. HIDE DEF s, h
  <2>3. \A i \in 1 .. h : i \in 1 .. h - 1 + 1 /\ 1 + i - 1 = i
    BY <1>0
  <2>. QED  BY <1>0, <2>2, <2>3 DEF Entries
<1>2. t \in Entries /\ Len(t) = r /\ \A i \in 1 .. r : t[i] = o[k + i]
  <2>1. \A i \in k + 1 .. l : o[i] \in UnknownNames \X FieldValues
    BY SMTT(20), <1>0, EntryParts
  <2>2. /\ t \in Seq(UnknownNames \X FieldValues)
        /\ Len(t) = IF k + 1 <= l THEN l - (k + 1) + 1 ELSE 0
        /\ \A i \in 1 .. l - (k + 1) + 1 : t[i] = o[(k + 1) + i - 1]
    BY <1>0, <2>1, SubSeqProperties
  <2>. HIDE DEF t, l
  <2>3. \A i \in 1 .. r : i \in 1 .. l - (k + 1) + 1 /\ (k + 1) + i - 1 = k + i
    BY <1>0
  <2>. QED  BY <1>0, <2>2, <2>3 DEF Entries
<1>3. p = s \o t
  BY DEF Headers!RemoveAt
<1>. HIDE DEF p, s, t, l, h, r
<1>4. p \in Entries /\ Len(p) = l - 1 /\ \A i \in 1 .. l - 1 : p[i] = o[from(i)]
  <2>1. /\ p \in Seq(UnknownNames \X FieldValues) /\ Len(p) = h + r
        /\ \A i \in 1 .. h + r : p[i] = IF i <= h THEN s[i] ELSE t[i - h]
    BY SMTT(20), <1>1, <1>2, <1>3, ConcatProperties DEF Entries
  <2>2. ASSUME NEW i \in 1 .. h + r PROVE p[i] = o[from(i)]
    <3>1. CASE i <= h
      <4>1. i \in 1 .. h
        BY <1>0, <3>1
      <4>. QED  BY <1>1, <2>1, <3>1, <4>1
    <3>2. CASE ~(i <= h)
      <4>. DEFINE j == i - h
      <4>1. j \in 1 .. r /\ k + j = i + 1
        BY <1>0, <3>2
      <4>. HIDE DEF j
      <4>2. t[j] = o[i + 1]
        BY <1>2, <4>1
      <4>. QED  BY <2>1, <3>2, <4>2 DEF j
    <3>. QED  BY <3>1, <3>2
  <2>. QED  BY <1>0, <2>1, <2>2 DEF Entries
<1>5. ASSUME NEW i \in 1 .. l - 1 PROVE from(i) \in 1 .. l /\ from(i) # k
  BY <1>0
<1>6. ASSUME NEW i \in 1 .. l - 1, NEW j \in 1 .. l - 1, from(i) = from(j) PROVE i = j
  BY <1>0, <1>6
<1>7. ASSUME NEW i \in 1 .. l, i # k PROVE \E j \in 1 .. l - 1 : from(j) = i
  <2>1. CASE i <= h
    <3>1. i \in 1 .. l - 1 /\ from(i) = i
      BY <1>0, <2>1
    <3>. QED  BY <3>1
  <2>2. CASE ~(i <= h)
    <3>1. i - 1 \in 1 .. l - 1 /\ from(i - 1) = i
      BY <1>0, <1>7, <2>2
    <3>. QED  BY <3>1
  <2>. QED  BY <2>1, <2>2
<1>. HIDE DEF from
<1>8. Apart(p)
  <2>1. ASSUME NEW i \in 1 .. l - 1, NEW j \in 1 .. l - 1, p[i][1] = p[j][1] PROVE i = j
    <3>1. o[from(i)][1] = o[from(j)][1]
      BY <1>4, <2>1
    <3>2. from(i) = from(j)
      BY <1>5, <3>1 DEF Apart, l
    <3>. QED  BY <1>6, <3>2
  <2>. QED  BY <1>4, <2>1 DEF Apart
<1>9. ASSUME NEW x PROVE LookUp(p, x) = IF x = o[k][1] THEN NoValue ELSE LookUp(o, x)
  <2>1. CASE x = o[k][1]
    <3>1. ASSUME NEW i \in 1 .. Len(p) PROVE p[i][1] # x
      <4>1. i \in 1 .. l - 1 /\ from(i) \in 1 .. l /\ from(i) # k /\ p[i] = o[from(i)]
        BY <1>4, <1>5
      <4>. QED  BY <1>0, <2>1, <4>1 DEF Apart, l
    <3>. QED  BY <2>1, <3>1, LookUpMisses
  <2>2. CASE x # o[k][1] /\ \E i \in 1 .. l : o[i][1] = x
    <3>1. PICK i \in 1 .. l : o[i][1] = x
      BY <2>2
    <3>2. i # k
      BY <2>2, <3>1
    <3>3. PICK j \in 1 .. l - 1 : from(j) = i
      BY <1>7, <3>2
    <3>4. j \in 1 .. Len(p) /\ p[j] = o[i] /\ Len(p) \in Nat
      BY <1>0, <1>4, <3>3
    <3>5. LookUp(p, x) = o[i][2]
      BY <1>8, <3>1, <3>4, LookUpIs
    <3>6. LookUp(o, x) = o[i][2]
      BY <1>0, <3>1, LookUpFinds DEF l
    <3>. QED  BY <2>2, <3>5, <3>6
  <2>3. CASE x # o[k][1] /\ ~\E i \in 1 .. l : o[i][1] = x
    <3>1. ASSUME NEW i \in 1 .. Len(p) PROVE p[i][1] # x
      <4>1. i \in 1 .. l - 1 /\ from(i) \in 1 .. l /\ p[i] = o[from(i)]
        BY <1>4, <1>5
      <4>. QED  BY <2>3, <4>1
    <3>2. LookUp(p, x) = NoValue
      BY <3>1, LookUpMisses
    <3>3. LookUp(o, x) = NoValue
      BY <2>3, LookUpMisses DEF l
    <3>. QED  BY <2>3, <3>2, <3>3
  <2>. QED  BY <2>1, <2>2, <2>3
<1>. QED  BY <1>4, <1>8, <1>9 DEF p, l

\* A list has a name for each entry.
LEMMA NamesOfList ==
  ASSUME NEW o \in Entries, Apart(o), NEW N, N = {o[i][1] : i \in 1 .. Len(o)}
  PROVE  IsFiniteSet(N) /\ Cardinality(N) = Len(o)
<1>. DEFINE l == Len(o)
            I == 1 .. l
            f == [i \in I |-> o[i][1]]
<1>1. l \in Nat /\ \A i \in I : o[i][1] \in UnknownNames
  BY EntryParts
<1>2. IsFiniteSet(I) /\ Cardinality(I) = l
  BY <1>1, FS_Interval
<1>3. f \in Surjection(I, N) /\ f \in Injection(I, N)
  <2>1. \A i, j \in I : o[i][1] = o[j][1] => i = j
    BY DEF Apart
  <2>. HIDE DEF I
  <2>2. N = {o[i][1] : i \in I}
    BY DEF I
  <2>3. f \in [I -> N] /\ \A i \in I : f[i] = o[i][1]
    BY <2>2
  <2>4. \A n \in N : \E i \in I : f[i] = n
    BY <2>2, <2>3
  <2>. HIDE DEF f
  <2>5. f \in Surjection(I, N)
    BY <2>3, <2>4 DEF Surjection
  <2>6. \A i, j \in I : f[i] = f[j] => i = j
    BY <2>1, <2>3
  <2>7. f \in Injection(I, N)
    BY <2>3, <2>6 DEF Injection, IsInjective
  <2>. QED  BY <2>5, <2>7
<1>4. /\ IsFiniteSet(N)
      /\ Cardinality(N) = Cardinality(I)
  <2>. HIDE DEF I, f
  <2>. QED  BY <1>2, <1>3, FS_Surjection
<1>. QED  BY <1>2, <1>4

-----------------------------------------------------------------------------
(* headers_map: the table, the fields touched and the two counts.          *)

FieldNames == KnownFields \union UnknownNames
NonEmpty(tb) == {f \in KnownFields : tb[f] # NoValue}

\* One map: its table, count, touched fields, flags and list.
MapRight(tb, ct, tc, fl, ot) ==
  /\ tc \in Seq(KnownFields) /\ fl \subseteq KnownFields
  /\ ot \in Entries /\ Apart(ot)
  /\ IF tb = <<>> THEN ct = 0 /\ ot = <<>>
     ELSE /\ tb \in [KnownFields -> FieldValues \union {NoValue}]
          /\ Headers!IsInjective(tc) /\ Headers!ToSet(tc) = fl
          /\ NonEmpty(tb) \subseteq fl
          /\ ct = Cardinality(NonEmpty(tb))

HeadersRight ==
  /\ headers_table = [m \in Maps |-> headers_table[m]]
  /\ headers_count = [m \in Maps |-> headers_count[m]]
  /\ headers_touched = [m \in Maps |-> headers_touched[m]]
  /\ headers_flags = [m \in Maps |-> headers_flags[m]]
  /\ headers_others = [m \in Maps |-> headers_others[m]]
  /\ \A m \in Maps : MapRight(headers_table[m], headers_count[m], headers_touched[m],
                              headers_flags[m], headers_others[m])

\* What get() returns, from the table and the list of a map.
ValueIn(tb, ot, n) ==
  IF tb = <<>> THEN NoValue
  ELSE IF n \in KnownFields THEN tb[n] ELSE LookUp(ot, n)

LEMMA GetIs ==
  ASSUME NEW m, NEW n
  PROVE  /\ Headers!Get(m, n) = ValueIn(headers_table[m], headers_others[m], n)
         /\ Headers!Get(m, n)' = ValueIn(headers_table'[m], headers_others'[m], n)
BY DEF Headers!Get, Headers!Usable, Headers!NoTable, ValueIn, LookUp

LEMMA EmptyTableIs ==
  ASSUME Headers!HeadersAssumption
  PROVE  /\ Headers!EmptyTable # <<>>
         /\ Headers!EmptyTable \in [KnownFields -> FieldValues \union {NoValue}]
         /\ \A f \in KnownFields : Headers!EmptyTable[f] = NoValue
         /\ NonEmpty(Headers!EmptyTable) = {}
<1>1. KnownFields # {}
  BY DEF Headers!HeadersAssumption
<1>2. Headers!EmptyTable = [f \in KnownFields |-> NoValue]
  BY DEF Headers!EmptyTable
<1>3. DOMAIN Headers!EmptyTable = KnownFields /\ DOMAIN <<>> = {}
  BY <1>2
<1>. QED  BY <1>1, <1>2, <1>3 DEF NonEmpty

\* A map in which nothing is set.
LEMMA NothingSet ==
  ASSUME NEW tb \in [KnownFields -> FieldValues \union {NoValue}], NonEmpty(tb) = {}
  PROVE  /\ tb # <<>> => MapRight(tb, 0, <<>>, {}, <<>>)
         /\ \A n \in FieldNames : ValueIn(tb, <<>>, n) = NoValue
<1>1. Apart(<<>>) /\ <<>> \in Entries /\ \A n : LookUp(<<>>, n) = NoValue
  BY DEF Apart, Entries, LookUp
<1>2. Headers!IsInjective(<<>>) /\ Headers!ToSet(<<>>) = {}
  BY DEF Headers!IsInjective, Headers!ToSet
<1>3. Cardinality(NonEmpty(tb)) = 0
  BY FS_EmptySet
<1>4. \A n \in KnownFields : tb[n] = NoValue
  BY DEF NonEmpty
<1>5. <<>> \in Seq(KnownFields)
  OBVIOUS
<1>. QED  BY <1>1, <1>2, <1>3, <1>4, <1>5 DEF MapRight, ValueIn

\* When one map changes.
LEMMA OneMapChanges ==
  ASSUME HeadersRight, NEW m \in Maps, NEW tb, NEW ct, NEW tc, NEW fl, NEW ot,
         headers_table' = [headers_table EXCEPT ![m] = tb],
         headers_count' = [headers_count EXCEPT ![m] = ct],
         headers_touched' = [headers_touched EXCEPT ![m] = tc],
         headers_flags' = [headers_flags EXCEPT ![m] = fl],
         headers_others' = [headers_others EXCEPT ![m] = ot],
         MapRight(tb, ct, tc, fl, ot)
  PROVE  /\ HeadersRight'
         /\ headers_table'[m] = tb /\ headers_others'[m] = ot
         /\ \A k \in Maps \ {m} : /\ headers_table'[k] = headers_table[k]
                                  /\ headers_others'[k] = headers_others[k]
<1>1. /\ headers_table' = [k \in Maps |-> IF k = m THEN tb ELSE headers_table[k]]
      /\ headers_count' = [k \in Maps |-> IF k = m THEN ct ELSE headers_count[k]]
      /\ headers_touched' = [k \in Maps |-> IF k = m THEN tc ELSE headers_touched[k]]
      /\ headers_flags' = [k \in Maps |-> IF k = m THEN fl ELSE headers_flags[k]]
      /\ headers_others' = [k \in Maps |-> IF k = m THEN ot ELSE headers_others[k]]
  BY DEF HeadersRight
<1>2. ASSUME NEW k \in Maps
      PROVE  MapRight(headers_table'[k], headers_count'[k], headers_touched'[k],
                      headers_flags'[k], headers_others'[k])
  BY <1>1 DEF HeadersRight
<1>3. /\ headers_table' = [k \in Maps |-> headers_table'[k]]
      /\ headers_count' = [k \in Maps |-> headers_count'[k]]
      /\ headers_touched' = [k \in Maps |-> headers_touched'[k]]
      /\ headers_flags' = [k \in Maps |-> headers_flags'[k]]
      /\ headers_others' = [k \in Maps |-> headers_others'[k]]
  BY <1>1
<1>4. HeadersRight'
  BY <1>2, <1>3 DEF HeadersRight
<1>. QED  BY <1>1, <1>4

\* The steps of the abstract map, from the values that are found.
LEMMA PutIs ==
  ASSUME NEW m \in Maps, NEW n \in FieldNames, NEW v,
         \A a \in Maps, x \in FieldNames :
           Headers!Get(a, x)' = IF a = m /\ x = n THEN v ELSE Headers!Get(a, x)
  PROVE  Headers!Fields!Put(m, n, v)
BY DEF Headers!Fields!Put, FieldNames

LEMMA EmptyIs ==
  ASSUME NEW m \in Maps,
         \A a \in Maps, x \in FieldNames :
           Headers!Get(a, x)' = IF a = m THEN NoValue ELSE Headers!Get(a, x)
  PROVE  Headers!Fields!Empty(m)
BY DEF Headers!Fields!Empty, FieldNames

LEMMA TakeIs ==
  ASSUME NEW a \in Maps, NEW b \in Maps, a # b,
         \A c \in Maps, x \in FieldNames :
           Headers!Get(c, x)' = IF c = b THEN NoValue
                                ELSE IF c = a THEN Headers!Get(b, x) ELSE Headers!Get(c,
                                    x)
  PROVE  Headers!Fields!Take(a, b)
BY DEF Headers!Fields!Take, FieldNames

\* A list or a table in which one name has another value.
LEMMA PutInMap ==
  ASSUME Headers!HeadersAssumption, HeadersRight, NEW m \in Maps, NEW n \in FieldNames,
             NEW v,
         NEW tb, NEW ct, NEW tc, NEW fl, NEW ot,
         headers_table' = [headers_table EXCEPT ![m] = tb],
         headers_count' = [headers_count EXCEPT ![m] = ct],
         headers_touched' = [headers_touched EXCEPT ![m] = tc],
         headers_flags' = [headers_flags EXCEPT ![m] = fl],
         headers_others' = [headers_others EXCEPT ![m] = ot],
         MapRight(tb, ct, tc, fl, ot),
         \A x \in FieldNames : ValueIn(tb, ot, x) =
           IF x = n THEN v ELSE ValueIn(headers_table[m], headers_others[m], x)
  PROVE  HeadersRight' /\ Headers!Fields!Put(m, n, v)
<1>1. /\ HeadersRight'
      /\ headers_table'[m] = tb /\ headers_others'[m] = ot
      /\ \A k \in Maps \ {m} : /\ headers_table'[k] = headers_table[k]
                               /\ headers_others'[k] = headers_others[k]
  BY OneMapChanges
<1>2. ASSUME NEW a \in Maps, NEW x \in FieldNames
      PROVE  Headers!Get(a, x)' = IF a = m /\ x = n THEN v ELSE Headers!Get(a, x)
  <2>1. /\ Headers!Get(a, x) = ValueIn(headers_table[a], headers_others[a], x)
        /\ Headers!Get(a, x)' = ValueIn(headers_table'[a], headers_others'[a], x)
    BY GetIs
  <2>. QED  BY <1>1, <2>1
<1>. QED  BY <1>1, <1>2, PutIs

LEMMA MapParts ==
  ASSUME HeadersRight, NEW m \in Maps, Headers!Usable(m)
  PROVE  /\ headers_table[m] \in [KnownFields -> FieldValues \union {NoValue}]
         /\ headers_touched[m] \in Seq(KnownFields)
                /\ headers_flags[m] \subseteq KnownFields
         /\ headers_others[m] \in Entries /\ Apart(headers_others[m])
         /\ Headers!IsInjective(headers_touched[m])
         /\ Headers!ToSet(headers_touched[m]) = headers_flags[m]
         /\ NonEmpty(headers_table[m]) \subseteq headers_flags[m]
         /\ headers_count[m] = Cardinality(NonEmpty(headers_table[m]))
         /\ headers_table[m] # <<>>
BY DEF HeadersRight, MapRight, Headers!Usable, Headers!NoTable

\* A field more is touched.
LEMMA OneMoreTouched ==
  ASSUME NEW tc \in Seq(KnownFields), NEW f \in KnownFields, Headers!IsInjective(tc),
         f \notin Headers!ToSet(tc)
  PROVE  /\ Append(tc, f) \in Seq(KnownFields) /\ Headers!IsInjective(Append(tc, f))
         /\ Headers!ToSet(Append(tc, f)) = Headers!ToSet(tc) \union {f}
<1>. DEFINE l == Len(tc)
            p == Append(tc, f)
<1>1. /\ l \in Nat /\ Len(p) = l + 1 /\ p \in Seq(KnownFields)
      /\ \A i \in 1 .. l : p[i] = tc[i]
      /\ p[l + 1] = f /\ DOMAIN p = 1 .. l + 1 /\ DOMAIN tc = 1 .. l
  OBVIOUS
<1>. HIDE DEF p, l
<1>2. ASSUME NEW i \in 1 .. l + 1 PROVE i = l + 1 \/ i \in 1 .. l
  BY <1>1
<1>3. l + 1 \in 1 .. l + 1 /\ \A i \in 1 .. l : i \in 1 .. l + 1
  BY <1>1
<1>4. \A i \in 1 .. l : tc[i] # f
  BY <1>1 DEF Headers!ToSet
<1>5. ASSUME NEW i \in 1 .. l + 1, NEW j \in 1 .. l + 1, p[i] = p[j] PROVE i = j
  BY <1>1, <1>2, <1>4, <1>5 DEF Headers!IsInjective
<1>6. Headers!IsInjective(p)
  BY <1>1, <1>5 DEF Headers!IsInjective
<1>7. Headers!ToSet(p) = Headers!ToSet(tc) \union {f}
  BY <1>1, <1>2, <1>3 DEF Headers!ToSet
<1>. QED  BY <1>1, <1>6, <1>7 DEF p

LEMMA SetKnownKeeps ==
  ASSUME Headers!HeadersAssumption, HeadersRight,
         NEW m \in Maps, NEW f \in KnownFields, NEW v \in FieldValues,
             Headers!SetKnown(m, f, v)
  PROVE  HeadersRight' /\ Headers!Fields!Put(m, f, v)
<1>. DEFINE tb == [headers_table[m] EXCEPT ![f] = v]
            empty == headers_table[m][f] = NoValue
            more == empty /\ f \notin headers_flags[m]
            ct == IF empty THEN headers_count[m] + 1 ELSE headers_count[m]
            tc == IF more THEN Append(headers_touched[m], f) ELSE headers_touched[m]
            fl == IF more THEN headers_flags[m] \union {f} ELSE headers_flags[m]
            old == NonEmpty(headers_table[m])
<1>1. Headers!Usable(m) /\ f \in FieldNames /\ v # NoValue
  BY DEF Headers!SetKnown, FieldNames, Headers!HeadersAssumption
<1>a. IsFiniteSet(KnownFields)
  <2>1. Headers!IsFiniteSet(KnownFields)
    BY DEF Headers!HeadersAssumption
  <2>. QED  BY <2>1 DEF Headers!IsFiniteSet, IsFiniteSet
<1>2. /\ headers_table[m] \in [KnownFields -> FieldValues \union {NoValue}]
      /\ headers_touched[m] \in Seq(KnownFields) /\ headers_flags[m] \subseteq KnownFields
      /\ headers_others[m] \in Entries /\ Apart(headers_others[m])
      /\ Headers!IsInjective(headers_touched[m])
      /\ Headers!ToSet(headers_touched[m]) = headers_flags[m]
      /\ old \subseteq headers_flags[m]
      /\ headers_count[m] = Cardinality(old)
      /\ headers_table[m] # <<>>
  BY <1>1, MapParts
<1>3. /\ headers_table' = [headers_table EXCEPT ![m] = tb]
      /\ headers_count' = [headers_count EXCEPT ![m] = ct]
      /\ headers_touched' = [headers_touched EXCEPT ![m] = tc]
      /\ headers_flags' = [headers_flags EXCEPT ![m] = fl]
      /\ headers_others' = [headers_others EXCEPT ![m] = headers_others[m]]
  <2>1. /\ headers_table' = [headers_table EXCEPT ![m] = tb]
        /\ headers_others' = [headers_others EXCEPT ![m] = headers_others[m]]
    BY DEF Headers!SetKnown, HeadersRight
  <2>2. headers_count' = [headers_count EXCEPT ![m] = ct]
    BY DEF Headers!SetKnown, HeadersRight
  <2>3. /\ headers_touched' = [headers_touched EXCEPT ![m] = tc]
        /\ headers_flags' = [headers_flags EXCEPT ![m] = fl]
    BY DEF Headers!SetKnown, Headers!Touch, HeadersRight
  <2>. QED  BY <2>1, <2>2, <2>3
<1>4. /\ tb \in [KnownFields -> FieldValues \union {NoValue}] /\ tb # <<>>
      /\ NonEmpty(tb) = old \union {f}
      /\ f \in old <=> ~empty
  <2>1. tb \in [KnownFields -> FieldValues \union {NoValue}] /\ DOMAIN tb = KnownFields
    BY <1>2
  <2>2. NonEmpty(tb) = old \union {f}
    BY <1>1, <1>2 DEF NonEmpty
  <2>3. DOMAIN <<>> = {} /\ f \in KnownFields
    OBVIOUS
  <2>. QED  BY <2>1, <2>2, <2>3 DEF NonEmpty
<1>5. ct = Cardinality(NonEmpty(tb))
  <2>1. IsFiniteSet(old)
    BY <1>a, FS_Subset DEF NonEmpty
  <2>. DEFINE all == NonEmpty(tb)
  <2>2. all = old \union {f}
    BY <1>4
  <2>3. f \in old => headers_count[m] = ct
    BY <1>4
  <2>4. f \notin old => headers_count[m] + 1 = ct
    BY <1>4
  <2>. HIDE DEF old, all, ct
  <2>5. Cardinality(all) = IF f \in old THEN Cardinality(old) ELSE Cardinality(old) + 1
    BY <2>1, <2>2, FS_AddElement
  <2>. QED  BY <1>2, <2>3, <2>4, <2>5 DEF all
<1>6. tc \in Seq(KnownFields) /\ Headers!IsInjective(tc) /\ Headers!ToSet(tc) = fl
      /\ fl \subseteq KnownFields /\ NonEmpty(tb) \subseteq fl
  <2>. HIDE DEF tb, old, empty
  <2>1. CASE more
    BY <1>2, <1>4, <2>1, OneMoreTouched
  <2>2. CASE ~more
    <3>1. f \in headers_flags[m]
      BY <1>2, <1>4, <2>2
    <3>. QED  BY <1>2, <1>4, <2>2, <3>1
  <2>. QED  BY <2>1, <2>2
<1>7. MapRight(tb, ct, tc, fl, headers_others[m])
  <2>. HIDE DEF tb, ct, tc, fl
  <2>. QED  BY <1>2, <1>4, <1>5, <1>6 DEF MapRight
<1>8. \A x \in FieldNames : ValueIn(tb, headers_others[m], x) =
        IF x = f THEN v ELSE ValueIn(headers_table[m], headers_others[m], x)
  BY <1>2, <1>4 DEF ValueIn
<1>. HIDE DEF tb, ct, tc, fl
<1>. QED  BY ZenonT(30), <1>1, <1>3, <1>7, <1>8, PutInMap

LEMMA RemoveKnownKeeps ==
  ASSUME Headers!HeadersAssumption, HeadersRight,
         NEW m \in Maps, NEW f \in KnownFields, Headers!RemoveKnown(m, f)
  PROVE  HeadersRight' /\ Headers!Fields!Put(m, f, NoValue)
<1>. DEFINE tb == [headers_table[m] EXCEPT ![f] = NoValue]
            old == NonEmpty(headers_table[m])
            all == NonEmpty(tb)
            n == headers_count[m]
            ct == IF n > 0 THEN n - 1 ELSE n
<1>1. Headers!Usable(m) /\ f \in FieldNames /\ headers_table[m][f] # NoValue
  BY DEF Headers!RemoveKnown, FieldNames
<1>a. IsFiniteSet(KnownFields)
  <2>1. Headers!IsFiniteSet(KnownFields)
    BY DEF Headers!HeadersAssumption
  <2>. QED  BY <2>1 DEF Headers!IsFiniteSet, IsFiniteSet
<1>2. /\ headers_table[m] \in [KnownFields -> FieldValues \union {NoValue}]
      /\ headers_touched[m] \in Seq(KnownFields) /\ headers_flags[m] \subseteq KnownFields
      /\ headers_others[m] \in Entries /\ Apart(headers_others[m])
      /\ Headers!IsInjective(headers_touched[m])
      /\ Headers!ToSet(headers_touched[m]) = headers_flags[m]
      /\ old \subseteq headers_flags[m]
      /\ n = Cardinality(old)
      /\ headers_table[m] # <<>>
  BY <1>1, MapParts
<1>3. /\ headers_table' = [headers_table EXCEPT ![m] = tb]
      /\ headers_count' = [headers_count EXCEPT ![m] = ct]
      /\ headers_touched' = [headers_touched EXCEPT ![m] = headers_touched[m]]
      /\ headers_flags' = [headers_flags EXCEPT ![m] = headers_flags[m]]
      /\ headers_others' = [headers_others EXCEPT ![m] = headers_others[m]]
  BY DEF Headers!RemoveKnown, HeadersRight
<1>4. /\ tb \in [KnownFields -> FieldValues \union {NoValue}] /\ tb # <<>>
      /\ all = old \ {f} /\ f \in old
  <2>1. tb \in [KnownFields -> FieldValues \union {NoValue}] /\ DOMAIN tb = KnownFields
    BY <1>2
  <2>2. all = old \ {f} /\ f \in old
    BY <1>1, <1>2 DEF NonEmpty
  <2>3. DOMAIN <<>> = {} /\ f \in KnownFields
    OBVIOUS
  <2>. QED  BY <2>1, <2>2, <2>3
<1>5. ct = Cardinality(all)
  <2>1. IsFiniteSet(old)
    BY <1>a, FS_Subset DEF NonEmpty
  <2>. HIDE DEF old, all, n
  <2>2. Cardinality(all) = n - 1
    BY <1>2, <1>4, <2>1, FS_RemoveElement
  <2>3. n \in Nat /\ Cardinality(all) \in Nat
    <3>1. IsFiniteSet(all)
      BY <1>4, <2>1, FS_RemoveElement
    <3>. QED  BY <1>2, <2>1, <3>1, FS_CardinalityType
  <2>. QED  BY <2>2, <2>3
<1>6. MapRight(tb, ct, headers_touched[m], headers_flags[m], headers_others[m])
  <2>1. NonEmpty(tb) \subseteq headers_flags[m]
    BY <1>2, <1>4
  <2>. HIDE DEF tb, ct
  <2>. QED  BY <1>2, <1>4, <1>5, <2>1 DEF MapRight
<1>7. \A x \in FieldNames : ValueIn(tb, headers_others[m], x) =
        IF x = f THEN NoValue ELSE ValueIn(headers_table[m], headers_others[m], x)
  BY <1>2, <1>4 DEF ValueIn
<1>. DEFINE tc == headers_touched[m]
            fl == headers_flags[m]
            ot == headers_others[m]
<1>8. /\ headers_table' = [headers_table EXCEPT ![m] = tb]
      /\ headers_count' = [headers_count EXCEPT ![m] = ct]
      /\ headers_touched' = [headers_touched EXCEPT ![m] = tc]
      /\ headers_flags' = [headers_flags EXCEPT ![m] = fl]
      /\ headers_others' = [headers_others EXCEPT ![m] = ot]
      /\ MapRight(tb, ct, tc, fl, ot)
  BY <1>3, <1>6
<1>10. \A x \in FieldNames : ValueIn(tb, ot, x) =
         IF x = f THEN NoValue ELSE ValueIn(headers_table[m], headers_others[m], x)
  BY <1>7
<1>. HIDE DEF tb, ct, n, old, all, tc, fl, ot
<1>11. /\ HeadersRight'
       /\ headers_table'[m] = tb /\ headers_others'[m] = ot
       /\ \A k \in Maps \ {m} : /\ headers_table'[k] = headers_table[k]
                                /\ headers_others'[k] = headers_others[k]
  BY <1>8, OneMapChanges
<1>12. ASSUME NEW a \in Maps, NEW x \in FieldNames
       PROVE  Headers!Get(a, x)' = IF a = m /\ x = f THEN NoValue ELSE Headers!Get(a, x)
  <2>1. /\ Headers!Get(a, x) = ValueIn(headers_table[a], headers_others[a], x)
        /\ Headers!Get(a, x)' = ValueIn(headers_table'[a], headers_others'[a], x)
    BY GetIs
  <2>. QED  BY <1>10, <1>11, <2>1
<1>. QED  BY <1>1, <1>11, <1>12, PutIs

\* Only the list of a map changes.
LEMMA ListChanges ==
  ASSUME Headers!HeadersAssumption, HeadersRight, NEW m \in Maps, Headers!Usable(m),
         NEW n \in UnknownNames, NEW v, NEW ot, ot \in Entries, Apart(ot),
         \A x : LookUp(ot, x) = IF x = n THEN v ELSE LookUp(headers_others[m], x),
         headers_others' = [headers_others EXCEPT ![m] = ot],
         UNCHANGED <<headers_table, headers_count, headers_touched, headers_flags>>
  PROVE  HeadersRight' /\ Headers!Fields!Put(m, n, v)
<1>1. /\ headers_table[m] \in [KnownFields -> FieldValues \union {NoValue}]
      /\ headers_touched[m] \in Seq(KnownFields) /\ headers_flags[m] \subseteq KnownFields
      /\ Headers!IsInjective(headers_touched[m])
      /\ Headers!ToSet(headers_touched[m]) = headers_flags[m]
      /\ NonEmpty(headers_table[m]) \subseteq headers_flags[m]
      /\ headers_count[m] = Cardinality(NonEmpty(headers_table[m]))
      /\ headers_table[m] # <<>>
  BY MapParts
<1>2. /\ headers_table' = [headers_table EXCEPT ![m] = headers_table[m]]
      /\ headers_count' = [headers_count EXCEPT ![m] = headers_count[m]]
      /\ headers_touched' = [headers_touched EXCEPT ![m] = headers_touched[m]]
      /\ headers_flags' = [headers_flags EXCEPT ![m] = headers_flags[m]]
  BY DEF HeadersRight
<1>3. MapRight(headers_table[m], headers_count[m], headers_touched[m], headers_flags[m],
          ot)
  BY <1>1 DEF MapRight
<1>4. n \in FieldNames /\ n \notin KnownFields
  BY DEF FieldNames, Headers!HeadersAssumption
<1>5. \A x \in FieldNames : ValueIn(headers_table[m], ot, x) =
        IF x = n THEN v ELSE ValueIn(headers_table[m], headers_others[m], x)
  BY <1>1, <1>4 DEF ValueIn
<1>. QED  BY <1>2, <1>3, <1>4, <1>5, PutInMap

LEMMA SetUnknownKeeps ==
  ASSUME Headers!HeadersAssumption, HeadersRight,
         NEW m \in Maps, NEW n \in UnknownNames, NEW v \in FieldValues,
             Headers!SetUnknown(m, n, v)
  PROVE  HeadersRight' /\ Headers!Fields!Put(m, n, v)
<1>. DEFINE o == headers_others[m]
            at == {i \in 1 .. Len(o) : o[i][1] = n}
<1>1. /\ Headers!Usable(m)
      /\ headers_others' = [headers_others EXCEPT ![m] =
           IF at = {} THEN Append(o, <<n, v>>) ELSE [o EXCEPT ![Headers!Min(at)] = <<n,
               v>>]]
      /\ UNCHANGED <<headers_table, headers_count, headers_touched, headers_flags>>
  BY DEF Headers!SetUnknown, HeadersRight
<1>2. o \in Entries /\ Apart(o) /\ Len(o) \in Nat
  BY <1>1, MapParts, EntryParts
<1>3. CASE at = {}
  <2>. DEFINE p == Append(o, <<n, v>>)
  <2>1. \A i \in 1 .. Len(o) : o[i][1] # n
    BY <1>3
  <2>. HIDE DEF o
  <2>2. p \in Entries /\ Apart(p) /\ \A x : LookUp(p, x) = IF x = n THEN v ELSE LookUp(o,
            x)
    BY <1>2, <2>1, ListAppends
  <2>3. headers_others' = [headers_others EXCEPT ![m] = p]
    BY <1>1, <1>3
  <2>. HIDE DEF p
  <2>. QED  BY <1>1, <2>2, <2>3, ListChanges DEF o
<1>4. CASE at # {}
  <2>1. PICK k \in 1 .. Len(o) : o[k][1] = n
    BY <1>4
  <2>. HIDE DEF o
  <2>2. at = {j \in 1 .. Len(o) : o[j][1] = o[k][1]}
    BY <2>1
  <2>3. Headers!Min({j \in 1 .. Len(o) : o[j][1] = o[k][1]}) = k
    BY <1>2, LookUpFinds
  <2>. DEFINE p == [o EXCEPT ![k] = <<n, v>>]
  <2>a. /\ p \in Entries /\ Len(p) = Len(o) /\ p[k] = <<n, v>>
        /\ \A i \in 1 .. Len(o) : i # k => p[i] = o[i]
    <3>1. <<n, v>> \in UnknownNames \X FieldValues
      OBVIOUS
    <3>. QED  BY <1>2, <2>1, <3>1 DEF Entries
  <2>b. headers_others' = [headers_others EXCEPT ![m] = p]
    BY <1>1, <1>4, <2>2, <2>3
  <2>. HIDE DEF p
  <2>4. p \in Entries /\ Apart(p) /\ \A x : LookUp(p, x) = IF x = n THEN v ELSE LookUp(o,
            x)
    BY <1>2, <2>1, <2>a, ListReplaces
  <2>. QED  BY <1>1, <2>4, <2>b, ListChanges DEF o
<1>. QED  BY <1>3, <1>4

LEMMA RemoveUnknownKeeps ==
  ASSUME Headers!HeadersAssumption, HeadersRight,
         NEW m \in Maps, NEW n \in UnknownNames, Headers!RemoveUnknown(m, n)
  PROVE  HeadersRight' /\ Headers!Fields!Put(m, n, NoValue)
<1>. DEFINE o == headers_others[m]
<1>1. PICK k \in 1 .. Len(o) :
        o[k][1] = n
            /\ headers_others' = [headers_others EXCEPT ![m] = Headers!RemoveAt(o, k)]
  BY DEF Headers!RemoveUnknown, HeadersRight
<1>2. /\ Headers!Usable(m)
      /\ UNCHANGED <<headers_table, headers_count, headers_touched, headers_flags>>
  BY DEF Headers!RemoveUnknown
<1>3. o \in Entries /\ Apart(o)
  BY <1>2, MapParts
<1>. HIDE DEF o
<1>. DEFINE p == Headers!RemoveAt(o, k)
<1>4. p \in Entries /\ Apart(p) /\ \A x : LookUp(p,
          x) = IF x = n THEN NoValue ELSE LookUp(o, x)
  BY <1>1, <1>3, ListRemoves
<1>5. headers_others' = [headers_others EXCEPT ![m] = p]
  BY <1>1
<1>. HIDE DEF p
<1>. QED  BY <1>2, <1>4, <1>5, ListChanges DEF o

\* A map that is emptied, in place or by a new one.
LEMMA EmptiedMap ==
  ASSUME Headers!HeadersAssumption, HeadersRight, NEW m \in Maps,
         NEW tb \in [KnownFields -> FieldValues \union {NoValue}], NonEmpty(tb) = {},
             tb # <<>>,
         headers_table' = [headers_table EXCEPT ![m] = tb],
         headers_count' = [headers_count EXCEPT ![m] = 0],
         headers_touched' = [headers_touched EXCEPT ![m] = <<>>],
         headers_flags' = [headers_flags EXCEPT ![m] = {}],
         headers_others' = [headers_others EXCEPT ![m] = <<>>]
  PROVE  HeadersRight' /\ Headers!Fields!Empty(m)
<1>1. MapRight(tb, 0, <<>>, {}, <<>>) /\ \A n \in FieldNames : ValueIn(tb, <<>>,
          n) = NoValue
  BY NothingSet
<1>2. /\ HeadersRight'
      /\ headers_table'[m] = tb /\ headers_others'[m] = <<>>
      /\ \A k \in Maps \ {m} : /\ headers_table'[k] = headers_table[k]
                               /\ headers_others'[k] = headers_others[k]
  BY <1>1, OneMapChanges
<1>3. ASSUME NEW a \in Maps, NEW x \in FieldNames
      PROVE  Headers!Get(a, x)' = IF a = m THEN NoValue ELSE Headers!Get(a, x)
  <2>1. /\ Headers!Get(a, x) = ValueIn(headers_table[a], headers_others[a], x)
        /\ Headers!Get(a, x)' = ValueIn(headers_table'[a], headers_others'[a], x)
    BY GetIs
  <2>. QED  BY <1>1, <1>2, <2>1
<1>. QED  BY <1>2, <1>3, EmptyIs

LEMMA HeadersClearKeeps ==
  ASSUME Headers!HeadersAssumption, HeadersRight, NEW m \in Maps, Headers!Clear(m)
  PROVE  HeadersRight' /\ Headers!Fields!Empty(m)
<1>. DEFINE tc == Headers!ToSet(headers_touched[m])
            old == headers_table[m]
            tb == [f \in KnownFields |-> IF f \in tc THEN NoValue ELSE old[f]]
<1>1. /\ Headers!Usable(m)
      /\ headers_table' = [headers_table EXCEPT ![m] = tb]
      /\ headers_count' = [headers_count EXCEPT ![m] = 0]
      /\ headers_touched' = [headers_touched EXCEPT ![m] = <<>>]
      /\ headers_flags' = [headers_flags EXCEPT ![m] = headers_flags[m] \ tc]
      /\ headers_others' = [headers_others EXCEPT ![m] = <<>>]
  BY DEF Headers!Clear, HeadersRight
<1>2. /\ old \in [KnownFields -> FieldValues \union {NoValue}]
      /\ tc = headers_flags[m] /\ NonEmpty(old) \subseteq headers_flags[m]
  BY <1>1, MapParts
<1>. HIDE DEF tc
<1>3. tb \in [KnownFields -> FieldValues \union {NoValue}] /\ NonEmpty(tb) = {}
  BY <1>2 DEF NonEmpty
<1>4. tb # <<>>
  <2>1. DOMAIN tb = KnownFields /\ DOMAIN <<>> = {} /\ KnownFields # {}
    BY DEF Headers!HeadersAssumption
  <2>. QED  BY <2>1
<1>5. headers_flags' = [headers_flags EXCEPT ![m] = {}]
  BY <1>1, <1>2
<1>. HIDE DEF tb
<1>. QED  BY <1>1, <1>3, <1>4, <1>5, EmptiedMap

LEMMA AssignNewKeeps ==
  ASSUME Headers!HeadersAssumption, HeadersRight, NEW m \in Maps, Headers!AssignNew(m)
  PROVE  HeadersRight' /\ Headers!Fields!Empty(m)
<1>1. /\ Headers!EmptyTable # <<>>
      /\ Headers!EmptyTable \in [KnownFields -> FieldValues \union {NoValue}]
      /\ NonEmpty(Headers!EmptyTable) = {}
  BY EmptyTableIs
<1>. QED  BY <1>1, EmptiedMap DEF Headers!AssignNew

LEMMA HeadersMoveKeeps ==
  ASSUME Headers!HeadersAssumption, HeadersRight, NEW a \in Maps, NEW b \in Maps, a # b,
         Headers!MoveAssign(a, b)
  PROVE  HeadersRight' /\ Headers!Fields!Take(a, b)
<1>1. /\ headers_table' = [k \in Maps |-> IF k = b THEN <<>> ELSE IF k = a THEN headers_table[b]
                                          ELSE headers_table[k]]
      /\ headers_count' = [k \in Maps |-> IF k = b THEN 0 ELSE IF k = a THEN headers_count[b]
                                          ELSE headers_count[k]]
      /\ headers_touched' = [k \in Maps |-> IF k = b THEN <<>> ELSE IF k = a THEN headers_touched[b]
                                            ELSE headers_touched[k]]
      /\ headers_flags' = [k \in Maps |-> IF k = a THEN headers_flags[b] ELSE headers_flags[k]]
      /\ headers_others' = [k \in Maps |-> IF k = b THEN <<>> ELSE IF k = a THEN headers_others[b]
                                           ELSE headers_others[k]]
  BY DEF Headers!MoveAssign, HeadersRight, Headers!NoTable
<1>2. /\ MapRight(headers_table[a], headers_count[a], headers_touched[a],
             headers_flags[a],
                  headers_others[a])
      /\ MapRight(headers_table[b], headers_count[b], headers_touched[b],
             headers_flags[b],
                  headers_others[b])
  BY DEF HeadersRight
<1>3. MapRight(<<>>, 0, <<>>, headers_flags[b], <<>>)
  <2>1. headers_flags[b] \subseteq KnownFields
    BY <1>2 DEF MapRight
  <2>2. Apart(<<>>) /\ <<>> \in Entries /\ <<>> \in Seq(KnownFields)
    BY DEF Apart, Entries
  <2>. QED  BY <2>1, <2>2 DEF MapRight
<1>4. ASSUME NEW k \in Maps
      PROVE  MapRight(headers_table'[k], headers_count'[k], headers_touched'[k],
                      headers_flags'[k], headers_others'[k])
  <2>1. CASE k = b
    BY <1>1, <1>3, <2>1
  <2>2. CASE k = a
    BY <1>1, <1>2, <2>2
  <2>3. CASE k # a /\ k # b
    BY <1>1, <2>3 DEF HeadersRight
  <2>. QED  BY <2>1, <2>2, <2>3
<1>5. HeadersRight'
  <2>1. /\ headers_table' = [m \in Maps |-> headers_table'[m]]
        /\ headers_count' = [m \in Maps |-> headers_count'[m]]
        /\ headers_touched' = [m \in Maps |-> headers_touched'[m]]
        /\ headers_flags' = [m \in Maps |-> headers_flags'[m]]
        /\ headers_others' = [m \in Maps |-> headers_others'[m]]
    BY <1>1
  <2>. QED  BY <1>4, <2>1 DEF HeadersRight
<1>6. ASSUME NEW c \in Maps, NEW x \in FieldNames
      PROVE  Headers!Get(c, x)' = IF c = b THEN NoValue
                                  ELSE IF c = a THEN Headers!Get(b,
                                      x) ELSE Headers!Get(c, x)
  <2>1. /\ Headers!Get(c, x) = ValueIn(headers_table[c], headers_others[c], x)
        /\ Headers!Get(b, x) = ValueIn(headers_table[b], headers_others[b], x)
        /\ Headers!Get(c, x)' = ValueIn(headers_table'[c], headers_others'[c], x)
    BY GetIs
  <2>2. ValueIn(<<>>, <<>>, x) = NoValue
    BY DEF ValueIn
  <2>. QED  BY <1>1, <2>1, <2>2
<1>. QED  BY <1>5, <1>6, TakeIs

LEMMA HeadersInit ==
  Headers!HeadersAssumption /\ Headers!Init => HeadersRight /\ Headers!Fields!Init
<1>. SUFFICES ASSUME Headers!HeadersAssumption, Headers!Init
              PROVE  HeadersRight /\ Headers!Fields!Init
  OBVIOUS
<1>. DEFINE E == Headers!EmptyTable
<1>1. /\ E # <<>> /\ E \in [KnownFields -> FieldValues \union {NoValue}]
             /\ NonEmpty(E) = {}
  BY EmptyTableIs
<1>2. /\ headers_table = [m \in Maps |-> E] /\ headers_count = [m \in Maps |-> 0]
      /\ headers_touched = [m \in Maps |-> <<>>] /\ headers_flags = [m \in Maps |-> {}]
      /\ headers_others = [m \in Maps |-> <<>>]
  BY DEF Headers!Init
<1>. HIDE DEF E
<1>3. MapRight(E, 0, <<>>, {}, <<>>) /\ \A n \in FieldNames : ValueIn(E, <<>>,
          n) = NoValue
  BY <1>1, NothingSet
<1>4. HeadersRight
  BY <1>2, <1>3 DEF HeadersRight
<1>5. \A m \in Maps, n \in FieldNames : Headers!Get(m, n) = NoValue
  BY <1>2, <1>3, GetIs
<1>. QED  BY <1>4, <1>5 DEF Headers!Fields!Init, FieldNames

LEMMA HeadersNext ==
  Headers!HeadersAssumption /\ HeadersRight /\ [Headers!Next]_(Headers!vars)
    => HeadersRight' /\ [Headers!Fields!Next]_(Headers!Fields!vars)
<1>. SUFFICES ASSUME Headers!HeadersAssumption, HeadersRight,
                         [Headers!Next]_(Headers!vars)
              PROVE  HeadersRight' /\ [Headers!Fields!Next]_(Headers!Fields!vars)
  OBVIOUS
<1>1. CASE UNCHANGED Headers!vars
  BY <1>1 DEF Headers!vars, HeadersRight, Headers!Fields!vars, Headers!Get, Headers!Usable
<1>2. ASSUME NEW m \in Maps, NEW f \in KnownFields, Headers!RemoveKnown(m, f)
      PROVE  HeadersRight' /\ Headers!Fields!Next
  BY <1>2, RemoveKnownKeeps DEF Headers!Fields!Next
<1>3. ASSUME NEW m \in Maps, NEW f \in KnownFields, NEW v \in FieldValues,
                 Headers!SetKnown(m, f, v)
      PROVE  HeadersRight' /\ Headers!Fields!Next
  BY <1>3, SetKnownKeeps DEF Headers!Fields!Next
<1>4. ASSUME NEW m \in Maps, NEW n \in UnknownNames, Headers!RemoveUnknown(m, n)
      PROVE  HeadersRight' /\ Headers!Fields!Next
  BY <1>4, RemoveUnknownKeeps DEF Headers!Fields!Next
<1>5. ASSUME NEW m \in Maps, NEW n \in UnknownNames, NEW v \in FieldValues,
             Headers!SetUnknown(m, n, v)
      PROVE  HeadersRight' /\ Headers!Fields!Next
  BY <1>5, SetUnknownKeeps DEF Headers!Fields!Next
<1>6. ASSUME NEW m \in Maps, Headers!Clear(m) \/ Headers!AssignNew(m)
      PROVE  HeadersRight' /\ Headers!Fields!Next
  BY <1>6, HeadersClearKeeps, AssignNewKeeps DEF Headers!Fields!Next
<1>7. ASSUME NEW a \in Maps, NEW b \in Maps, a # b, Headers!MoveAssign(a, b)
      PROVE  HeadersRight' /\ Headers!Fields!Next
  BY <1>7, HeadersMoveKeeps DEF Headers!Fields!Next
<1>. QED  BY <1>1, <1>2, <1>3, <1>4, <1>5, <1>6, <1>7 DEF Headers!Next

\* Each name that is held is a field of the table or has one entry.
LEMMA HeldCounts ==
  ASSUME Headers!HeadersAssumption, HeadersRight, NEW m \in Maps
  PROVE  headers_count[m] + Len(headers_others[m]) = Headers!Cardinality(Headers!Held(m))
<1>. DEFINE o == headers_others[m]
            K == NonEmpty(headers_table[m])
            N == {o[i][1] : i \in 1 .. Len(o)}
            H == Headers!Held(m)
<1>1. \A n \in FieldNames : Headers!Get(m, n) = ValueIn(headers_table[m], o, n)
  BY GetIs
<1>2. o \in Entries /\ Apart(o)
  BY DEF HeadersRight, MapRight
<1>3. H = {n \in FieldNames : Headers!Get(m, n) # NoValue}
  BY DEF Headers!Held, FieldNames
<1>4. CASE headers_table[m] = <<>>
  <2>1. headers_count[m] = 0 /\ o = <<>>
    BY <1>4 DEF HeadersRight, MapRight
  <2>2. H = {}
    BY <1>1, <1>3, <1>4 DEF ValueIn
  <2>3. Headers!Cardinality(H) = 0 /\ Len(<<>>) = 0
    BY <2>2, FS_EmptySet, SameCount
  <2>. QED  BY <2>1, <2>3
<1>5. CASE headers_table[m] # <<>>
  <2>1. headers_count[m] = Cardinality(K)
    BY <1>5 DEF HeadersRight, MapRight
  <2>. HIDE DEF o
  <2>2. Len(o) \in Nat /\ \A i \in 1 .. Len(o) : o[i][1] \in UnknownNames
            /\ o[i][2] \in FieldValues
    BY <1>2, EntryParts
  <2>3. N \subseteq UnknownNames /\ UnknownNames \intersect KnownFields = {}
            /\ NoValue \notin FieldValues
    BY <2>2 DEF Headers!HeadersAssumption
  <2>4. ASSUME NEW n \in UnknownNames PROVE n \in N <=> LookUp(o, n) # NoValue
    <3>1. CASE n \in N
      <4>1. PICK i \in 1 .. Len(o) : o[i][1] = n
        BY <3>1
      <4>2. LookUp(o, n) = o[i][2]
        BY <1>2, <2>2, <4>1, LookUpIs
      <4>. QED  BY <2>2, <2>3, <3>1, <4>2
    <3>2. CASE n \notin N
      <4>1. \A i \in 1 .. Len(o) : o[i][1] # n
        BY <3>2
      <4>2. LookUp(o, n) = NoValue
        BY <4>1, LookUpMisses
      <4>. QED  BY <3>2, <4>2
    <3>. QED  BY <3>1, <3>2
  <2>. HIDE DEF N
  <2>5. H = K \union N /\ K \intersect N = {}
    BY <1>1, <1>3, <1>5, <2>3, <2>4 DEF ValueIn, NonEmpty, FieldNames
  <2>6. IsFiniteSet(K)
    <3>1. IsFiniteSet(KnownFields)
      BY DEF Headers!HeadersAssumption, Headers!IsFiniteSet, IsFiniteSet
    <3>. QED  BY <3>1, FS_Subset DEF NonEmpty
  <2>7. IsFiniteSet(N) /\ Cardinality(N) = Len(o)
    BY <1>2, NamesOfList DEF N
  <2>. HIDE DEF K, H
  <2>8. Cardinality(H) = Cardinality(K) + Cardinality(N)
    BY <2>5, <2>6, <2>7, ApartCount
  <2>. QED  BY <2>1, <2>7, <2>8, SameCount DEF H, o
<1>. QED  BY <1>4, <1>5

LEMMA HeadersRightSafe ==
  Headers!HeadersAssumption /\ HeadersRight => Headers!HeadersSafe
<1>. SUFFICES ASSUME Headers!HeadersAssumption, HeadersRight PROVE Headers!HeadersSafe
  OBVIOUS
<1>1. Headers!TouchedOnce
  <2>. SUFFICES ASSUME NEW m \in Maps, Headers!Usable(m)
                PROVE  /\ Headers!IsInjective(headers_touched[m])
                       /\ Headers!ToSet(headers_touched[m]) = headers_flags[m]
                       /\ \A f \in KnownFields :
                            headers_table[m][f] # NoValue => f \in headers_flags[m]
    BY DEF Headers!TouchedOnce
  <2>. QED  BY MapParts DEF NonEmpty
<1>2. Headers!SizeIsHeld
  <2>. SUFFICES ASSUME NEW m \in Maps
                PROVE  /\ Headers!Usable(m) =>
                            headers_count[m] = Headers!Cardinality(NonEmpty(headers_table[m]))
                       /\ headers_count[m] + Len(headers_others[m])
                            = Headers!Cardinality(Headers!Held(m))
    BY DEF Headers!SizeIsHeld, NonEmpty
  <2>. QED  BY MapParts, HeldCounts, SameCount
<1>. QED  BY <1>1, <1>2 DEF Headers!HeadersSafe


-----------------------------------------------------------------------------
(* The router: the scan for the best route, and the way through its chain. *)

\* The scan for a route has a value for each prefix of the table.
LEMMA ScanIs ==
  ASSUME NEW n \in Nat, NEW method, NEW parts, n = Len(router_routes)
  PROVE  \E f : /\ f = [i \in 0 .. n |->
                          IF i = 0 THEN 0
                          ELSE IF /\ router_routes[i].method = method
                                  /\ Routes!MatchSegments(router_routes[i].pattern, parts)
                                  /\ Routes!Better(i, f[i - 1])
                               THEN i ELSE f[i - 1]]
                /\ Routes!BestRoute(method, parts) = f[n]
<1>. DEFINE Next(i, b) == IF /\ router_routes[i].method = method
                             /\ Routes!MatchSegments(router_routes[i].pattern, parts)
                             /\ Routes!Better(i, b)
                          THEN i ELSE b
            Scan(m, f) == f = [i \in 0 .. m |-> IF i = 0 THEN 0 ELSE Next(i, f[i - 1])]
            F == CHOOSE f : Scan(n, f)
<1>1. Routes!BestRoute(method, parts) = F[n]
  BY DEF Routes!BestRoute
<1>. HIDE DEF Next
<1>2. \A m \in Nat : \E f : Scan(m, f)
  <2>. DEFINE T == {m \in Nat : ~ \E f : Scan(m, f)}
  <2>. SUFFICES ASSUME T # {} PROVE FALSE
    OBVIOUS
  <2>1. PICK m \in T : \A k \in T : m <= k
    BY LeastNumber
  <2>2. Scan(0, [i \in 0 .. 0 |-> 0])
    OBVIOUS
  <2>3. m # 0
    BY <2>1, <2>2
  <2>4. PICK f : Scan(m - 1, f)
    <3>1. m - 1 \in Nat /\ ~ m <= m - 1
      BY <2>1, <2>3
    <3>2. m - 1 \notin T
      BY <2>1, <3>1
    <3>. QED  BY <3>1, <3>2
  <2>. DEFINE g == [i \in 0 .. m |-> IF i = m THEN Next(m, f[m - 1]) ELSE f[i]]
  <2>5. \A i \in 0 .. m : g[i] = IF i = 0 THEN 0 ELSE Next(i, g[i - 1])
    BY <2>1, <2>3, <2>4
  <2>6. Scan(m, g)
    BY <2>5
  <2>. QED  BY <2>1, <2>6
<1>3. Scan(n, F)
  BY <1>2
<1>. QED  BY <1>1, <1>3 DEF Next

\* The scan of a path for names returns a sequence of some of its tokens.
LEMMA NamesAre ==
  ASSUME NEW path \in Seq(STRING)
  PROVE  Routes!Names(path) \in Seq(STRING)
<1>. DEFINE n == Len(path)
            Next(i, s) == IF path[i] = "/" THEN s ELSE Append(s, path[i])
            Scan(m, f) == f = [i \in 0 .. m |-> IF i = 0 THEN <<>> ELSE Next(i, f[i - 1])]
            F == CHOOSE f : Scan(n, f)
<1>1. Routes!Names(path) = F[n]
  BY DEF Routes!Names
<1>2. n \in Nat /\ \A i \in 1 .. n : \A s \in Seq(STRING) : Next(i, s) \in Seq(STRING)
  <2>1. n \in Nat /\ \A i \in 1 .. n : path[i] \in STRING
    OBVIOUS
  <2>2. \A s \in Seq(STRING), x \in STRING : Append(s, x) \in Seq(STRING)
    BY AppendProperties
  <2>. HIDE DEF n
  <2>. QED  BY <2>1, <2>2
<1>. HIDE DEF n, Next
<1>3. \A m \in Nat : \E f : Scan(m, f)
  <2>. DEFINE T == {m \in Nat : ~ \E f : Scan(m, f)}
  <2>. SUFFICES ASSUME T # {} PROVE FALSE
    OBVIOUS
  <2>1. PICK m \in T : \A k \in T : m <= k
    BY LeastNumber
  <2>2. Scan(0, [i \in 0 .. 0 |-> <<>>])
    OBVIOUS
  <2>3. m # 0
    BY <2>1, <2>2
  <2>4. PICK f : Scan(m - 1, f)
    <3>1. m - 1 \in Nat /\ ~ m <= m - 1
      BY <2>1, <2>3
    <3>2. m - 1 \notin T
      BY <2>1, <3>1
    <3>. QED  BY <3>1, <3>2
  <2>. DEFINE g == [i \in 0 .. m |-> IF i = m THEN Next(m, f[m - 1]) ELSE f[i]]
  <2>5. \A i \in 0 .. m : g[i] = IF i = 0 THEN <<>> ELSE Next(i, g[i - 1])
    BY <2>1, <2>3, <2>4
  <2>6. Scan(m, g)
    BY <2>5
  <2>. QED  BY <2>1, <2>6
<1>4. Scan(n, F)
  BY <1>2, <1>3
<1>. HIDE DEF F
<1>5. F[0] = <<>> /\ \A i \in 1 .. n : F[i] = Next(i, F[i - 1])
  BY <1>2, <1>4
<1>. DEFINE T == {i \in 0 .. n : F[i] \notin Seq(STRING)}
<1>. SUFFICES ASSUME T # {} PROVE FALSE
  BY <1>1, <1>2
<1>6. T \subseteq Nat
  BY <1>2
<1>7. PICK m \in T : \A k \in T : m <= k
  BY <1>6, LeastNumber
<1>8. m \in 1 .. n /\ m - 1 \in 0 .. n /\ ~ m <= m - 1
  <2>1. m # 0
    BY <1>5, <1>7, EmptySeq
  <2>. QED  BY <2>1, <1>2
<1>9. F[m - 1] \in Seq(STRING)
  BY <1>7, <1>8
<1>. QED  BY <1>2, <1>5, <1>7, <1>8, <1>9

LEMMA StrippedIs ==
  ASSUME NEW uri \in Seq(STRING)
  PROVE  Routes!StripQuery(uri) \in Seq(STRING)
<1>. DEFINE ends == {i \in 1 .. Len(uri) : uri[i] \in {"?", "#"}}
<1>1. ends # {} => Routes!Min(ends) \in ends
  <2>. SUFFICES ASSUME ends # {} PROVE Routes!Min(ends) \in ends
    OBVIOUS
  <2>1. ends \in SUBSET Nat
    OBVIOUS
  <2>. HIDE DEF ends
  <2>2. PICK x \in ends : \A y \in ends : x <= y
    BY <2>1, LeastNumber
  <2>. QED  BY <2>2 DEF Routes!Min
<1>2. \A k \in 1 .. Len(uri) : SubSeq(uri, 1, k - 1) \in Seq(STRING)
  BY SubSeqProperties
<1>3. ends # {} => SubSeq(uri, 1, Routes!Min(ends) - 1) \in Seq(STRING)
  <2>1. ends \subseteq 1 .. Len(uri)
    OBVIOUS
  <2>. HIDE DEF ends
  <2>. QED  BY <1>1, <1>2, <2>1
<1>. QED  BY <1>3 DEF Routes!StripQuery

\* As long as there is room for all segments, the split of a path has them all.
LEMMA SplitIs ==
  ASSUME Routes!RouterAssumption, NEW path \in Seq(STRING)
  PROVE  /\ Routes!SplitPath(path).overflow <=> Len(Routes!Names(path)) > MaxRouteSegments
         /\ ~Routes!SplitPath(path).overflow
                => Routes!SplitPath(path).parts = Routes!Names(path)
<1>. DEFINE parts == Routes!Names(path)
            n == Len(parts)
<1>1. parts \in Seq(STRING) /\ n \in Nat
  BY NamesAre
<1>2. MaxRouteSegments \in Nat
  BY DEF Routes!RouterAssumption
<1>3. n <= MaxRouteSegments => Routes!Min({n, MaxRouteSegments}) = n
  BY <1>1, <1>2 DEF Routes!Min
<1>4. \A s \in Seq(STRING) : SubSeq(s, 1, Len(s)) = s
  OBVIOUS
<1>5. SubSeq(parts, 1, n) = parts
  BY <1>1, <1>4
<1>6. n <= MaxRouteSegments => SubSeq(parts, 1, Routes!Min({n, MaxRouteSegments})) = parts
  BY <1>3, <1>5
<1>7. n > MaxRouteSegments <=> ~ n <= MaxRouteSegments
  BY <1>1, <1>2
<1>8. Routes!SplitPath(path) = [parts |-> SubSeq(parts, 1, Routes!Min({n,
          MaxRouteSegments})),
                                overflow |-> n > MaxRouteSegments]
  BY DEF Routes!SplitPath
<1>9. Routes!SplitPath(path).parts = SubSeq(parts, 1, Routes!Min({n, MaxRouteSegments}))
  <2>1. \A x, y, z : x = [parts |-> y, overflow |-> z] => x.parts = y
    OBVIOUS
  <2>. QED  BY <1>8, <2>1
<1>10. Routes!SplitPath(path).overflow <=> n > MaxRouteSegments
  <2>1. \A x, y, z : x = [parts |-> y, overflow |-> z] => x.overflow = z
    OBVIOUS
  <2>2. Routes!SplitPath(path).overflow = (n > MaxRouteSegments)
    <3>. DEFINE p == SubSeq(parts, 1, Routes!Min({n, MaxRouteSegments}))
                o == n > MaxRouteSegments
    <3>1. Routes!SplitPath(path) = [parts |-> p, overflow |-> o]
      BY <1>8
    <3>. HIDE DEF p, o
    <3>. QED  BY <2>1, <3>1, Zenon DEF o
  <2>. QED  BY <2>2, Zenon
<1>. QED  BY <1>6, <1>7, <1>9, <1>10

\* Of patterns that match the same path the one with more literals has the higher score.
LEMMA ScoreIs ==
  ASSUME Routes!RouterAssumption, NEW p \in Seq(STRING), NEW q \in Seq(STRING),
             Len(p) = Len(q)
  PROVE  /\ Routes!LiteralCount(p) \in Nat /\ Routes!LiteralCount(q) \in Nat
         /\ Routes!SpecificityScore(p) > Routes!SpecificityScore(q)
              <=> Routes!LiteralCount(p) > Routes!LiteralCount(q)
<1>1. \A s \in Seq(STRING) : Routes!LiteralCount(s) \in Nat
  <2>. TAKE s \in Seq(STRING)
  <2>. DEFINE L == {i \in 1 .. Len(s) : s[i] \notin RouterParameters}
  <2>1. IsFiniteSet(1 .. Len(s)) /\ L \subseteq 1 .. Len(s)
    BY FS_Interval
  <2>2. IsFiniteSet(L)
    BY <2>1, FS_Subset
  <2>3. Cardinality(L) \in Nat
    BY <2>2, FS_CardinalityType
  <2>. QED  BY <2>3, SameCount DEF Routes!LiteralCount
<1>2. MaxRouteSegments \in Nat
  BY DEF Routes!RouterAssumption
<1>. QED  BY <1>1, <1>2 DEF Routes!SpecificityScore

\* The scan ends with the first of the routes with the most literals among those that match.
LEMMA BestIs ==
  ASSUME Routes!RouterAssumption, router_routes \in RouterTables, NEW method, NEW parts
  PROVE  LET n == Len(router_routes)
             best == Routes!BestRoute(method, parts)
             Serves(i) == /\ router_routes[i].method = method
                          /\ Routes!MatchSegments(router_routes[i].pattern, parts)
         IN  /\ n \in Nat /\ best \in 0 .. n
             /\ best = 0 => \A i \in 1 .. n : ~Serves(i)
             /\ best # 0 =>
                  /\ Serves(best)
                  /\ \A i \in 1 .. n : Serves(i) =>
                       \/ Routes!Literals(i) < Routes!Literals(best)
                       \/ Routes!Literals(i) = Routes!Literals(best) /\ i >= best
<1>. DEFINE n == Len(router_routes)
            best == Routes!BestRoute(method, parts)
            Serves(i) == /\ router_routes[i].method = method
                         /\ Routes!MatchSegments(router_routes[i].pattern, parts)
            Lit(i) == Routes!Literals(i)
            Found(k, b) == /\ b \in 0 .. k
                           /\ b = 0 => \A i \in 1 .. k : ~Serves(i)
                           /\ b # 0 => /\ Serves(b)
                                       /\ \A i \in 1 .. k : Serves(i) =>
                                            Lit(i) < Lit(b) \/ (Lit(i) = Lit(b) /\ i >= b)
<1>1. /\ n \in Nat
      /\ \A i \in 1 .. n : router_routes[i].pattern \in Seq(STRING)
  <2>. DEFINE R == [method : STRING, pattern : Seq(STRING), middleware : Nat]
  <2>1. router_routes \in Seq(R)
    BY DEF Routes!RouterAssumption
  <2>2. \A r \in R : r.pattern \in Seq(STRING)
    OBVIOUS
  <2>. HIDE DEF R
  <2>. QED  BY <2>1, <2>2
<1>2. PICK f : /\ f = [i \in 0 .. n |->
                         IF i = 0 THEN 0
                         ELSE IF /\ router_routes[i].method = method
                                 /\ Routes!MatchSegments(router_routes[i].pattern, parts)
                                 /\ Routes!Better(i, f[i - 1])
                              THEN i ELSE f[i - 1]]
               /\ best = f[n]
  BY <1>1, ScanIs, SMTT(30)
<1>3. /\ f[0] = 0
      /\ \A i \in 1 .. n : f[i] = IF Serves(i) /\ Routes!Better(i,
                               f[i - 1]) THEN i ELSE f[i - 1]
  <2>1. 0 \in 0 .. n /\ \A i \in 1 .. n : i \in 0 .. n /\ i # 0
    BY <1>1
  <2>2. f[0] = 0
    BY <1>2, <2>1
  <2>3. ASSUME NEW i \in 1 .. n
        PROVE  f[i] = IF Serves(i) /\ Routes!Better(i, f[i - 1]) THEN i ELSE f[i - 1]
    BY <1>2, <2>1
  <2>. QED  BY <2>2, <2>3
<1>4. \A i \in 1 .. n : Lit(i) \in Nat
  BY <1>1, ScoreIs DEF Routes!Literals
<1>5. \A i \in 1 .. n, b \in 1 .. n : Serves(i) /\ Serves(b) =>
        (Routes!Better(i, b) <=> Lit(i) > Lit(b))
  <2>. SUFFICES ASSUME NEW i \in 1 .. n, NEW b \in 1 .. n, Serves(i), Serves(b)
                PROVE  Routes!Better(i, b) <=> Lit(i) > Lit(b)
    OBVIOUS
  <2>1. Len(router_routes[i].pattern) = Len(router_routes[b].pattern)
    BY DEF Routes!MatchSegments
  <2>2. Routes!SpecificityScore(router_routes[i].pattern)
          > Routes!SpecificityScore(router_routes[b].pattern) <=> Lit(i) > Lit(b)
    BY <1>1, <2>1, ScoreIs DEF Routes!Literals
  <2>. QED  BY <2>2 DEF Routes!Better
<1>6. \A i : Routes!Better(i, 0)
  BY DEF Routes!Better
<1>. HIDE DEF n, best, Serves, Lit
<1>7. Found(0, f[0])
  BY <1>3
<1>8. ASSUME NEW k \in 1 .. n, Found(k - 1, f[k - 1]) PROVE Found(k, f[k])
  <2>. DEFINE b == f[k - 1]
  <2>0. b \in 0 .. n /\ k \in Nat /\ (b # 0 => b \in 1 .. n /\ b < k)
    BY <1>1, <1>8
  <2>1. CASE ~Serves(k)
    <3>1. f[k] = b
      BY <1>3, <2>1
    <3>2. \A i \in 1 .. k : Serves(i) => i \in 1 .. k - 1
      BY <2>0, <2>1
    <3>. QED  BY <1>8, <2>0, <3>1, <3>2
  <2>2. CASE Serves(k) /\ b = 0
    <3>1. f[k] = k
      BY <1>3, <1>6, <2>2
    <3>2. \A i \in 1 .. k : Serves(i) => i = k
      BY <1>8, <2>0, <2>2
    <3>. QED  BY <2>0, <2>2, <3>1, <3>2
  <2>3. CASE Serves(k) /\ b # 0 /\ Lit(k) > Lit(b)
    <3>1. Serves(b) /\ f[k] = k
      BY <1>3, <1>5, <1>8, <2>0, <2>3
    <3>2. \A i \in 1 .. k : Serves(i) => i = k \/ Lit(i) < Lit(k)
      <4>. TAKE i \in 1 .. k
      <4>1. i \in 1 .. n /\ (i # k => i \in 1 .. k - 1)
        BY <2>0, <1>1
      <4>2. Lit(i) \in Nat /\ Lit(b) \in Nat /\ Lit(k) \in Nat
        BY <1>4, <2>0, <2>3, <4>1
      <4>3. Serves(i) /\ i # k => Lit(i) <= Lit(b)
        BY <1>8, <2>3, <4>1, <4>2
      <4>. QED  BY <2>3, <4>2, <4>3
    <3>3. \A i \in 1 .. k : Serves(i) => Lit(i) < Lit(k) \/ (Lit(i) = Lit(k) /\ i >= k)
      <4>. TAKE i \in 1 .. k
      <4>1. CASE i = k
        BY <4>1, <2>0
      <4>2. CASE i # k
        BY <4>2, <3>2
      <4>. QED  BY <4>1, <4>2
    <3>4. k \in 0 .. k /\ k # 0
      BY <2>0
    <3>. QED  BY <2>3, <3>1, <3>3, <3>4
  <2>4. CASE Serves(k) /\ b # 0 /\ ~ Lit(k) > Lit(b)
    <3>1. Serves(b) /\ f[k] = b
      BY <1>3, <1>5, <1>8, <2>0, <2>4
    <3>2. Lit(k) \in Nat /\ Lit(b) \in Nat
      BY <1>4, <2>0, <2>4
    <3>3. Lit(k) < Lit(b) \/ (Lit(k) = Lit(b) /\ k >= b)
      BY <2>0, <2>4, <3>2
    <3>4. \A i \in 1 .. k : i = k \/ i \in 1 .. k - 1
      BY <2>0
    <3>. QED  BY <1>8, <2>0, <2>4, <3>1, <3>3, <3>4
  <2>. QED  BY <2>1, <2>2, <2>3, <2>4
<1>9. Found(n, f[n])
  <2>. DEFINE T == {i \in 0 .. n : ~Found(i, f[i])}
  <2>. SUFFICES ASSUME T # {} PROVE FALSE
    BY <1>1
  <2>1. T \in SUBSET Nat
    BY <1>1
  <2>2. PICK m \in T : \A i \in T : m <= i
    BY <2>1, LeastNumber
  <2>3. m \in 1 .. n /\ m - 1 \in 0 .. n /\ ~ m <= m - 1
    BY <1>1, <1>7, <2>2
  <2>4. Found(m - 1, f[m - 1])
    BY <2>2, <2>3
  <2>. QED  BY <1>8, <2>2, <2>3, <2>4
<1>. QED  BY <1>1, <1>2, <1>9 DEF n, best, Serves, Lit

RouterRight ==
  /\ router_routes \in RouterTables
  /\ router_request.uri \in Seq(STRING)
  /\ router_depth # 0 =>
       /\ router_route # 0 /\ router_depth \in 1 .. Routes!ChainSize + 1
       /\ router_entered = [i \in 1 .. router_depth - 1 |-> i]
       /\ router_answer = Routes!NoAnswer
  /\ Routes!RoutedRight

LEMMA RouterInit ==
  Routes!RouterAssumption /\ Routes!Init => RouterRight
<1>. SUFFICES ASSUME Routes!Init PROVE RouterRight
  OBVIOUS
<1>1. <<>> \in Seq(STRING)
  BY EmptySeq
<1>. QED  BY <1>1 DEF Routes!Init, RouterRight, Routes!RoutedRight, Routes!MostSpecific,
             Routes!RefusedRightly, Routes!HandlerGuarded, Routes!NoRequest,
                 Routes!NoAnswer

LEMMA ChainIs ==
  ASSUME Routes!RouterAssumption, router_routes \in RouterTables,
         NEW i \in 1 .. Len(router_routes)
  PROVE  router_routes[i].middleware \in Nat
<1>. DEFINE R == [method : STRING, pattern : Seq(STRING), middleware : Nat]
<1>1. router_routes \in Seq(R)
  BY DEF Routes!RouterAssumption
<1>2. \A r \in R : r.middleware \in Nat
  OBVIOUS
<1>. HIDE DEF R
<1>. QED  BY <1>1, <1>2

LEMMA DispatchRight ==
  ASSUME Routes!RouterAssumption, RouterRight, NEW m \in RequestMethods,
             NEW u \in RequestUris,
         Routes!Dispatch(m, u)
  PROVE  RouterRight'
<1>. DEFINE path == Routes!StripQuery(u)
            segs == Routes!Names(path)
            split == Routes!SplitPath(path)
            n == Len(router_routes)
            best == IF split.overflow THEN 0 ELSE Routes!BestRoute(m, segs)
            Matches(i) == Routes!MatchSegments(router_routes[i].pattern, segs)
            Serves(i) == router_routes[i].method = m /\ Matches(i)
            allow == {router_routes[i].method : i \in {j \in 1 .. n : Matches(j)}}
<1>1. u \in Seq(STRING) /\ path \in Seq(STRING) /\ segs \in Seq(STRING)
  BY NamesAre, StrippedIs DEF Routes!RouterAssumption
<1>2. /\ split.overflow <=> Len(segs) > MaxRouteSegments
      /\ ~split.overflow => split.parts = segs
  BY <1>1, SplitIs
<1>3. /\ router_request' = [method |-> m, uri |-> u] /\ router_routes' = router_routes
      /\ router_entered' = <<>> /\ router_route' = best
  BY <1>2 DEF Routes!Dispatch
<1>4. split.overflow => \A i \in 1 .. n : ~Matches(i)
  <2>. SUFFICES ASSUME split.overflow, NEW i \in 1 .. n, Matches(i) PROVE FALSE
    OBVIOUS
  <2>1. Len(router_routes[i].pattern) = Len(segs)
    BY DEF Routes!MatchSegments
  <2>2. Len(router_routes[i].pattern) <= MaxRouteSegments
    BY DEF RouterRight, Routes!RouterAssumption
  <2>. QED  BY <1>1, <1>2, <2>1, <2>2 DEF Routes!RouterAssumption
<1>5. /\ n \in Nat /\ best \in 0 .. n
      /\ best = 0 => \A i \in 1 .. n : ~Serves(i)
      /\ best # 0 =>
           /\ Serves(best)
           /\ \A i \in 1 .. n : Serves(i) =>
                \/ Routes!Literals(i) < Routes!Literals(best)
                \/ Routes!Literals(i) = Routes!Literals(best) /\ i >= best
  BY <1>4, BestIs DEF RouterRight
<1>6. best # 0 =>
        /\ router_params' = Routes!ParamsOf(router_routes[best].pattern, segs)
        /\ router_depth' = 1 /\ router_answer' = Routes!NoAnswer
  BY <1>2 DEF Routes!Dispatch
<1>7. best = 0 =>
        /\ router_depth' = 0
        /\ router_answer' = [status |-> IF allow # {} THEN "405" ELSE "404",
                             by |-> "router", allow |-> allow]
  <2>1. best = 0 => (IF split.overflow THEN {} ELSE Routes!AllowedMethods(split.parts)) = allow
    BY <1>2, <1>4 DEF Routes!AllowedMethods
  <2>2. best = (IF split.overflow THEN 0 ELSE Routes!BestRoute(m, split.parts))
    BY <1>2
  <2>. QED  BY <2>1, <2>2 DEF Routes!Dispatch, Routes!Answer
<1>8. Routes!Segments' = segs
  BY <1>3 DEF Routes!Segments
<1>9. Routes!Matching' = {i \in 1 .. n : Matches(i)}
  BY <1>3, <1>8 DEF Routes!Matching
<1>10. Routes!Serving' = {i \in 1 .. n : Serves(i)}
  BY <1>3, <1>9 DEF Routes!Serving
<1>11. \A i : Routes!Literals(i)' = Routes!Literals(i)
  BY <1>3 DEF Routes!Literals
<1>. HIDE DEF best, segs
<1>12. Routes!MostSpecific'
  <2>. SUFFICES ASSUME router_route' # 0
                PROVE  /\ router_route' \in Routes!Serving'
                       /\ \A i \in Routes!Serving' :
                            \/ Routes!Literals(i)' < Routes!Literals(router_route)'
                            \/ Routes!Literals(i)' = Routes!Literals(router_route)'
                                   /\ i >= router_route'
                       /\ router_params' = Routes!ParamsOf(router_routes'[router_route'].pattern,
                                                          Routes!Segments')
    BY DEF Routes!MostSpecific
  <2>1. best # 0 /\ best \in 1 .. n /\ router_route' = best
    BY <1>3, <1>5
  <2>2. Routes!Literals(router_route)' = Routes!Literals(best)
    BY <1>3 DEF Routes!Literals
  <2>3. best \in Routes!Serving'
    BY <1>5, <1>10, <2>1
  <2>4. \A i \in Routes!Serving' :
           \/ Routes!Literals(i) < Routes!Literals(best)
           \/ Routes!Literals(i) = Routes!Literals(best) /\ i >= best
    BY <1>5, <1>10, <2>1
  <2>. QED  BY <1>3, <1>6, <1>8, <1>11, <2>1, <2>2, <2>3, <2>4
<1>13. Routes!RefusedRightly'
  <2>1. CASE best # 0
    BY <1>6, <2>1 DEF Routes!RefusedRightly, Routes!NoAnswer
  <2>2. CASE best = 0
    <3>1. Routes!Serving' = {}
      BY <1>5, <1>10, <2>2
    <3>2. allow # {} <=> Routes!Matching' # {}
      BY <1>9
    <3>3. {router_routes'[i].method : i \in Routes!Matching'} = allow
      BY <1>3, <1>9
    <3>. HIDE DEF allow
    <3>. QED  BY <1>7, <2>2, <3>1, <3>2, <3>3 DEF Routes!RefusedRightly
  <2>. QED  BY <2>1, <2>2
<1>14. Routes!HandlerGuarded'
  BY <1>6, <1>7 DEF Routes!HandlerGuarded, Routes!NoAnswer
<1>15. router_depth' # 0 =>
         /\ router_route' # 0 /\ router_depth' \in 1 .. (Routes!ChainSize + 1)'
         /\ router_entered' = [i \in 1 .. router_depth' - 1 |-> i]
         /\ router_answer' = Routes!NoAnswer
  <2>. SUFFICES ASSUME best # 0
                PROVE  1 \in 1 .. (Routes!ChainSize + 1)' /\ <<>> = [i \in 1 .. 0 |-> i]
    BY <1>3, <1>6, <1>7
  <2>1. best \in 1 .. n /\ n = Len(router_routes)
    BY <1>5
  <2>3. router_routes[best].middleware \in Nat
    BY <2>1, ChainIs DEF RouterRight
  <2>4. Routes!ChainSize' = router_routes[best].middleware
    BY <1>3 DEF Routes!ChainSize
  <2>. QED  BY <2>3, <2>4
<1>. QED  BY <1>1, <1>3, <1>12, <1>13, <1>14, <1>15 DEF RouterRight, Routes!RoutedRight

\* What the steps of a request leave alone is what its route was chosen by.
LEMMA SameRequest ==
  ASSUME UNCHANGED <<router_routes, router_request, router_route, router_params>>,
         Routes!MostSpecific
  PROVE  /\ Routes!MostSpecific' /\ Routes!ChainSize' = Routes!ChainSize
         /\ Routes!Serving' = Routes!Serving /\ Routes!Matching' = Routes!Matching
<1>1. Routes!Segments' = Routes!Segments
  BY DEF Routes!Segments
<1>2. Routes!Matching' = Routes!Matching
  BY <1>1 DEF Routes!Matching
<1>3. Routes!Serving' = Routes!Serving
  BY <1>2 DEF Routes!Serving
<1>4. Routes!ChainSize' = Routes!ChainSize
  BY DEF Routes!ChainSize
<1>5. \A i : Routes!Literals(i)' = Routes!Literals(i)
  BY DEF Routes!Literals
<1>. QED  BY <1>1, <1>2, <1>3, <1>4, <1>5 DEF Routes!MostSpecific

LEMMA OneMoreEntered ==
  ASSUME NEW k \in Nat \ {0}
  PROVE  Append([i \in 1 .. k - 1 |-> i], k) = [i \in 1 .. k |-> i]
<1>. DEFINE s == [i \in 1 .. k - 1 |-> i]
<1>1. s \in Seq(Nat) /\ Len(s) = k - 1
  OBVIOUS
<1>2. [i \in 1 .. k |-> i] \in Seq(Nat) /\ Len([i \in 1 .. k |-> i]) = k
  OBVIOUS
<1>3. /\ Append(s, k) \in Seq(Nat) /\ Len(Append(s, k)) = k
      /\ \A i \in 1 .. k : Append(s, k)[i] = i
  BY <1>1, AppendProperties
<1>. QED  BY <1>2, <1>3, SeqEqual

LEMMA RouterNext ==
  Routes!RouterAssumption /\ RouterRight /\ [Routes!Next]_(Routes!vars) => RouterRight'
<1>. SUFFICES ASSUME Routes!RouterAssumption, RouterRight, [Routes!Next]_(Routes!vars)
              PROVE  RouterRight'
  OBVIOUS
<1>. USE DEF RouterRight, Routes!RoutedRight
<1>0. router_depth # 0 => Routes!ChainSize \in Nat
  <2>. SUFFICES ASSUME router_depth # 0 PROVE Routes!ChainSize \in Nat
    OBVIOUS
  <2>1. router_route \in 1 .. Len(router_routes)
    BY DEF Routes!MostSpecific, Routes!Serving, Routes!Matching
  <2>. QED  BY <2>1, ChainIs DEF Routes!ChainSize
<1>1. CASE UNCHANGED Routes!vars
  BY <1>1, SameRequest DEF Routes!vars, Routes!RefusedRightly, Routes!HandlerGuarded
<1>2. CASE Routes!CallNext
  <2>1. /\ router_depth \in 1 .. Routes!ChainSize /\ router_depth' = router_depth + 1
        /\ router_entered = [i \in 1 .. router_depth - 1 |-> i]
        /\ router_entered' = Append(router_entered, router_depth)
        /\ router_answer' = Routes!NoAnswer /\ router_answer = Routes!NoAnswer
        /\ UNCHANGED <<router_routes, router_request, router_route, router_params>>
    BY <1>2 DEF Routes!CallNext, Routes!InMiddleware
  <2>2. router_entered' = [i \in 1 .. router_depth' - 1 |-> i]
    <3>1. router_depth \in Nat \ {0} /\ router_depth' - 1 = router_depth
      BY <2>1
    <3>. QED  BY <2>1, <3>1, OneMoreEntered
  <2>3. router_depth' \in 1 .. Routes!ChainSize + 1
    BY <1>0, <2>1
  <2>. QED  BY <1>2, <2>1, <2>2, <2>3, SameRequest
            DEF Routes!CallNext, Routes!NoAnswer, Routes!RefusedRightly,
                Routes!HandlerGuarded
<1>3. CASE Routes!ShortCircuit
  BY <1>3, SameRequest
     DEF Routes!ShortCircuit, Routes!Answer, Routes!RefusedRightly, Routes!HandlerGuarded
<1>4. ASSUME NEW outcome, Routes!RunHandler(outcome) PROVE RouterRight'
  <2>1. /\ router_depth # 0 /\ router_depth' = 0 /\ router_answer'.by = "handler"
        /\ ~ router_depth \in 1 .. Routes!ChainSize
        /\ UNCHANGED <<router_routes, router_request, router_route, router_params,
               router_entered>>
    BY <1>4 DEF Routes!RunHandler, Routes!Answer, Routes!InMiddleware
  <2>2. router_depth - 1 = Routes!ChainSize
    BY <1>0, <2>1
  <2>3. router_entered = [i \in 1 .. Routes!ChainSize |-> i]
    BY <2>1, <2>2
  <2>. QED  BY <2>1, <2>3, SameRequest DEF Routes!RefusedRightly, Routes!HandlerGuarded
<1>. QED  BY <1>1, <1>2, <1>3, <1>4, DispatchRight DEF Routes!Next

LEMMA RouterRightRoutes == RouterRight => Routes!RoutedRight
BY DEF RouterRight

-----------------------------------------------------------------------------
(* The order of the generated types. *)

Sorted(s, n) == \A p, q \in 1 .. n : p < q => s[p] < s[q]

\* A finite set of numbers can be listed from the least to the greatest.
LEMMA CanBeSorted ==
  ASSUME NEW S \in SUBSET Nat, IsFiniteSet(S)
  PROVE  \E s \in [1 .. Cardinality(S) -> S] : Sorted(s, Cardinality(S))
<1>. DEFINE Can(T) == \E s \in [1 .. Cardinality(T) -> T] : Sorted(s, Cardinality(T))
            Bad == {n \in Nat : \E T \in SUBSET S : Cardinality(T) = n /\ ~Can(T)}
<1>1. SUFFICES ASSUME Bad # {} PROVE FALSE
  <2>1. Cardinality(S) \in Nat
    BY FS_CardinalityType
  <2>. QED  BY <2>1
<1>2. PICK n \in Bad : \A m \in Bad : n <= m
  BY <1>1, LeastNumber
<1>3. PICK T \in SUBSET S : Cardinality(T) = n /\ ~Can(T)
  BY <1>2
<1>4. n \in Nat /\ IsFiniteSet(T)
  BY <1>2, FS_Subset
<1>5. T # {}
  <2>1. SUFFICES ASSUME T = {} PROVE FALSE
    OBVIOUS
  <2>2. Cardinality(T) = 0
    BY <2>1, FS_EmptySet
  <2>3. <<>> \in [1 .. 0 -> T] /\ Sorted(<<>>, 0)
    BY DEF Sorted
  <2>. QED  BY <1>3, <2>2, <2>3
<1>6. PICK m \in T : \A y \in T : m <= y
  BY <1>5, LeastNumber
<1>7. Cardinality(T \ {m}) = n - 1 /\ IsFiniteSet(T \ {m}) /\ n > 0
  <2>1. n # 0
    BY <1>3, <1>4, <1>5, FS_EmptySet
  <2>. QED  BY <1>3, <1>4, <1>6, <2>1, FS_RemoveElement
<1>8. n - 1 \notin Bad
  BY <1>2, <1>4
<1>9. PICK t \in [1 .. n - 1 -> T \ {m}] : Sorted(t, n - 1)
  <2>1. n - 1 \in Nat /\ T \ {m} \in SUBSET S
    BY <1>4, <1>7
  <2>2. Can(T \ {m})
    BY <1>7, <1>8, <2>1
  <2>. QED  BY <1>7, <2>2
<1>. DEFINE s == [p \in 1 .. n |-> IF p = 1 THEN m ELSE t[p - 1]]
<1>10. s \in [1 .. n -> T]
  BY <1>4, <1>9
<1>11. Sorted(s, n)
  <2>. SUFFICES ASSUME NEW p \in 1 .. n, NEW q \in 1 .. n, p < q PROVE s[p] < s[q]
    BY DEF Sorted
  <2>1. q - 1 \in 1 .. n - 1 /\ s[q] = t[q - 1]
    BY <1>4
  <2>4. t[q - 1] \in T \ {m}
    BY <1>9, <2>1
  <2>2. CASE p = 1
    <3>1. s[p] = m
      BY <2>2
    <3>2. t[q - 1] \in Nat /\ m \in Nat /\ m <= t[q - 1] /\ m # t[q - 1]
      BY <1>6, <2>4
    <3>. QED  BY <2>1, <3>1, <3>2
  <2>3. CASE p # 1
    <3>1. p - 1 \in 1 .. n - 1 /\ s[p] = t[p - 1] /\ p - 1 < q - 1
      BY <1>4, <2>3
    <3>. QED  BY <1>9, <2>1, <3>1 DEF Sorted
  <2>. QED  BY <2>2, <2>3
<1>. QED  BY <1>3, <1>10, <1>11

\* A sequence without repetition, as long as a finite set that holds all it shows, shows it all.
LEMMA ShowsAll ==
  ASSUME NEW S, IsFiniteSet(S), NEW s \in [1 .. Cardinality(S) -> S],
         \A p, q \in 1 .. Cardinality(S) : s[p] = s[q] => p = q
  PROVE  \A x \in S : \E p \in 1 .. Cardinality(S) : s[p] = x
<1>1. Cardinality(S) \in Nat
  BY FS_CardinalityType
<1>2. IsFiniteSet(1 .. Cardinality(S))
          /\ Cardinality(1 .. Cardinality(S)) = Cardinality(S)
  BY <1>1, FS_Interval
<1>3. s \in Injection(1 .. Cardinality(S), S)
  BY DEF Injection, IsInjective
<1>4. s \in Surjection(1 .. Cardinality(S), S)
  BY <1>2, <1>3, FS_Injection
<1>. QED  BY <1>4 DEF Surjection

\* What InOrder returns: each element once.
LEMMA InOrderIs ==
  ASSUME NEW S \in SUBSET Nat, IsFiniteSet(S)
  PROVE  /\ Order!InOrder(S) \in Seq(S)
         /\ \A p, q \in 1 .. Len(Order!InOrder(S)) :
              Order!InOrder(S)[p] = Order!InOrder(S)[q] => p = q
         /\ \A x \in S : \E p \in 1 .. Len(Order!InOrder(S)) : Order!InOrder(S)[p] = x
<1>. DEFINE n == Cardinality(S)
            s == Order!InOrder(S)
<1>1. n \in Nat
  BY FS_CardinalityType
<1>2. s \in [1 .. n -> S] /\ Sorted(s, n)
  <2>1. s = CHOOSE t \in [1 .. n -> S] : Sorted(t, n)
    BY SameCount DEF Order!InOrder, Sorted
  <2>. HIDE DEF s
  <2>. QED  BY <2>1, CanBeSorted
<1>. HIDE DEF s
<1>3. \A p, q \in 1 .. n : s[p] = s[q] => p = q
  <2>. SUFFICES ASSUME NEW p \in 1 .. n, NEW q \in 1 .. n, s[p] = s[q], p # q PROVE FALSE
    OBVIOUS
  <2>1. s[p] \in Nat /\ s[q] \in Nat
    BY <1>2
  <2>2. p < q \/ q < p
    BY <1>1
  <2>. QED  BY <1>2, <2>1, <2>2 DEF Sorted
<1>4. \A x \in S : \E p \in 1 .. n : s[p] = x
  BY <1>2, <1>3, ShowsAll
<1>5. s \in Seq(S) /\ Len(s) = n
  BY <1>1, <1>2
<1>. QED  BY <1>3, <1>4, <1>5 DEF s

\* f follows the steps of a chain to its end.
Follows(f, I, D, step, base) == f = [i \in I |-> IF i \in D THEN f[step[i]] ELSE base[i]]

\* A function that follows the steps of a chain to its end is one: the equation has a solution
\* if a rank falls with every step.
LEMMA ChainEnds ==
  ASSUME NEW I, NEW N \in Nat, NEW rank \in [I -> 0 .. N], NEW D \in SUBSET I, NEW step,
         NEW base, \A i \in D : step[i] \in I /\ rank[step[i]] < rank[i]
  PROVE  \E f : Follows(f, I, D, step, base)
<1>. DEFINE Below(n) == {i \in I : rank[i] < n}
            Solves(f, n) == f = [i \in Below(n) |-> IF i \in D THEN f[step[i]] ELSE base[i]]
            Bad == {n \in Nat : ~\E f : Solves(f, n)}
<1>1. SUFFICES ASSUME Bad # {} PROVE FALSE
  <2>1. N + 1 \notin Bad
    BY <1>1
  <2>2. Below(N + 1) = I
    OBVIOUS
  <2>. QED  BY <2>1, <2>2 DEF Follows
<1>2. PICK n \in Bad : \A m \in Bad : n <= m
  BY <1>1, LeastNumber
<1>3. n \in Nat /\ ~\E f : Solves(f, n)
  BY <1>2
<1>4. n # 0
  <2>1. Below(0) = {}
    OBVIOUS
  <2>2. Solves([i \in {} |-> 0], 0)
    BY <2>1
  <2>. QED  BY <1>3, <2>2
<1>5. n - 1 \in Nat /\ n - 1 \notin Bad
  <2>1. n - 1 \in Nat
    BY <1>3, <1>4
  <2>. HIDE DEF Bad
  <2>. QED  BY <1>2, <1>3, <2>1
<1>6. PICK f : Solves(f, n - 1)
  BY <1>5
<1>. DEFINE g == [i \in Below(n) |-> IF i \in D THEN f[step[i]] ELSE base[i]]
<1>7. \A i \in Below(n) \intersect D : step[i] \in Below(n - 1)
  BY <1>3
<1>8. \A i \in Below(n - 1) : g[i] = f[i]
  <2>. SUFFICES ASSUME NEW i \in Below(n - 1) PROVE g[i] = f[i]
    OBVIOUS
  <2>1. i \in Below(n)
    BY <1>3
  <2>2. f[i] = IF i \in D THEN f[step[i]] ELSE base[i]
    <3>. HIDE DEF Below
    <3>. QED  BY <1>6
  <2>. QED  BY <2>1, <2>2
<1>9. Solves(g, n)
  <2>. HIDE DEF Below
  <2>. QED  BY <1>7, <1>8
<1>. QED  BY <1>3, <1>9

-----------------------------------------------------------------------------
Graph(d) ==
  /\ d \in [Order!Ids -> [kind : STRING, props : SUBSET Order!Ids,
                          items : Order!Ids \union {Order!Nothing}]]
  /\ \E rank \in [Order!Ids -> Order!Ids] :
       \A i \in Order!Ids : Order!IsArray(d[i]) => rank[d[i].items] < rank[i]

DtosKnown == Order!DtoAssumption /\ dtos_schemas \in DtoDocuments

LEMMA IdsFinite ==
  ASSUME DtosKnown
  PROVE  /\ SchemaCount \in Nat /\ Order!Ids \subseteq Nat
         /\ IsFiniteSet(Order!Ids) /\ Cardinality(Order!Ids) = SchemaCount
<1>1. SchemaCount \in Nat /\ Order!Ids = 1 .. SchemaCount
  BY DEF DtosKnown, Order!DtoAssumption, Order!Ids
<1>. QED  BY <1>1, FS_Interval

LEMMA KnownGraph ==
  ASSUME DtosKnown PROVE Graph(dtos_schemas)
BY DEF DtosKnown, Graph, Order!DtoAssumption

LEMMA SchemaFields ==
  ASSUME DtosKnown, NEW i \in Order!Ids
  PROVE  /\ dtos_schemas[i].props \in SUBSET Order!Ids
         /\ Order!IsArray(dtos_schemas[i]) => dtos_schemas[i].items \in Order!Ids
BY KnownGraph DEF Graph, Order!IsArray, Order!Nothing

\* The end of a chain of arrays is found.
LEMMA UnwrapIs ==
  ASSUME DtosKnown
  PROVE  \A i \in Order!Ids :
           Order!UnwrapArray[i] =
             IF Order!IsArray(dtos_schemas[i]) THEN Order!UnwrapArray[dtos_schemas[i].items] ELSE i
<1>. DEFINE I == Order!Ids
            D == {i \in I : Order!IsArray(dtos_schemas[i])}
            step == [i \in I |-> dtos_schemas[i].items]
            base == [i \in I |-> i]
            Eq(f) == f = [i \in I |-> IF Order!IsArray(dtos_schemas[i])
                                      THEN f[dtos_schemas[i].items] ELSE i]
<1>1. PICK rank \in [I -> I] :
        \A i \in I : Order!IsArray(dtos_schemas[i])
                         => rank[dtos_schemas[i].items] < rank[i]
  BY KnownGraph DEF Graph
<1>2. SchemaCount \in Nat /\ rank \in [I -> 0 .. SchemaCount]
  BY <1>1, IdsFinite DEF Order!Ids
<1>3. \A i \in D : step[i] \in I /\ rank[step[i]] < rank[i]
  BY <1>1, SchemaFields
<1>4. \E f : Follows(f, I, D, step, base)
  <2>. HIDE DEF D, step, base, I
  <2>1. D \in SUBSET I
    BY DEF D
  <2>. QED  BY <1>2, <1>3, <2>1, ChainEnds
<1>5. \E f : Eq(f)
  BY <1>4 DEF Follows
<1>6. Eq(Order!UnwrapArray)
  <2>1. Order!UnwrapArray = CHOOSE f : Eq(f)
    BY DEF Order!UnwrapArray
  <2>. HIDE DEF Eq
  <2>. QED  BY <1>5, <2>1
<1>. HIDE DEF Order!UnwrapArray
<1>. QED  BY <1>6

\* The structs that a C++ type names: at most one, at the end of its chain of arrays.
LEMMA NamedIs ==
  ASSUME DtosKnown
  PROVE  \A i \in Order!Ids :
           Order!Named[i] =
             IF Order!IsArray(dtos_schemas[i]) THEN Order!Named[dtos_schemas[i].items]
             ELSE IF Order!IsStruct(i) THEN {i} ELSE {}
<1>. DEFINE I == Order!Ids
            D == {i \in I : Order!IsArray(dtos_schemas[i])}
            step == [i \in I |-> dtos_schemas[i].items]
            base == [i \in I |-> IF Order!IsStruct(i) THEN {i} ELSE {}]
            Eq(f) == f = [i \in I |-> IF Order!IsArray(dtos_schemas[i])
                                      THEN f[dtos_schemas[i].items]
                                      ELSE IF Order!IsStruct(i) THEN {i} ELSE {}]
<1>1. PICK rank \in [I -> I] :
        \A i \in I : Order!IsArray(dtos_schemas[i])
                         => rank[dtos_schemas[i].items] < rank[i]
  BY KnownGraph DEF Graph
<1>2. SchemaCount \in Nat /\ rank \in [I -> 0 .. SchemaCount]
  BY <1>1, IdsFinite DEF Order!Ids
<1>3. \A i \in D : step[i] \in I /\ rank[step[i]] < rank[i]
  BY <1>1, SchemaFields
<1>4. \E f : Follows(f, I, D, step, base)
  <2>. HIDE DEF D, step, base, I
  <2>1. D \in SUBSET I
    BY DEF D
  <2>. QED  BY <1>2, <1>3, <2>1, ChainEnds
<1>5. \E f : Eq(f)
  BY <1>4 DEF Follows
<1>6. Eq(Order!Named)
  <2>1. Order!Named = CHOOSE f : Eq(f)
    BY DEF Order!Named
  <2>. HIDE DEF Eq
  <2>. QED  BY <1>5, <2>1
<1>. HIDE DEF Order!Named
<1>. QED  BY <1>6

\* The one struct that a C++ type names is the one that unwrap_array finds.
LEMMA NamedUnwrapped ==
  ASSUME DtosKnown
  PROVE  \A i \in Order!Ids :
           /\ Order!UnwrapArray[i] \in Order!Ids
           /\ Order!Named[i] = {j \in {Order!UnwrapArray[i]} : Order!IsStruct(j)}
<1>. DEFINE Fits(i) == /\ Order!UnwrapArray[i] \in Order!Ids
                       /\ Order!Named[i] = {j \in {Order!UnwrapArray[i]} : Order!IsStruct(j)}
<1>1. PICK rank \in [Order!Ids -> Order!Ids] :
        \A i \in Order!Ids :
          Order!IsArray(dtos_schemas[i]) => rank[dtos_schemas[i].items] < rank[i]
  BY KnownGraph DEF Graph
<1>. DEFINE Bad == {rank[i] : i \in {k \in Order!Ids : ~Fits(k)}}
<1>2. SUFFICES ASSUME Bad # {} PROVE FALSE
  OBVIOUS
<1>3. Bad \in SUBSET Nat
  BY <1>1, IdsFinite
<1>4. PICK n \in Bad : \A m \in Bad : n <= m
  <2>. HIDE DEF Bad
  <2>. QED  BY <1>2, <1>3, LeastNumber
<1>5. PICK i \in Order!Ids : n = rank[i] /\ ~Fits(i)
  BY <1>4
<1>6. CASE Order!IsArray(dtos_schemas[i])
  <2>. DEFINE j == dtos_schemas[i].items
  <2>1. j \in Order!Ids /\ rank[j] < rank[i]
    BY <1>1, <1>5, <1>6, SchemaFields
  <2>2. rank[j] \in Nat /\ n \in Nat
    BY <1>1, <1>3, <1>4, <2>1, IdsFinite
  <2>3. Fits(j)
    <3>1. rank[j] \notin Bad
      <4>. HIDE DEF Bad
      <4>. QED  BY <1>4, <1>5, <2>1, <2>2
    <3>. QED  BY <2>1, <3>1
  <2>4. Order!UnwrapArray[i] = Order!UnwrapArray[j] /\ Order!Named[i] = Order!Named[j]
    BY <1>5, <1>6, UnwrapIs, NamedIs
  <2>. QED  BY <1>5, <2>3, <2>4
<1>7. CASE ~Order!IsArray(dtos_schemas[i])
  <2>1. Order!UnwrapArray[i] = i /\ Order!Named[i] = IF Order!IsStruct(i) THEN {i} ELSE {}
    BY <1>5, <1>7, UnwrapIs, NamedIs
  <2>. QED  BY <1>5, <2>1
<1>. QED  BY <1>6, <1>7

LEMMA NamedAreIds ==
  ASSUME DtosKnown, NEW i \in Order!Ids
  PROVE  Order!Uses(i) \subseteq {j \in Order!Ids : Order!IsStruct(j)}
BY NamedUnwrapped, SchemaFields DEF Order!Uses

LEMMA DepsAreIds ==
  ASSUME DtosKnown, NEW i \in Order!Ids
  PROVE  Order!Deps(i) \subseteq {j \in Order!Ids : Order!IsStruct(j)}
<1>1. \A k \in Order!Ids : Order!UnwrapArray[k] \in Order!Ids
  BY NamedUnwrapped
<1>2. SUFFICES ASSUME NEW j \in Order!Deps(i) PROVE j \in Order!Ids /\ Order!IsStruct(j)
  OBVIOUS
<1>3. Order!IsStruct(j)
  BY <1>2 DEF Order!Deps
<1>4. CASE dtos_schemas[i].props # {}
  BY <1>1, <1>2, <1>4, SchemaFields DEF Order!Deps
<1>5. CASE dtos_schemas[i].props = {}
  <2>1. dtos_schemas[i].items # Order!Nothing => dtos_schemas[i].items \in Order!Ids
    BY KnownGraph DEF Graph
  <2>. QED  BY <1>1, <1>2, <1>5, <2>1 DEF Order!Deps
<1>. QED  BY <1>3, <1>4, <1>5

\* The sort knows of every struct that a definition uses, ...
LEMMA UsesAreDeps ==
  ASSUME DtosKnown, NEW i \in Order!Ids
  PROVE  Order!Uses(i) \ {i} \subseteq Order!Deps(i)
<1>1. CASE dtos_schemas[i].props # {}
  BY <1>1, NamedUnwrapped, SchemaFields DEF Order!Uses, Order!Deps
<1>2. CASE dtos_schemas[i].props = {}
  BY <1>2, NamedUnwrapped DEF Order!Uses, Order!Deps
<1>. QED  BY <1>1, <1>2

\* ... and of no other, unless the definition uses none.
LEMMA DepsAreUses ==
  ASSUME DtosKnown, NEW i \in Order!Ids, dtos_schemas[i].props # {} \/ Order!Uses(i) # {}
  PROVE  Order!Deps(i) \subseteq Order!Uses(i)
<1>1. CASE dtos_schemas[i].props # {}
  BY <1>1, NamedUnwrapped, SchemaFields DEF Order!Uses, Order!Deps
<1>2. CASE dtos_schemas[i].props = {}
  <2>1. ~Order!IsStruct(i)
    BY <1>2 DEF Order!IsStruct
  <2>2. Order!Named[i] = {j \in {Order!UnwrapArray[i]} : Order!IsStruct(j)}
            /\ Order!Named[i] # {}
    BY <1>2, NamedUnwrapped DEF Order!Uses
  <2>3. Order!UnwrapArray[i] # i
    BY <2>1, <2>2
  <2>4. Order!IsArray(dtos_schemas[i])
    BY <2>3, UnwrapIs
  <2>5. dtos_schemas[i].kind # "object"
    BY <2>4 DEF Order!IsArray
  <2>. QED  BY <1>2, <2>2, <2>5 DEF Order!Uses, Order!Deps
<1>. QED  BY <1>1, <1>2

-----------------------------------------------------------------------------
Direct(i) == Order!Uses(i) \ {i}

LEMMA ReachedHas ==
  ASSUME NEW S \in SUBSET Order!Ids PROVE S \subseteq Order!Reached(S)
BY DEF Order!Reached

LEMMA ReachedCloses ==
  ASSUME DtosKnown, NEW S \in SUBSET Order!Ids, NEW i \in Order!Reached(S)
  PROVE  i \in Order!Ids /\ Direct(i) \subseteq Order!Reached(S)
<1>1. i \in Order!Ids
  BY DEF Order!Reached
<1>2. Direct(i) \subseteq Order!Ids
  BY <1>1, NamedAreIds DEF Direct
<1>. QED  BY <1>1, <1>2 DEF Order!Reached, Direct

LEMMA ReachedLeast ==
  ASSUME NEW S, NEW T \in SUBSET Order!Ids, S \subseteq T,
         \A i \in T : Direct(i) \subseteq T
  PROVE  Order!Reached(S) \subseteq T
BY DEF Order!Reached, Direct

\* If every schema of W that i reaches uses another one of W, i reaches a cycle.
LEMMA DescentCycles ==
  ASSUME DtosKnown, NEW W \in SUBSET Order!Ids, NEW i \in W,
         \A k \in W \intersect Order!Reached({i}) : \E j \in W : j \in Direct(k)
  PROVE  \E k \in Order!Reached({i}) : Order!Cyclic(k)
<1>. DEFINE R == W \intersect Order!Reached({i})
            Below(k) == Order!Reached(Direct(k))
            Sizes == {Cardinality(Below(k)) : k \in R}
<1>1. SUFFICES ASSUME \A k \in Order!Reached({i}) : ~Order!Cyclic(k) PROVE FALSE
  OBVIOUS
<1>2. i \in R
  BY ReachedHas
<1>3. \A k : Below(k) \subseteq Order!Ids /\ IsFiniteSet(Below(k))
                 /\ Cardinality(Below(k)) \in Nat
  <2>. SUFFICES ASSUME NEW k
                PROVE  Below(k) \subseteq Order!Ids /\ IsFiniteSet(Below(k))
                       /\ Cardinality(Below(k)) \in Nat
    OBVIOUS
  <2>1. Below(k) \subseteq Order!Ids
    BY DEF Order!Reached
  <2>. HIDE DEF Below
  <2>. QED  BY <2>1, IdsFinite, FS_Subset, FS_CardinalityType
<1>4. PICK n \in Sizes : \A m \in Sizes : n <= m
  <2>1. Sizes \in SUBSET Nat /\ Sizes # {}
    <3>. HIDE DEF Below, R
    <3>. QED  BY <1>2, <1>3
  <2>. HIDE DEF Sizes
  <2>. QED  BY <2>1, LeastNumber
<1>5. PICK k \in R : n = Cardinality(Below(k))
  BY <1>4
<1>6. PICK j \in W : j \in Direct(k)
  BY <1>5
<1>7. k \in Order!Ids /\ j \in R
  <2>1. {i} \in SUBSET Order!Ids
    OBVIOUS
  <2>. QED  BY <1>5, <1>6, <2>1, ReachedCloses
<1>8. Direct(k) \in SUBSET Order!Ids
  BY <1>7, NamedAreIds DEF Direct
<1>9. j \in Below(k)
  BY <1>6, <1>8, ReachedHas
<1>10. Below(j) \subseteq Below(k)
  <2>1. Direct(j) \subseteq Below(k)
    BY <1>8, <1>9, ReachedCloses
  <2>2. \A l \in Below(k) : Direct(l) \subseteq Below(k)
    BY <1>8, ReachedCloses
  <2>3. Below(k) \in SUBSET Order!Ids
    BY <1>3
  <2>. HIDE DEF Below
  <2>4. Order!Reached(Direct(j)) \subseteq Below(k)
    BY <2>1, <2>2, <2>3, ReachedLeast
  <2>. QED  BY <2>4 DEF Below
<1>11. j \notin Below(j)
  BY <1>1, <1>7 DEF Order!Cyclic, Direct
<1>12. Cardinality(Below(j)) < Cardinality(Below(k))
  <2>1. Below(j) # Below(k)
    BY <1>9, <1>11
  <2>. HIDE DEF Below
  <2>2. Cardinality(Below(j)) <= Cardinality(Below(k))
        /\ Cardinality(Below(k)) # Cardinality(Below(j))
    BY <1>3, <1>10, <2>1, FS_Subset
  <2>. QED  BY <1>3, <2>2
<1>13. Cardinality(Below(k)) <= Cardinality(Below(j))
  <2>. HIDE DEF Below, R
  <2>. QED  BY <1>4, <1>5, <1>7
<1>. QED
  <2>. HIDE DEF Below
  <2>. QED  BY <1>3, <1>12, <1>13

-----------------------------------------------------------------------------
Once(s) == \A p, q \in 1 .. Len(s) : s[p] = s[q] => p = q
Shows(s, x) == \E p \in 1 .. Len(s) : s[p] = x

Cat(s, t) == s \o t
ApartOn(S, s, t) == \A x \in S : ~(Shows(s, x) /\ Shows(t, x))
Joined(S, u, s, t) ==
  /\ u \in Seq(S) /\ Len(u) = Len(s) + Len(t) /\ Once(u)
  /\ \A k \in 1 .. Len(s) : u[k] = s[k]
  /\ \A k \in 1 .. Len(u) : k > Len(s) => Shows(t, u[k])
  /\ \A x \in S : Shows(u, x) <=> Shows(s, x) \/ Shows(t, x)

\* Two sequences without repetition and without a common element, one behind the other.
LEMMA JoinedOnce ==
  ASSUME NEW S, NEW s \in Seq(S), NEW t \in Seq(S), Once(s), Once(t),
         ApartOn(S, s, t)
  PROVE  Joined(S, Cat(s, t), s, t)
<1>. DEFINE u == Cat(s, t)
<1>1. u \in Seq(S) /\ Len(u) = Len(s) + Len(t)
  BY DEF Cat
<1>2. \A k \in 1 .. Len(s) : u[k] = s[k]
  BY DEF Cat
<1>3. \A k \in 1 .. Len(t) : u[Len(s) + k] = t[k]
  BY DEF Cat
<1>4. Len(s) \in Nat /\ Len(t) \in Nat
  OBVIOUS
<1>. HIDE DEF u
<1>5. \A k \in 1 .. Len(u) : k > Len(s) => k - Len(s) \in 1 .. Len(t)
                                 /\ u[k] = t[k - Len(s)]
  <2>. SUFFICES ASSUME NEW k \in 1 .. Len(u), k > Len(s)
                PROVE  k - Len(s) \in 1 .. Len(t) /\ u[k] = t[k - Len(s)]
    OBVIOUS
  <2>1. k - Len(s) \in 1 .. Len(t) /\ Len(s) + (k - Len(s)) = k
    BY <1>1, <1>4
  <2>. QED  BY <1>3, <2>1
<1>6. \A k \in 1 .. Len(u) : u[k] \in S
  BY <1>1
<1>7. Once(u)
  <2>. SUFFICES ASSUME NEW p \in 1 .. Len(u), NEW q \in 1 .. Len(u),
                           u[p] = u[q] PROVE p = q
    BY DEF Once
  <2>0. p \in Int /\ q \in Int /\ (p <= Len(s) => p \in 1 .. Len(s))
        /\ (q <= Len(s) => q \in 1 .. Len(s))
    BY <1>1, <1>4
  <2>1. CASE p <= Len(s) /\ q <= Len(s)
    BY <1>2, <2>0, <2>1 DEF Once
  <2>2. CASE p > Len(s) /\ q > Len(s)
    <3>1. p - Len(s) = q - Len(s)
      BY <1>5, <2>2 DEF Once
    <3>. QED  BY <1>4, <2>0, <3>1
  <2>3. CASE p <= Len(s) /\ q > Len(s)
    <3>1. Shows(s, u[p]) /\ Shows(t, u[q])
      BY <1>2, <1>5, <2>0, <2>3 DEF Shows
    <3>. QED  BY <1>6, <3>1 DEF ApartOn
  <2>4. CASE p > Len(s) /\ q <= Len(s)
    <3>1. Shows(t, u[p]) /\ Shows(s, u[q])
      BY <1>2, <1>5, <2>0, <2>4 DEF Shows
    <3>. QED  BY <1>6, <3>1 DEF ApartOn
  <2>. QED  BY <1>4, <2>0, <2>1, <2>2, <2>3, <2>4
<1>8. \A k \in 1 .. Len(u) : k > Len(s) => Shows(t, u[k])
  BY <1>5 DEF Shows
<1>9. \A x \in S : Shows(u, x) <=> Shows(s, x) \/ Shows(t, x)
  <2>. SUFFICES ASSUME NEW x PROVE Shows(u, x) <=> Shows(s, x) \/ Shows(t, x)
    OBVIOUS
  <2>1. ASSUME Shows(s, x) PROVE Shows(u, x)
    BY <1>1, <1>2, <1>4, <2>1 DEF Shows
  <2>2. ASSUME Shows(t, x) PROVE Shows(u, x)
    <3>1. PICK k \in 1 .. Len(t) : t[k] = x
      BY <2>2 DEF Shows
    <3>2. Len(s) + k \in 1 .. Len(u) /\ u[Len(s) + k] = x
      BY <1>1, <1>3, <1>4, <3>1
    <3>. QED  BY <3>2 DEF Shows
  <2>3. ASSUME Shows(u, x) PROVE Shows(s, x) \/ Shows(t, x)
    <3>1. PICK k \in 1 .. Len(u) : u[k] = x
      BY <2>3 DEF Shows
    <3>2. CASE k <= Len(s)
      <4>1. k \in 1 .. Len(s)
        BY <1>1, <1>4, <3>2
      <4>. QED  BY <1>2, <3>1, <4>1 DEF Shows
    <3>3. CASE k > Len(s)
      BY <1>8, <3>1, <3>3
    <3>. QED  BY <1>1, <1>4, <3>2, <3>3
  <2>. QED  BY <2>1, <2>2, <2>3
<1>. QED  BY <1>1, <1>2, <1>7, <1>8, <1>9 DEF u, Joined

LEMMA InOrderShows ==
  ASSUME NEW S \in SUBSET Nat, IsFiniteSet(S)
  PROVE  /\ Order!InOrder(S) \in Seq(S) /\ Once(Order!InOrder(S))
         /\ \A x : Shows(Order!InOrder(S), x) <=> x \in S
<1>. DEFINE s == Order!InOrder(S)
<1>1. s \in Seq(S) /\ Once(s) /\ \A x \in S : Shows(s, x)
  BY InOrderIs DEF Once, Shows
<1>2. \A x : Shows(s, x) => x \in S
  <2>. HIDE DEF s
  <2>. QED  BY <1>1 DEF Shows
<1>. QED  BY <1>1, <1>2

Front(q, f) == {q[k] : k \in 1 .. f - 1}

\* What is true while the elements of I are sorted by what they depend on: deg counts the
\* dependencies that have not been taken from the queue q, which has come to f; q holds the
\* elements that have none left, each behind its dependencies; and res is what has been taken,
\* with what is left when the queue has come to its end.
Kahn(I, dep, q, f, deg, res) ==
  /\ q \in Seq(I) /\ Once(q) /\ f \in Nat \ {0} /\ f <= Len(q) + 1
  /\ deg \in [I -> Nat] /\ \A i \in I : deg[i] = Cardinality(dep[i] \ Front(q, f))
  /\ \A i \in I : Shows(q, i) <=> dep[i] \subseteq Front(q, f)
  /\ \A k \in 1 .. Len(q) : \A j \in dep[q[k]] : \E p \in 1 .. f - 1 : p < k /\ q[p] = j
  /\ res \in Seq(I) /\ Once(res) /\ f - 1 <= Len(res)
  /\ \A k \in 1 .. f - 1 : res[k] = q[k]
  /\ f <= Len(res) => f = Len(q) + 1 /\ \A i \in I : Shows(res, i)

\* An element that waits for x alone is one that x frees.
LEMMA FreedBy ==
  ASSUME NEW D, IsFiniteSet(D), NEW x
  PROVE  D = {x} <=> x \in D /\ Cardinality(D) = 1
<1>1. Cardinality({x}) = 1
  BY FS_Singleton
<1>2. x \in D => {x} \in SUBSET D
  OBVIOUS
<1>. QED  BY <1>1, <1>2, FS_Subset

LEMMA KahnInit ==
  ASSUME NEW I \in SUBSET Nat, IsFiniteSet(I), NEW dep \in [I -> SUBSET I]
  PROVE  Kahn(I, dep, Order!InOrder({i \in I : dep[i] = {}}), 1,
              [i \in I |-> Cardinality(dep[i])], <<>>)
<1>. DEFINE F == {i \in I : dep[i] = {}}
            q == Order!InOrder(F)
            deg == [i \in I |-> Cardinality(dep[i])]
<1>1. F \in SUBSET Nat /\ IsFiniteSet(F)
  BY FS_Subset
<1>2. q \in Seq(F) /\ Once(q) /\ \A x : Shows(q, x) <=> x \in F
  <2>. HIDE DEF F
  <2>. QED  BY <1>1, InOrderShows
<1>. HIDE DEF q
<1>3. q \in Seq(I) /\ Len(q) \in Nat /\ \A k \in 1 .. Len(q) : q[k] \in F
  BY <1>2
<1>4. Front(q, 1) = {}
  BY DEF Front
<1>5. /\ deg \in [I -> Nat]
      /\ \A i \in I : deg[i] = Cardinality(dep[i] \ Front(q, 1))
  <2>1. \A i \in I : Cardinality(dep[i]) \in Nat
    BY FS_Subset, FS_CardinalityType
  <2>2. \A i \in I : dep[i] \ Front(q, 1) = dep[i]
    BY <1>4
  <2>. QED  BY <2>1, <2>2
<1>. HIDE DEF deg
<1>6. \A i \in I : Shows(q, i) <=> dep[i] \subseteq Front(q, 1)
  BY <1>2, <1>4
<1>7. \A k \in 1 .. Len(q) : \A j \in dep[q[k]] : \E p \in 1 .. 0 : p < k /\ q[p] = j
  BY <1>3
<1>8. <<>> \in Seq(I) /\ Len(<<>>) = 0 /\ Once(<<>>)
  BY DEF Once
<1>9. Kahn(I, dep, q, 1, deg, <<>>)
  <2>. HIDE DEF F
  <2>. QED  BY <1>2, <1>3, <1>5, <1>6, <1>7, <1>8 DEF Kahn
<1>. QED  BY <1>9 DEF q, deg

\* One turn of the loop, from q, deg and res to q1, deg1 and res1.
Takes(I, dep, q, f, deg, res, q1, deg1, res1) ==
  LET waits == {i \in I : q[f] \in dep[i]}
  IN  /\ f <= Len(q)
      /\ deg1 = [i \in I |-> IF i \in waits THEN deg[i] - 1 ELSE deg[i]]
      /\ q1 = q \o Order!InOrder({i \in waits : deg[i] = 1})
      /\ res1 = Append(res, q[f])

LEMMA KahnTakes ==
  ASSUME NEW I \in SUBSET Nat, IsFiniteSet(I), NEW dep \in [I -> SUBSET I],
         NEW q, NEW f, NEW deg, NEW res, Kahn(I, dep, q, f, deg, res),
         NEW q1, NEW deg1, NEW res1, Takes(I, dep, q, f, deg, res, q1, deg1, res1)
  PROVE  Kahn(I, dep, q1, f + 1, deg1, res1)
<1>. DEFINE waits == {i \in I : q[f] \in dep[i]}
            freed == {i \in waits : deg[i] = 1}
            t == Order!InOrder(freed)
            x == q[f]
            done == Front(q, f)
<1>0. /\ f <= Len(q) /\ q1 = q \o t /\ res1 = Append(res, q[f])
      /\ deg1 = [i \in I |-> IF i \in waits THEN deg[i] - 1 ELSE deg[i]]
  BY DEF Takes
<1>1. /\ q \in Seq(I) /\ Once(q) /\ f \in 1 .. Len(q) /\ Len(q) \in Nat
      /\ deg \in [I -> Nat] /\ \A i \in I : deg[i] = Cardinality(dep[i] \ done)
      /\ \A i \in I : Shows(q, i) <=> dep[i] \subseteq done
  BY <1>0 DEF Kahn
<1>2. \A k \in 1 .. Len(q) : \A j \in dep[q[k]] : \E p \in 1 .. f - 1 : p < k /\ q[p] = j
  BY DEF Kahn
<1>3. /\ res \in Seq(I) /\ Len(res) = f - 1 /\ \A k \in 1 .. f - 1 : res[k] = q[k]
  BY <1>0 DEF Kahn
<1>4. x \in I
  BY <1>1
<1>5. x \notin done
  <2>1. ASSUME NEW k \in 1 .. f - 1 PROVE q[k] # q[f]
    <3>1. k \in 1 .. Len(q) /\ k # f
      BY <1>1
    <3>. QED  BY <1>1, <3>1 DEF Once
  <2>. QED  BY <2>1 DEF Front
<1>6. Front(q, f + 1) = done \union {x}
  <2>1. 1 .. (f + 1) - 1 = (1 .. f - 1) \union {f}
    BY <1>1
  <2>. QED  BY <2>1 DEF Front
<1>7. waits = {i \in I : x \in dep[i]} /\ waits \subseteq I
      /\ freed = {i \in waits : deg[i] = 1}
  OBVIOUS
<1>. HIDE DEF x, done, waits, freed
<1>8. \A i \in I : IsFiniteSet(dep[i] \ done) /\ Cardinality(dep[i] \ done) \in Nat
  BY FS_Subset, FS_CardinalityType
<1>9. \A i \in I : i \in freed <=> dep[i] \ done = {x}
  <2>. SUFFICES ASSUME NEW i \in I PROVE i \in freed <=> dep[i] \ done = {x}
    OBVIOUS
  <2>. DEFINE D == dep[i] \ done
  <2>1. i \in freed <=> x \in D /\ Cardinality(D) = 1
    BY <1>1, <1>5, <1>7
  <2>2. IsFiniteSet(D)
    BY <1>8
  <2>. HIDE DEF D
  <2>3. D = {x} <=> x \in D /\ Cardinality(D) = 1
    BY <2>2, FreedBy
  <2>. QED  BY <2>1, <2>3 DEF D
<1>10. freed \in SUBSET Nat /\ IsFiniteSet(freed) /\ freed \subseteq I
  BY <1>7, FS_Subset
<1>11. t \in Seq(freed) /\ Once(t) /\ \A y : Shows(t, y) <=> y \in freed
  BY <1>10, InOrderShows
<1>. HIDE DEF t
<1>12. t \in Seq(I) /\ Len(t) \in Nat
  <2>1. t \in Seq(freed) /\ freed \subseteq I
    BY <1>10, <1>11
  <2>2. t \in Seq(I)
    BY <2>1, SeqMonotonic
  <2>. QED  BY <2>2
<1>13. \A i \in I : ~(Shows(q, i) /\ Shows(t, i))
  BY <1>1, <1>9, <1>11
<1>14. /\ q1 \in Seq(I) /\ Len(q1) = Len(q) + Len(t) /\ Once(q1)
       /\ \A k \in 1 .. Len(q) : q1[k] = q[k]
       /\ \A k \in 1 .. Len(q1) : k > Len(q) => q1[k] \in freed
       /\ \A i \in I : Shows(q1, i) <=> Shows(q, i) \/ i \in freed
  <2>1. q1 = Cat(q, t)
    BY <1>0 DEF Cat
  <2>2. q \in Seq(I) /\ Once(q)
    BY <1>1
  <2>3. ApartOn(I, q, t)
    BY <1>13 DEF ApartOn
  <2>4. Joined(I, Cat(q, t), q, t)
    BY <1>11, <1>12, <2>2, <2>3, JoinedOnce
  <2>. QED  BY <1>11, <2>1, <2>4 DEF Joined
<1>15. Front(q1, f + 1) = done \union {x}
  <2>1. \A k \in 1 .. (f + 1) - 1 : q1[k] = q[k]
    BY <1>1, <1>14
  <2>2. Front(q1, f + 1) = Front(q, f + 1)
    BY <2>1 DEF Front
  <2>. QED  BY <1>6, <2>2
<1>16. /\ deg1 \in [I -> Nat]
       /\ \A i \in I : deg1[i] = Cardinality(dep[i] \ Front(q1, f + 1))
  <2>1. ASSUME NEW i \in I
        PROVE  deg1[i] = Cardinality(dep[i] \ Front(q1, f + 1)) /\ deg1[i] \in Nat
    <3>. DEFINE D == dep[i] \ done
    <3>1. dep[i] \ Front(q1, f + 1) = D \ {x}
      BY <1>15
    <3>2. i \in waits <=> x \in D
      BY <1>5, <1>7
    <3>3. deg1[i] = IF i \in waits THEN deg[i] - 1 ELSE deg[i]
      BY <1>0
    <3>4. deg[i] = Cardinality(D) /\ IsFiniteSet(D)
      BY <1>1, <1>8
    <3>. HIDE DEF D
    <3>5. Cardinality(D \ {x}) = IF x \in D THEN Cardinality(D) - 1 ELSE Cardinality(D)
      BY <3>4, FS_RemoveElement
    <3>6. Cardinality(D \ {x}) \in Nat
      BY <3>4, FS_RemoveElement, FS_CardinalityType
    <3>. QED  BY <3>1, <3>2, <3>3, <3>4, <3>5, <3>6
  <2>2. deg1 = [i \in I |-> deg1[i]]
    BY <1>0
  <2>. QED  BY <2>1, <2>2
<1>17. \A i \in I : Shows(q1, i) <=> dep[i] \subseteq Front(q1, f + 1)
  <2>. SUFFICES ASSUME NEW i \in I PROVE Shows(q1, i) <=> dep[i] \subseteq Front(q1,
                           f + 1)
    OBVIOUS
  <2>1. dep[i] \subseteq Front(q1, f + 1) <=> dep[i] \subseteq done \/ dep[i] \ done = {x}
    BY <1>15
  <2>. QED  BY <1>1, <1>9, <1>14, <2>1
<1>18. \A k \in 1 .. Len(q1) : \A j \in dep[q1[k]] :
         \E p \in 1 .. (f + 1) - 1 : p < k /\ q1[p] = j
  <2>. SUFFICES ASSUME NEW k \in 1 .. Len(q1), NEW j \in dep[q1[k]]
                PROVE  \E p \in 1 .. (f + 1) - 1 : p < k /\ q1[p] = j
    OBVIOUS
  <2>1. CASE k <= Len(q)
    <3>1. k \in 1 .. Len(q) /\ j \in dep[q[k]]
      BY <1>1, <1>14, <2>1
    <3>2. PICK p \in 1 .. f - 1 : p < k /\ q[p] = j
      BY <1>2, <3>1
    <3>3. p \in 1 .. (f + 1) - 1 /\ p \in 1 .. Len(q)
      BY <1>1, <3>2
    <3>. QED  BY <1>14, <3>2, <3>3
  <2>2. CASE k > Len(q)
    <3>1. q1[k] \in freed
      BY <1>14, <2>2
    <3>2. j \in Front(q1, f + 1)
      BY <1>9, <1>10, <1>15, <3>1
    <3>3. PICK p \in 1 .. (f + 1) - 1 : q1[p] = j
      BY <3>2 DEF Front
    <3>4. p < k
      BY <1>1, <2>2, <3>3
    <3>. QED  BY <3>3, <3>4
  <2>3. k <= Len(q) \/ k > Len(q)
    BY <1>1
  <2>. QED  BY <2>1, <2>2, <2>3
<1>19. res1 \in Seq(I) /\ Len(res1) = f /\ \A k \in 1 .. f : res1[k] = q[k]
  <2>1. res1 \in Seq(I) /\ Len(res1) = f
    BY <1>0, <1>1, <1>3, <1>4 DEF x
  <2>2. res1[f] = q[f]
    BY <1>0, <1>1, <1>3
  <2>3. \A k \in 1 .. f - 1 : res1[k] = q[k]
    BY <1>0, <1>1, <1>3
  <2>4. \A k \in 1 .. f : k = f \/ k \in 1 .. f - 1
    BY <1>1
  <2>. QED  BY <2>1, <2>2, <2>3, <2>4
<1>20. Once(res1)
  <2>. SUFFICES ASSUME NEW k \in 1 .. f, NEW l \in 1 .. f, res1[k] = res1[l] PROVE k = l
    BY <1>19 DEF Once
  <2>1. k \in 1 .. Len(q) /\ l \in 1 .. Len(q) /\ q[k] = q[l]
    BY <1>1, <1>19
  <2>. QED  BY <1>1, <2>1 DEF Once
<1>21. \A k \in 1 .. (f + 1) - 1 : res1[k] = q1[k]
  <2>. SUFFICES ASSUME NEW k \in 1 .. (f + 1) - 1 PROVE res1[k] = q1[k]
    OBVIOUS
  <2>1. k \in 1 .. f /\ k \in 1 .. Len(q)
    BY <1>1
  <2>. QED  BY <1>14, <1>19, <2>1
<1>22. /\ f + 1 \in Nat \ {0} /\ f + 1 <= Len(q1) + 1
       /\ (f + 1) - 1 <= Len(res1) /\ ~(f + 1 <= Len(res1))
  BY <1>1, <1>12, <1>14, <1>19
<1>. QED
  BY <1>14, <1>16, <1>17, <1>18, <1>19, <1>20, <1>21, <1>22 DEF Kahn

LEMMA KahnRests ==
  ASSUME NEW I \in SUBSET Nat, IsFiniteSet(I), NEW dep \in [I -> SUBSET I],
         NEW q, NEW f, NEW deg, NEW res, Kahn(I, dep, q, f, deg, res), f > Len(q),
         NEW left, left = {i \in I : ~Shows(res, i)},
         NEW t, t = Order!InOrder(left),
         NEW res1, res1 = res \o t
  PROVE  Kahn(I, dep, q, f, deg, res1)
<1>1. /\ q \in Seq(I) /\ f = Len(q) + 1 /\ Len(q) \in Nat
      /\ res \in Seq(I) /\ Once(res) /\ f - 1 <= Len(res) /\ Len(res) \in Nat
      /\ \A k \in 1 .. f - 1 : res[k] = q[k]
  BY DEF Kahn
<1>2. left \in SUBSET Nat /\ left \subseteq I /\ IsFiniteSet(left)
  BY FS_Subset
<1>3. t \in Seq(left) /\ Once(t) /\ \A y : Shows(t, y) <=> y \in left
  BY <1>2, InOrderShows
<1>4. t \in Seq(I) /\ Len(t) \in Nat
  BY <1>2, <1>3, SeqMonotonic
<1>5. \A i \in I : ~(Shows(res, i) /\ Shows(t, i))
  BY <1>3
<1>6. /\ res1 \in Seq(I) /\ Len(res1) = Len(res) + Len(t) /\ Once(res1)
      /\ \A k \in 1 .. Len(res) : res1[k] = res[k]
      /\ \A i \in I : Shows(res1, i)
  <2>1. res1 = Cat(res, t)
    BY DEF Cat
  <2>2. ApartOn(I, res, t)
    BY <1>5 DEF ApartOn
  <2>3. Joined(I, Cat(res, t), res, t)
    BY <1>1, <1>3, <1>4, <2>2, JoinedOnce
  <2>. QED  BY <1>3, <2>1, <2>3 DEF Joined
<1>7. \A k \in 1 .. f - 1 : res1[k] = q[k]
  BY <1>1, <1>6
<1>8. f - 1 <= Len(res1)
  BY <1>1, <1>4, <1>6
<1>. QED  BY <1>1, <1>6, <1>7, <1>8 DEF Kahn

-----------------------------------------------------------------------------
DepsOf == [i \in Order!Ids |-> Order!Deps(i)]

DtosRight ==
  DtosKnown /\ Kahn(Order!Ids, DepsOf, dtos_queue, dtos_front, dtos_in_degree,
      dtos_result)

LEMMA DepsOfType ==
  ASSUME DtosKnown
  PROVE  /\ Order!Ids \in SUBSET Nat /\ IsFiniteSet(Order!Ids)
         /\ DepsOf \in [Order!Ids -> SUBSET Order!Ids]
         /\ \A i \in Order!Ids : DepsOf[i] = Order!Deps(i)
BY IdsFinite, DepsAreIds DEF DepsOf

\* The definitions of the document stay as they are.
LEMMA DtosKeep ==
  ASSUME dtos_schemas' = dtos_schemas
  PROVE  (DtosKnown => DtosKnown') /\ DepsOf' = DepsOf /\ Order!Ids' = Order!Ids
BY DEF DtosKnown, DepsOf, Order!Deps, Order!UnwrapArray, Order!IsStruct, Order!IsArray,
       Order!Nothing,
       Order!Ids

LEMMA DtosInit ==
  Order!DtoAssumption /\ Order!Init => DtosRight
<1>. SUFFICES ASSUME Order!DtoAssumption, Order!Init PROVE DtosRight
  OBVIOUS
<1>1. DtosKnown
  BY DEF Order!Init, DtosKnown
<1>2. dtos_queue = Order!InOrder({i \in Order!Ids : DepsOf[i] = {}})
  <2>1. {i \in Order!Ids : DepsOf[i] = {}} = {i \in Order!Ids : Order!Deps(i) = {}}
    BY <1>1, DepsOfType
  <2>. QED  BY <2>1 DEF Order!Init
<1>3. dtos_in_degree = [i \in Order!Ids |-> Cardinality(DepsOf[i])]
  BY <1>1, DepsOfType, SameCount DEF Order!Init
<1>4. dtos_front = 1 /\ dtos_result = <<>>
  BY DEF Order!Init
<1>. QED  BY <1>1, <1>2, <1>3, <1>4, DepsOfType, KahnInit DEF DtosRight

LEMMA DtosNext ==
  DtosRight /\ [Order!Next]_(Order!vars) => DtosRight'
<1>. SUFFICES ASSUME DtosRight, [Order!Next]_(Order!vars) PROVE DtosRight'
  OBVIOUS
<1>. DEFINE I == Order!Ids
            dep == DepsOf
<1>1. dtos_schemas' = dtos_schemas
  BY DEF Order!Next, Order!Write, Order!WriteCycles, Order!vars
<1>2. DtosKnown' /\ dep' = dep /\ I' = I
  BY <1>1, DtosKeep DEF DtosRight
<1>3. I \in SUBSET Nat /\ IsFiniteSet(I) /\ dep \in [I -> SUBSET I]
      /\ \A i \in I : dep[i] = Order!Deps(i)
  BY DepsOfType DEF DtosRight
<1>4. Kahn(I, dep, dtos_queue, dtos_front, dtos_in_degree, dtos_result)
  BY DEF DtosRight
<1>. SUFFICES Kahn(I, dep, dtos_queue', dtos_front', dtos_in_degree', dtos_result')
  BY <1>2 DEF DtosRight
<1>5. CASE Order!Write
  <2>1. dtos_front' = dtos_front + 1
    BY <1>5 DEF Order!Write
  <2>2. {i \in I : dtos_queue[dtos_front] \in dep[i]}
          = {i \in I : dtos_queue[dtos_front] \in Order!Deps(i)}
    BY <1>3
  <2>3. Takes(I, dep, dtos_queue, dtos_front, dtos_in_degree, dtos_result,
              dtos_queue', dtos_in_degree', dtos_result')
    <3>. HIDE DEF dep
    <3>. QED  BY <1>5, <2>2 DEF Order!Write, Takes
  <2>. HIDE DEF I, dep
  <2>. QED  BY <1>3, <1>4, <2>1, <2>3, KahnTakes
<1>6. CASE Order!WriteCycles
  <2>. DEFINE left == {i \in I : ~Shows(dtos_result, i)}
  <2>1. left = I \ Order!ToSet(dtos_result)
    <3>1. dtos_result \in Seq(I)
      BY <1>4 DEF Kahn
    <3>2. \A i \in I : i \in Order!ToSet(dtos_result) <=> Shows(dtos_result, i)
      BY <3>1 DEF Order!ToSet, Shows
    <3>. QED  BY <3>2
  <2>2. /\ dtos_front > Len(dtos_queue) /\ dtos_front' = dtos_front
        /\ dtos_queue' = dtos_queue /\ dtos_in_degree' = dtos_in_degree
        /\ dtos_result' = dtos_result \o Order!InOrder(left)
    BY <1>6, <2>1 DEF Order!WriteCycles
  <2>3. left = {i \in I : ~Shows(dtos_result, i)}
    OBVIOUS
  <2>. HIDE DEF left, I, dep
  <2>. QED  BY <1>3, <1>4, <2>2, <2>3, KahnRests
<1>7. CASE UNCHANGED Order!vars
  BY <1>4, <1>7 DEF Order!vars
<1>. QED  BY <1>5, <1>6, <1>7 DEF Order!Next

LEMMA KahnOnce ==
  ASSUME NEW I, IsFiniteSet(I), NEW dep, NEW q, NEW f, NEW deg, NEW res,
         Kahn(I, dep, q, f, deg, res), Len(res) = Cardinality(I)
  PROVE  \A i \in I : Shows(res, i)
<1>. DEFINE n == Cardinality(I)
<1>1. res \in Seq(I) /\ Once(res) /\ Len(res) = n
  BY DEF Kahn
<1>. HIDE DEF n
<1>2. res \in [1 .. n -> I]
  BY <1>1
<1>3. \A p, r \in 1 .. n : res[p] = res[r] => p = r
  BY <1>1 DEF Once
<1>4. \A i \in I : \E p \in 1 .. n : res[p] = i
  BY <1>2, <1>3, ShowsAll DEF n
<1>. QED  BY <1>1, <1>4 DEF Shows

LEMMA DtosWrittenOnce ==
  DtosRight => Order!WrittenOnce
<1>. SUFFICES ASSUME DtosRight PROVE Order!WrittenOnce
  OBVIOUS
<1>1. /\ IsFiniteSet(Order!Ids) /\ Cardinality(Order!Ids) = SchemaCount
      /\ Kahn(Order!Ids, DepsOf, dtos_queue, dtos_front, dtos_in_degree, dtos_result)
      /\ dtos_result \in Seq(Order!Ids) /\ Once(dtos_result)
  BY IdsFinite DEF DtosRight, Kahn
<1>2. Order!IsInjective(dtos_result)
  BY <1>1 DEF Order!IsInjective, Once
<1>3. ASSUME Len(dtos_result) = SchemaCount PROVE Order!ToSet(dtos_result) = Order!Ids
  <2>1. \A i \in Order!Ids : Shows(dtos_result, i)
    BY <1>1, <1>3, KahnOnce
  <2>. QED  BY <1>1, <2>1 DEF Shows, Order!ToSet
<1>. QED  BY <1>2, <1>3 DEF Order!WrittenOnce

LEMMA DtosUsesAfter ==
  DtosRight => Order!UsesAfterDefinition
<1>. SUFFICES ASSUME DtosRight, NEW i \in Order!Ids, NEW j \in Order!Uses(i) \ {i},
                     Order!Written(i), \A k \in Order!Reached({i}) : ~Order!Cyclic(k)
              PROVE  Order!Before(j, i)
  BY DEF Order!UsesAfterDefinition
<1>. DEFINE q == dtos_queue
            f == dtos_front
            res == dtos_result
            I == Order!Ids
<1>1. DtosKnown /\ Kahn(I, DepsOf, q, f, dtos_in_degree, res)
  BY DEF DtosRight
<1>2. \A k \in I : DepsOf[k] = Order!Deps(k)
  BY <1>1, DepsOfType
<1>3. /\ q \in Seq(I) /\ Once(q) /\ f \in Nat \ {0} /\ f <= Len(q) + 1 /\ Len(q) \in Nat
      /\ res \in Seq(I) /\ Once(res) /\ f - 1 <= Len(res) /\ Len(res) \in Nat
      /\ \A k \in 1 .. f - 1 : res[k] = q[k]
      /\ f <= Len(res) => f = Len(q) + 1
      /\ \A k \in I : Shows(q, k) <=> DepsOf[k] \subseteq Front(q, f)
      /\ \A k \in 1 .. Len(q) : \A l \in DepsOf[q[k]] : \E p \in 1 .. f - 1 : p < k
                                    /\ q[p] = l
  BY <1>1 DEF Kahn
<1>4. j \in DepsOf[i]
  BY <1>1, <1>2, UsesAreDeps
<1>5. PICK p \in 1 .. Len(res) : res[p] = i
  BY <1>3 DEF Order!Written, Order!ToSet
<1>6. CASE p <= f - 1
  <2>1. p \in 1 .. f - 1 /\ p \in 1 .. Len(q) /\ q[p] = i
    BY <1>3, <1>5, <1>6
  <2>2. PICK r \in 1 .. f - 1 : r < p /\ q[r] = j
    BY <1>3, <1>4, <2>1
  <2>3. r \in 1 .. Len(res) /\ res[r] = j
    BY <1>3, <2>2
  <2>. QED  BY <1>5, <2>2, <2>3 DEF Order!Before
<1>7. CASE p > f - 1
  <2>. DEFINE W == {k \in I : ~Shows(q, k)}
  <2>1. f = Len(q) + 1
    BY <1>3, <1>5, <1>7
  <2>2. i \in W
    <3>1. ASSUME NEW k \in 1 .. Len(q), q[k] = i PROVE FALSE
      <4>1. k \in 1 .. f - 1 /\ k \in 1 .. Len(res) /\ res[k] = i
        BY <1>3, <2>1, <3>1
      <4>2. k = p
        BY <1>3, <1>5, <4>1 DEF Once
      <4>. QED  BY <1>3, <1>7, <4>1, <4>2
    <3>. QED  BY <3>1 DEF Shows
  <2>3. \A l \in W : \E m \in W : m \in DepsOf[l]
    <3>. SUFFICES ASSUME NEW l \in W PROVE \E m \in W : m \in DepsOf[l]
      OBVIOUS
    <3>1. PICK m \in DepsOf[l] : m \notin Front(q, f)
      BY <1>3
    <3>2. m \in I
      BY <1>1, DepsOfType
    <3>3. ~Shows(q, m)
      BY <1>3, <2>1, <3>1 DEF Shows, Front
    <3>. QED  BY <3>2, <3>3
  <2>4. \A l \in W \intersect Order!Reached({i}) : \E m \in W : m \in Direct(l)
    <3>. SUFFICES ASSUME NEW l \in W,
                             l \in Order!Reached({i}) PROVE \E m \in W : m \in Direct(l)
      OBVIOUS
    <3>1. dtos_schemas[l].props # {} \/ Order!Uses(l) # {}
      <4>. DEFINE T == {i} \union {k \in I : Order!IsStruct(k)}
      <4>1. {i} \subseteq T /\ T \in SUBSET I
        OBVIOUS
      <4>2. \A k \in T : Direct(k) \subseteq T
        BY <1>1, NamedAreIds DEF Direct
      <4>3. Order!Reached({i}) \subseteq T
        <5>. HIDE DEF T
        <5>. QED  BY <4>1, <4>2, ReachedLeast
      <4>. QED  BY <4>3 DEF Order!IsStruct
    <3>2. PICK m \in W : m \in DepsOf[l]
      BY <2>3
    <3>3. m \in Order!Uses(l)
      BY <1>1, <1>2, <3>1, <3>2, DepsAreUses
    <3>4. m # l
      BY <1>2, <3>2 DEF Order!Deps
    <3>. QED  BY <3>2, <3>3, <3>4 DEF Direct
  <2>5. \E k \in Order!Reached({i}) : Order!Cyclic(k)
    <3>1. W \in SUBSET Order!Ids
      OBVIOUS
    <3>. HIDE DEF W
    <3>. QED  BY <1>1, <2>2, <2>4, <3>1, DescentCycles
  <2>. QED  BY <2>5
<1>. QED  BY <1>3, <1>5, <1>6, <1>7

LEMMA DtosOrdered == DtosRight => Order!DtosInOrder
BY DtosWrittenOnce, DtosUsesAfter DEF Order!DtosInOrder

-----------------------------------------------------------------------------
(* The names of the generated types. *)

\* The parts of names: those of the document, the numbers and those that the code adds (the
\* provers do not know that a literal is in STRING).
Word == STRING \union {Naming!ToString(i) : i \in Nat}
          \union {"upper", "t", "schema", "InlineSchema"}
Names == Seq(Word) \ {Naming!NoName}

\* The last part tells names that begin alike apart.
LEMMA LastPart ==
  ASSUME NEW base \in Names, NEW x \in Word, NEW y \in Word, base \o <<x>> = base \o <<y>>
  PROVE  x = y
<1>1. Len(base) \in Nat
  BY DEF Names
<1>2. (base \o <<x>>)[Len(base) + 1] = x /\ (base \o <<y>>)[Len(base) + 1] = y
  BY <1>1 DEF Names
<1>. QED  BY <1>2

\* A name that is found is free: the numbers do not run out.
LEMMA UniqueIsFree ==
  ASSUME Naming!SchemaNamesAssumption, IsFiniteSet(names_used),
         Cardinality(names_used) < MaxNameIndex, NEW base \in Names
  PROVE  Naming!Unique(base) \in Names /\ Naming!Unique(base) \notin names_used
<1>. DEFINE numbered(i) == base \o <<Naming!ToString(i)>>
            free == {i \in 1 .. MaxNameIndex : numbered(i) \notin names_used}
            f == [i \in 1 .. MaxNameIndex |-> numbered(i)]
<1>1. MaxNameIndex \in Nat
      /\ \A i, j \in 1 .. MaxNameIndex : Naming!ToString(i) = Naming!ToString(j) => i = j
  BY DEF Naming!SchemaNamesAssumption
<1>0. Cardinality(1 .. MaxNameIndex) = MaxNameIndex
  <2>1. MaxNameIndex \in Nat
    BY <1>1
  <2>. QED  BY <2>1, FS_Interval
<1>2. \A i \in 1 .. MaxNameIndex : Naming!ToString(i) \in Word
  BY <1>1 DEF Word
<1>3. \A i \in 1 .. MaxNameIndex : numbered(i) \in Names
  <2>. SUFFICES ASSUME NEW i \in 1 .. MaxNameIndex PROVE numbered(i) \in Names
    OBVIOUS
  <2>1. Naming!ToString(i) \in Word
    BY <1>2
  <2>. HIDE DEF Word
  <2>. QED  BY <2>1 DEF Names, Naming!NoName
<1>4. \A i, j \in 1 .. MaxNameIndex : numbered(i) = numbered(j) => i = j
  BY <1>1, <1>2, LastPart
<1>. HIDE DEF numbered
<1>5. free # {}
  <2>. SUFFICES ASSUME free = {} PROVE FALSE
    OBVIOUS
  <2>1. f \in Injection(1 .. MaxNameIndex, names_used)
    BY <1>4 DEF Injection, IsInjective
  <2>2. Cardinality(1 .. MaxNameIndex) <= Cardinality(names_used)
    BY <2>1, FS_Injection
  <2>3. Cardinality(names_used) \in Nat
    BY FS_CardinalityType
  <2>. QED  BY <1>1, <1>0, <2>2, <2>3
<1>6. Naming!Min(free) \in free
  <2>1. free \in SUBSET Nat
    BY <1>1
  <2>. HIDE DEF free
  <2>2. \E x \in free : \A y \in free : x <= y
    BY <1>5, <2>1, LeastNumber
  <2>. QED  BY <2>2 DEF Naming!Min
<1>7. Naming!Unique(base) = IF base \notin names_used THEN base ELSE numbered(Naming!Min(free))
  BY DEF Naming!Unique, numbered
<1>. QED  BY <1>3, <1>6, <1>7

\* No name is given twice, every name that is given is taken, and a name of the document that
\* is not generic stays.
NamesApart(d, names, used) ==
  /\ names \in [1 .. Len(d.schemas) -> Seq(Word)] /\ used \subseteq Names
         /\ IsFiniteSet(used)
  /\ \A i \in 1 .. Len(d.schemas) : names[i] # Naming!NoName =>
       names[i] \in used /\ \A j \in 1 .. Len(d.schemas) \ {i} : names[j] # names[i]
  /\ \A i \in 1 .. Len(d.schemas) :
       d.schemas[i].name # Naming!NoName /\ ~Naming!Generic(d.schemas[i].name)
         => names[i] = d.schemas[i].name

Unnamed(d, names) == {i \in 1 .. Len(d.schemas) : names[i] = Naming!NoName}

LEMMA StayApart ==
  ASSUME NEW d, NEW names, NEW used, NamesApart(d, names, used),
             NEW i \in 1 .. Len(d.schemas),
         names[i] = Naming!NoName \/ Naming!Generic(names[i]), NEW name \in Names,
             name \notin used,
         NEW names1, names1 = [names EXCEPT ![i] = name]
  PROVE  NamesApart(d, names1, used \union {name})
<1>. DEFINE I == 1 .. Len(d.schemas)
<1>1. name \in Seq(Word) /\ name # Naming!NoName
  BY DEF Names
<1>2. names \in [I -> Seq(Word)] /\ used \subseteq Names /\ IsFiniteSet(used) /\ i \in I
  BY DEF NamesApart
<1>3. names1 \in [I -> Seq(Word)] /\ names1[i] = name
          /\ \A j \in I \ {i} : names1[j] = names[j]
  <2>. HIDE DEF I
  <2>. QED  BY <1>1, <1>2
<1>4. used \union {name} \subseteq Names /\ IsFiniteSet(used \union {name})
  BY <1>2, FS_AddElement
<1>5. \A j \in I : names[j] # name
  BY <1>1 DEF NamesApart
<1>6. ASSUME NEW j \in I, names1[j] # Naming!NoName
      PROVE  names1[j] \in used \union {name} /\ \A k \in I \ {j} : names1[k] # names1[j]
  <2>. HIDE DEF I
  <2>1. CASE j = i
    BY <1>3, <1>5, <2>1
  <2>2. CASE j # i
    <3>1. names1[j] = names[j] /\ names[j] \in used
              /\ \A k \in I \ {j} : names[k] # names[j]
      BY <1>3, <1>6, <2>2 DEF NamesApart, I
    <3>. QED  BY <1>3, <1>5, <3>1
  <2>. QED  BY <2>1, <2>2
<1>7. ASSUME NEW j \in I, d.schemas[j].name # Naming!NoName,
             ~Naming!Generic(d.schemas[j].name)
      PROVE  names1[j] = d.schemas[j].name
  <2>1. names[j] = d.schemas[j].name
    BY <1>7 DEF NamesApart
  <2>2. j # i
    BY <1>7, <2>1
  <2>. QED  BY <1>3, <2>1, <2>2
<1>. QED  BY <1>3, <1>4, <1>6, <1>7 DEF NamesApart

-----------------------------------------------------------------------------
NameCount == Len(names_doc.schemas)

NamesKnown ==
  /\ Naming!SchemaNamesAssumption /\ names_doc \in NameDocuments
  /\ names_context \in [1 .. NameCount -> [parent : Seq(Word), field : Seq(Word)]]
  /\ names_inlines \in Nat

\* What is true while schemas are named: names are apart, the loops have named what they have
\* passed, and each schema has taken a name at most once in the first passes and at most once
\* in the last, so that the numbers do not run out.
NamesKept ==
  /\ NamesKnown
  /\ NamesApart(names_doc, names_names, names_used)
  /\ \/ names_pass = "uses" /\ names_at \in Nat \ {0}
     \/ /\ names_pass = "rest" /\ names_at \in 1 .. NameCount
        /\ \A i \in 1 .. names_at - 1 : names_names[i] # Naming!NoName
     \/ /\ names_pass \in {"context", "improve", "done"} /\ names_at \in 1 .. NameCount
        /\ Unnamed(names_doc, names_names) = {}
  /\ names_pass \in {"uses", "rest", "context"} =>
       Cardinality(names_used) + Cardinality(Unnamed(names_doc, names_names)) <= NameCount
  /\ names_pass = "improve" => Cardinality(names_used) <= NameCount + names_at - 1

LEMMA WordsAreWords == Seq(STRING) \subseteq Seq(Word)
<1>. SUFFICES ASSUME NEW s \in Seq(STRING) PROVE s \in Seq(Word)
  OBVIOUS
<1>1. STRING \subseteq Word
  BY DEF Word
<1>. HIDE DEF Word
<1>. QED  BY <1>1, SeqMonotonic

LEMMA DocumentIs ==
  ASSUME Naming!SchemaNamesAssumption, NEW d \in NameDocuments
  PROVE  /\ Len(d.schemas) \in Nat \ {0} /\ 2 * Len(d.schemas) <= MaxNameIndex
         /\ MaxNameIndex \in Nat /\ Len(d.uses) \in Nat
         /\ \A i \in 1 .. Len(d.schemas) :
              d.schemas[i].name \in Seq(Word) /\ d.schemas[i].parent \in Seq(Word)
              /\ d.schemas[i].field \in Seq(Word)
         /\ \A i, j \in 1 .. Len(d.schemas) :
              d.schemas[i].name = d.schemas[j].name => i = j
                  \/ d.schemas[i].name = Naming!NoName
         /\ \A k \in 1 .. Len(d.uses) :
              d.uses[k].schema \in 1 .. Len(d.schemas) /\ d.uses[k].base \in Names
<1>1. /\ d.schemas \in Seq(Naming!Schema) /\ d.uses \in Seq(Naming!Use(Len(d.schemas)))
      /\ d.schemas # <<>> /\ 2 * Len(d.schemas) <= MaxNameIndex /\ MaxNameIndex \in Nat
      /\ \A i, j \in 1 .. Len(d.schemas) :
           d.schemas[i].name = d.schemas[j].name => i = j
               \/ d.schemas[i].name = Naming!NoName
  BY DEF Naming!SchemaNamesAssumption
<1>2. Len(d.schemas) \in Nat \ {0}
  <2>. DEFINE R == Naming!Schema
  <2>1. d.schemas \in Seq(R)
    BY <1>1
  <2>. HIDE DEF R
  <2>. QED  BY <1>1, <2>1
<1>7. Len(d.uses) \in Nat
  <2>. DEFINE R == Naming!Use(Len(d.schemas))
  <2>1. d.uses \in Seq(R)
    BY <1>1
  <2>. HIDE DEF R
  <2>. QED  BY <2>1
<1>3. \A i \in 1 .. Len(d.schemas) : d.schemas[i] \in Naming!Schema
  BY <1>1, ElementOfSeq
<1>4. \A s \in Naming!Schema :
        s.name \in Seq(Word) /\ s.parent \in Seq(Word) /\ s.field \in Seq(Word)
  BY WordsAreWords DEF Naming!Schema, Naming!Name
<1>5. \A k \in 1 .. Len(d.uses) : d.uses[k] \in Naming!Use(Len(d.schemas))
  BY <1>1, ElementOfSeq
<1>6. \A u \in Naming!Use(Len(d.schemas)) : u.schema \in 1 .. Len(d.schemas)
                                                /\ u.base \in Names
  BY WordsAreWords DEF Naming!Use, Naming!Name, Names
<1>. QED  BY <1>1, <1>2, <1>3, <1>4, <1>5, <1>6, <1>7

LEMMA NamesInit ==
  Naming!SchemaNamesAssumption /\ Naming!Init => NamesKept
<1>. SUFFICES ASSUME Naming!SchemaNamesAssumption, Naming!Init PROVE NamesKept
  OBVIOUS
<1>. DEFINE d == names_doc
            n == Len(d.schemas)
            I == 1 .. n
            given == {d.schemas[i].name : i \in I}
<1>1. /\ d \in NameDocuments /\ names_inlines = 0 /\ names_pass = "uses" /\ names_at = 1
      /\ names_names = [i \in I |-> d.schemas[i].name]
      /\ names_context = [i \in I |-> [parent |-> d.schemas[i].parent,
                                       field |-> d.schemas[i].field]]
      /\ names_used = given \ {Naming!NoName}
  BY DEF Naming!Init
<1>2. /\ n \in Nat \ {0}
      /\ \A i \in I : d.schemas[i].name \in Seq(Word) /\ d.schemas[i].parent \in Seq(Word)
                      /\ d.schemas[i].field \in Seq(Word)
      /\ \A i, j \in I :
           d.schemas[i].name = d.schemas[j].name => i = j
               \/ d.schemas[i].name = Naming!NoName
  BY <1>1, DocumentIs
<1>. HIDE DEF d
<1>3. NamesKnown
  BY <1>1, <1>2 DEF NamesKnown, NameCount, d
<1>. HIDE DEF n
<1>4. IsFiniteSet(I) /\ Cardinality(I) = n
  BY <1>2, FS_Interval
<1>. DEFINE U == {i \in I : names_names[i] = Naming!NoName}
<1>5. U \subseteq I /\ IsFiniteSet(U) /\ IsFiniteSet(I \ U)
      /\ Cardinality(U) + Cardinality(I \ U) = n /\ Cardinality(U) \in Nat
      /\ Cardinality(I \ U) \in Nat
  <2>1. U \in SUBSET I /\ I \ U \in SUBSET I /\ U \union (I \ U) = I
            /\ U \intersect (I \ U) = {}
    OBVIOUS
  <2>. HIDE DEF U, I
  <2>2. IsFiniteSet(U) /\ IsFiniteSet(I \ U)
    BY <1>4, <2>1, FS_Subset
  <2>3. Cardinality(U \union (I \ U))
          = Cardinality(U) + Cardinality(I \ U) - Cardinality(U \intersect (I \ U))
    BY <2>2, FS_Union
  <2>4. Cardinality(U \intersect (I \ U)) = 0
    BY <2>1, FS_EmptySet
  <2>5. Cardinality(U) \in Nat /\ Cardinality(I \ U) \in Nat
    BY <2>2, FS_CardinalityType
  <2>6. Cardinality(U \union (I \ U)) = n
    BY <1>4, <2>1
  <2>7. Cardinality(U) + Cardinality(I \ U) = n
    BY <2>3, <2>4, <2>5, <2>6
  <2>8. U \subseteq I
    BY <2>1
  <2>. QED  BY <2>2, <2>5, <2>7, <2>8
<1>6. IsFiniteSet(names_used) /\ Cardinality(names_used) <= Cardinality(I \ U)
      /\ Cardinality(names_used) \in Nat
  <2>. DEFINE f == [i \in I \ U |-> names_names[i]]
  <2>1. f \in Surjection(I \ U, names_used)
    BY <1>1 DEF Surjection
  <2>. HIDE DEF f
  <2>. QED  BY <1>5, <2>1, FS_Surjection, FS_CardinalityType
<1>7. NamesApart(d, names_names, names_used)
  <2>1. \A i \in I : names_names[i] = d.schemas[i].name
    BY <1>1
  <2>2. names_names \in [I -> Seq(Word)] /\ names_used \subseteq Names
    BY <1>1, <1>2 DEF Names
  <2>3. \A i \in I : names_names[i] # Naming!NoName =>
          names_names[i] \in names_used
              /\ \A j \in I \ {i} : names_names[j] # names_names[i]
    BY <1>1, <1>2, <2>1
  <2>. QED  BY <1>6, <2>1, <2>2, <2>3 DEF NamesApart, n
<1>8. Cardinality(names_used) + Cardinality(U) <= n
  <2>. HIDE DEF U, I
  <2>. QED  BY <1>2, <1>5, <1>6
<1>. QED  BY <1>1, <1>2, <1>3, <1>7, <1>8 DEF NamesKept, Unnamed, NameCount, d, n

-----------------------------------------------------------------------------
\* What the first name of a schema does to the names.
Given(d, names, used, i, names1, used1) ==
  /\ NamesApart(d, names1, used1) /\ names1[i] # Naming!NoName
  /\ \A j \in 1 .. Len(d.schemas) : names[j] # Naming!NoName => names1[j] = names[j]
  /\ Cardinality(used1) + Cardinality(Unnamed(d, names1))
       <= Cardinality(used) + Cardinality(Unnamed(d, names))

LEMMA UnnamedCount ==
  ASSUME NEW d, NEW names, Len(d.schemas) \in Nat
  PROVE  IsFiniteSet(Unnamed(d, names)) /\ Cardinality(Unnamed(d, names)) \in Nat
<1>. DEFINE I == 1 .. Len(d.schemas)
<1>1. IsFiniteSet(I)
  BY FS_Interval
<1>2. Unnamed(d, names) \subseteq I
  BY DEF Unnamed
<1>. HIDE DEF I
<1>. QED  BY <1>1, <1>2, FS_Subset, FS_CardinalityType

LEMMA FirstName ==
  ASSUME NEW d, NEW names, NEW used, NamesApart(d, names, used),
             NEW i \in 1 .. Len(d.schemas),
         Len(d.schemas) \in Nat, names[i] = Naming!NoName, NEW name \in Names,
             name \notin used,
         NEW names1, names1 = [names EXCEPT ![i] = name]
  PROVE  Given(d, names, used, i, names1, used \union {name})
<1>. DEFINE U == Unnamed(d, names)
<1>1. NamesApart(d, names1, used \union {name})
  BY StayApart
<1>2. /\ names \in [1 .. Len(d.schemas) -> Seq(Word)] /\ IsFiniteSet(used)
      /\ name # Naming!NoName
  BY DEF NamesApart, Names
<1>3. names1[i] = name /\ \A j \in 1 .. Len(d.schemas) \ {i} : names1[j] = names[j]
  <2>. DEFINE I == 1 .. Len(d.schemas)
           W == Seq(Word)
  <2>1. names \in [I -> W] /\ i \in I
    BY <1>2
  <2>. HIDE DEF I, W
  <2>2. names1[i] = name /\ \A j \in I \ {i} : names1[j] = names[j]
    BY <2>1
  <2>. QED  BY <2>2 DEF I
<1>4. Unnamed(d, names1) = U \ {i} /\ i \in U
  BY <1>2, <1>3 DEF Unnamed
<1>5. IsFiniteSet(U) /\ Cardinality(U) \in Nat
  BY UnnamedCount
<1>. HIDE DEF U
<1>6. Cardinality(U \ {i}) = Cardinality(U) - 1
  BY <1>4, <1>5, FS_RemoveElement
<1>7. Cardinality(used \union {name}) = Cardinality(used) + 1 /\ Cardinality(used) \in Nat
  BY <1>2, FS_AddElement, FS_CardinalityType
<1>8. Cardinality(used \union {name}) + Cardinality(Unnamed(d, names1))
        <= Cardinality(used) + Cardinality(U)
  <2>1. Cardinality(Unnamed(d, names1)) = Cardinality(U) - 1
    BY <1>4, <1>6
  <2>. QED  BY <1>5, <1>7, <2>1
<1>9. \A j \in 1 .. Len(d.schemas) : names[j] # Naming!NoName => names1[j] = names[j]
  BY <1>3
<1>. QED  BY <1>1, <1>2, <1>3, <1>8, <1>9 DEF Given, U

\* Parts of names are names, and a name with more parts is one.
LEMMA LongerName ==
  ASSUME NEW s \in Seq(Word), NEW t \in Seq(Word), s # <<>> \/ t # <<>>
  PROVE  s \o t \in Names
<1>. HIDE DEF Word
<1>. QED  BY DEF Names, Naming!NoName

LEMMA ContextNames ==
  ASSUME NamesKnown, NEW i \in 1 .. NameCount
  PROVE  /\ names_context[i].parent \in Seq(Word) /\ names_context[i].field \in Seq(Word)
         /\ Naming!HasContext(i) =>
              names_context[i].parent \in Names /\ names_context[i].field \in Names
<1>1. names_context[i] \in [parent : Seq(Word), field : Seq(Word)]
  BY DEF NamesKnown
<1>. QED  BY <1>1 DEF Naming!HasContext, Names

LEMMA CapitalIs ==
  ASSUME NEW s \in Seq(Word)
  PROVE  Naming!Capital(s) \in Names
<1>1. <<"upper">> \in Seq(Word)
  BY DEF Word
<1>2. <<"upper">> # <<>>
  OBVIOUS
<1>. QED  BY <1>1, <1>2, LongerName DEF Naming!Capital

LEMMA FirstBases ==
  ASSUME NamesKnown, NEW i \in 1 .. NameCount
  PROVE  /\ Naming!HasContext(i) => names_context[i].parent
              \o Naming!Capital(names_context[i].field) \o <<"t">> \in Names
         /\ <<"InlineSchema", Naming!ToString(names_inlines + 1)>> \in Names
<1>1. "t" \in Word /\ "InlineSchema" \in Word
  BY DEF Word
<1>2. Naming!ToString(names_inlines + 1) \in Word
  BY DEF Word, NamesKnown
<1>. HIDE DEF Word
<1>3. ASSUME Naming!HasContext(i)
      PROVE  names_context[i].parent \o Naming!Capital(names_context[i].field) \o <<"t">> \in Names
  <2>. DEFINE p == names_context[i].parent
           c == Naming!Capital(names_context[i].field)
  <2>1. p \in Seq(Word) /\ c \in Seq(Word)
    BY <1>3, ContextNames, CapitalIs DEF Names
  <2>2. <<"t">> \in Seq(Word) /\ <<"t">> # <<>>
    BY <1>1
  <2>. HIDE DEF p, c
  <2>3. p \o c \in Seq(Word)
    BY <2>1
  <2>4. (p \o c) \o <<"t">> \in Names
    BY <2>2, <2>3, LongerName
  <2>. QED  BY <2>4 DEF p, c
<1>4. <<"InlineSchema", Naming!ToString(names_inlines + 1)>> \in Names
  BY <1>1, <1>2 DEF Names, Naming!NoName
<1>. QED  BY <1>3, <1>4

\* assign_if_empty gives a schema without a name one of its own, and leaves the others alone.
LEMMA Assigned ==
  ASSUME NamesKnown, NamesApart(names_doc, names_names, names_used),
             NEW i \in 1 .. NameCount,
         NEW base \in Names, Naming!AssignIfEmpty(i, base),
         Cardinality(names_used) + Cardinality(Unnamed(names_doc,
             names_names)) <= NameCount
  PROVE  /\ Given(names_doc, names_names, names_used, i, names_names', names_used')
         /\ names_inlines' \in Nat
<1>1. NameCount \in Nat \ {0} /\ 2 * NameCount <= MaxNameIndex /\ MaxNameIndex \in Nat
  BY DocumentIs DEF NamesKnown, NameCount
<1>2. CASE names_names[i] # Naming!NoName
  <2>1. names_names' = names_names /\ names_used' = names_used
            /\ names_inlines' = names_inlines
    BY <1>2 DEF Naming!AssignIfEmpty
  <2>2. Cardinality(names_used) \in Nat /\ Cardinality(Unnamed(names_doc,
            names_names)) \in Nat
    BY <1>1, UnnamedCount, FS_CardinalityType DEF NamesApart, NameCount
  <2>3. Given(names_doc, names_names, names_used, i, names_names, names_used)
    BY <1>2, <2>2 DEF Given
  <2>. QED  BY <2>1, <2>3 DEF NamesKnown
<1>3. CASE names_names[i] = Naming!NoName
  <2>. DEFINE flat == names_doc.flat /\ ~Naming!HasContext(i)
           b == IF Naming!HasContext(i)
                THEN names_context[i].parent \o Naming!Capital(names_context[i].field) \o <<"t">>
                ELSE IF flat THEN <<"InlineSchema", Naming!ToString(names_inlines + 1)>>
                ELSE base
           name == Naming!Unique(b)
  <2>1. /\ names_names' = [names_names EXCEPT ![i] = name]
        /\ names_used' = names_used \union {name}
        /\ names_inlines' = names_inlines + (IF flat THEN 1 ELSE 0)
    BY <1>3, Zenon DEF Naming!AssignIfEmpty
  <2>2. b \in Names
    BY FirstBases
  <2>. HIDE DEF b
  <2>3. IsFiniteSet(names_used) /\ Cardinality(names_used) \in Nat
    BY FS_CardinalityType DEF NamesApart
  <2>4. Cardinality(names_used) < MaxNameIndex
    BY <1>1, <2>3, UnnamedCount DEF NameCount
  <2>5. name \in Names /\ name \notin names_used
    BY <2>2, <2>3, <2>4, UniqueIsFree DEF NamesKnown
  <2>6. names_inlines' \in Nat
    BY <2>1 DEF NamesKnown
  <2>. HIDE DEF name
  <2>7. Given(names_doc, names_names, names_used, i, names_names',
            names_used \union {name})
    BY <1>1, <1>3, <2>1, <2>5, FirstName DEF NameCount
  <2>. QED  BY <2>1, <2>6, <2>7
<1>. QED  BY <1>2, <1>3

\* A schema has a name once assign_if_empty has passed it.
LEMMA GivenUnnamed ==
  ASSUME NEW d, NEW names, NEW used, NEW i \in 1 .. Len(d.schemas), NEW names1, NEW used1,
         Given(d, names, used, i, names1, used1)
  PROVE  Unnamed(d, names1) \subseteq Unnamed(d, names) \ {i}
BY DEF Given, Unnamed

LEMMA FirstPassKeeps ==
  ASSUME NamesKept, Naming!NameUse \/ Naming!NameRest
  PROVE  NamesKept'
<1>1. NameCount \in Nat \ {0} /\ NamesKnown /\ NamesApart(names_doc, names_names,
          names_used)
  BY DocumentIs DEF NamesKept, NamesKnown, NameCount
<1>2. Cardinality(names_used) + Cardinality(Unnamed(names_doc, names_names)) <= NameCount
  <2>1. names_pass \in {"uses", "rest"}
    BY DEF Naming!NameUse, Naming!NameRest
  <2>. QED  BY <1>1, <2>1 DEF NamesKept
<1>3. names_doc' = names_doc /\ names_context' = names_context /\ NameCount' = NameCount
  BY DEF Naming!NameUse, Naming!NameRest, NameCount
<1>4. ASSUME NEW i \in 1 .. NameCount,
             Given(names_doc, names_names, names_used, i, names_names', names_used')
      PROVE  /\ NamesApart(names_doc, names_names', names_used')
             /\ Cardinality(names_used') + Cardinality(Unnamed(names_doc,
                    names_names')) <= NameCount
             /\ Unnamed(names_doc, names_names') \subseteq Unnamed(names_doc,
                    names_names) \ {i}
  <2>1. /\ NamesApart(names_doc, names_names', names_used')
        /\ Cardinality(names_used') + Cardinality(Unnamed(names_doc, names_names'))
             <= Cardinality(names_used) + Cardinality(Unnamed(names_doc, names_names))
    BY <1>4 DEF Given
  <2>2. Unnamed(names_doc, names_names') \subseteq Unnamed(names_doc, names_names) \ {i}
    BY <1>4, GivenUnnamed DEF NameCount
  <2>3. /\ Cardinality(names_used) \in Nat /\ Cardinality(Unnamed(names_doc,
               names_names)) \in Nat
        /\ Cardinality(names_used') \in Nat
        /\ Cardinality(Unnamed(names_doc, names_names')) \in Nat
    BY <1>1, <2>1, UnnamedCount, FS_CardinalityType DEF NamesApart, NameCount
  <2>. QED  BY <1>1, <1>2, <2>1, <2>2, <2>3
<1>5. CASE Naming!NameUse
  <2>. DEFINE i == names_doc.uses[names_at].schema
           base == names_doc.uses[names_at].base
  <2>1. /\ names_pass = "uses" /\ names_at <= Len(names_doc.uses)
               /\ Naming!AssignIfEmpty(i, base)
        /\ names_at' = names_at + 1 /\ names_pass' = names_pass
    BY <1>5 DEF Naming!NameUse
  <2>2. names_at \in Nat \ {0}
    BY <2>1 DEF NamesKept
  <2>3. i \in 1 .. NameCount /\ base \in Names
    <3>1. Len(names_doc.uses) \in Nat
          /\ \A k \in 1 .. Len(names_doc.uses) :
               names_doc.uses[k].schema \in 1 .. NameCount
                   /\ names_doc.uses[k].base \in Names
      BY <1>1, DocumentIs DEF NamesKnown, NameCount
    <3>2. names_at \in 1 .. Len(names_doc.uses)
      BY <2>1, <2>2, <3>1
    <3>. QED  BY <3>1, <3>2
  <2>. HIDE DEF i, base
  <2>4. Given(names_doc, names_names, names_used, i, names_names', names_used')
        /\ names_inlines' \in Nat
    BY <1>1, <1>2, <2>1, <2>3, Assigned
  <2>5. /\ NamesApart(names_doc, names_names', names_used')
        /\ Cardinality(names_used') + Cardinality(Unnamed(names_doc,
               names_names')) <= NameCount
    BY <1>4, <2>3, <2>4
  <2>6. NamesKnown'
    BY <1>1, <1>3, <2>4 DEF NamesKnown
  <2>7. names_at' \in Nat \ {0} /\ names_pass' = "uses"
    BY <2>1, <2>2
  <2>. QED  BY <1>1, <1>3, <2>5, <2>6, <2>7 DEF NamesKept
<1>6. CASE Naming!NameRest
  <2>1. /\ names_pass = "rest" /\ Naming!AssignIfEmpty(names_at, <<"schema">>)
        /\ IF names_at < NameCount THEN names_pass' = names_pass
               /\ names_at' = names_at + 1
           ELSE names_pass' = "context" /\ names_at' = 1
    BY <1>6 DEF Naming!NameRest, Naming!Goto, NameCount
  <2>2. names_at \in 1 .. NameCount
        /\ \A i \in 1 .. names_at - 1 : names_names[i] # Naming!NoName
    BY <2>1 DEF NamesKept
  <2>3. <<"schema">> \in Names
    BY DEF Names, Word, Naming!NoName
  <2>4. Given(names_doc, names_names, names_used, names_at, names_names', names_used')
        /\ names_inlines' \in Nat
    BY <1>1, <1>2, <2>1, <2>2, <2>3, Assigned
  <2>5. /\ NamesApart(names_doc, names_names', names_used')
        /\ Cardinality(names_used') + Cardinality(Unnamed(names_doc,
               names_names')) <= NameCount
        /\ Unnamed(names_doc, names_names') \subseteq Unnamed(names_doc,
               names_names) \ {names_at}
    BY <1>4, <2>2, <2>4
  <2>6. NamesKnown'
    BY <1>1, <1>3, <2>4 DEF NamesKnown
  <2>7. \A i \in 1 .. names_at : i \notin Unnamed(names_doc, names_names')
    <3>1. \A i \in 1 .. names_at : i = names_at \/ i \in 1 .. names_at - 1
      BY <2>2
    <3>2. \A i \in 1 .. names_at - 1 : i \notin Unnamed(names_doc, names_names)
      BY <2>2 DEF Unnamed
    <3>. QED  BY <2>5, <3>1, <3>2
  <2>8. CASE names_at < NameCount
    <3>1. names_pass' = "rest" /\ names_at' = names_at + 1 /\ names_at' \in 1 .. NameCount
          /\ names_at' - 1 = names_at
      BY <1>1, <2>1, <2>2, <2>8
    <3>2. \A i \in 1 .. names_at : names_names'[i] # Naming!NoName
      BY <1>1, <2>2, <2>7 DEF Unnamed, NameCount
    <3>. QED  BY <1>1, <1>3, <2>5, <2>6, <3>1, <3>2 DEF NamesKept
  <2>9. CASE names_at = NameCount
    <3>1. names_pass' = "context" /\ names_at' = 1 /\ names_at' \in 1 .. NameCount
      BY <1>1, <2>1, <2>9
    <3>2. Unnamed(names_doc, names_names') = {}
      BY <2>7, <2>9 DEF Unnamed, NameCount
    <3>. QED  BY <1>1, <1>3, <2>5, <2>6, <3>1, <3>2 DEF NamesKept
  <2>. QED  BY <1>1, <2>2, <2>8, <2>9
<1>. QED  BY <1>5, <1>6

LEMMA ContextsKept ==
  ASSUME NamesKept, Naming!SetContext
  PROVE  names_context' \in [1 .. NameCount -> [parent : Seq(Word), field : Seq(Word)]]
<1>. DEFINE I == 1 .. NameCount
        W == Seq(Word)
        C == [parent : W, field : W]
<1>1. /\ names_pass = "context"
      /\ names_context' = [i \in I |->
           IF i \in names_doc.schemas[names_at].props
              /\ names_context[i].parent = Naming!NoName
           THEN [names_context[i] EXCEPT !.parent = names_names[names_at]] ELSE names_context[i]]
  BY DEF Naming!SetContext, Naming!Ids, NameCount
<1>2. names_names[names_at] \in W /\ names_context \in [I -> C]
  BY <1>1 DEF NamesKept, NamesKnown, NamesApart, NameCount
<1>. HIDE DEF I, W
<1>3. \A c \in C : [c EXCEPT !.parent = names_names[names_at]] \in C
  BY <1>2
<1>4. \A i \in I : names_context[i] \in C
  BY <1>2
<1>. HIDE DEF C
<1>5. names_context' \in [I -> C]
  BY <1>1, <1>3, <1>4
<1>. QED  BY <1>5 DEF C, I, W

LEMMA ContextKeeps ==
  ASSUME NamesKept, Naming!UsesNamed \/ Naming!SetContext
  PROVE  NamesKept'
<1>1. NameCount \in Nat \ {0} /\ NamesKnown
  BY DocumentIs DEF NamesKept, NamesKnown, NameCount
<1>2. /\ names_doc' = names_doc /\ names_names' = names_names /\ names_used' = names_used
      /\ names_inlines' = names_inlines /\ NameCount' = NameCount
  BY DEF Naming!UsesNamed, Naming!SetContext, NameCount
<1>3. CASE Naming!UsesNamed
  <2>1. names_pass = "uses" /\ names_pass' = "rest" /\ names_at' = 1
        /\ names_context' = names_context
    BY <1>3 DEF Naming!UsesNamed
  <2>2. names_at' \in 1 .. NameCount /\ 1 .. names_at' - 1 = {}
    BY <1>1, <2>1
  <2>3. NamesKnown'
    BY <1>1, <1>2, <2>1 DEF NamesKnown
  <2>. QED  BY <1>2, <2>1, <2>2, <2>3 DEF NamesKept
<1>4. CASE Naming!SetContext
  <2>1. /\ names_pass = "context"
        /\ IF names_at < NameCount THEN names_pass' = names_pass
               /\ names_at' = names_at + 1
           ELSE names_pass' = "improve" /\ names_at' = 1
    BY <1>4 DEF Naming!SetContext, Naming!Goto, NameCount
  <2>2. NamesKnown'
    BY <1>1, <1>2, <1>4, ContextsKept DEF NamesKnown
  <2>3. /\ names_at' \in 1 .. NameCount /\ names_pass' \in {"context", "improve"}
        /\ names_pass' = "improve" => names_at' - 1 = 0
    BY <1>1, <2>1 DEF NamesKept
  <2>4. /\ NamesApart(names_doc, names_names, names_used)
        /\ Unnamed(names_doc, names_names) = {}
        /\ Cardinality(names_used) + Cardinality(Unnamed(names_doc,
               names_names)) <= NameCount
    BY <1>1, <2>1 DEF NamesKept
  <2>5. Cardinality(names_used) <= NameCount
    <3>1. Cardinality({}) = 0 /\ Cardinality(names_used) \in Nat
      BY <2>4, FS_EmptySet, FS_CardinalityType DEF NamesApart
    <3>. QED  BY <1>1, <2>4, <3>1
  <2>6. names_pass' = "improve" => Cardinality(names_used) <= NameCount + names_at' - 1
    BY <1>1, <2>1, <2>5
  <2>. QED  BY <1>2, <2>2, <2>3, <2>4, <2>6 DEF NamesKept
<1>. QED  BY <1>3, <1>4

LEMMA StemIs ==
  ASSUME NEW s \in Seq(Word)
  PROVE  Naming!Stem(s) \in Seq(Word)
<1>. DEFINE W == Word
<1>. HIDE DEF W
<1>1. s \in Seq(W) => Naming!Front(s) \in Seq(W) \/ s = <<>>
  BY DEF Naming!Front
<1>2. s # <<>> => Naming!Front(s) \in Seq(Word)
  BY <1>1 DEF W
<1>3. Len(s) > 0 => s # <<>>
  OBVIOUS
<1>. QED  BY <1>2, <1>3 DEF Naming!Stem

LEMMA ImproveKeeps ==
  ASSUME NamesKept, Naming!Improve
  PROVE  NamesKept'
<1>. DEFINE p == names_context[names_at].parent
        f == names_context[names_at].field
        base == IF names_doc.schemas[names_at].enum THEN Naming!Stem(p) \o f
                ELSE p \o Naming!Capital(f)
        name == Naming!Unique(base)
        U == Unnamed(names_doc, names_names)
<1>1. /\ NameCount \in Nat \ {0} /\ 2 * NameCount <= MaxNameIndex /\ MaxNameIndex \in Nat
      /\ NamesKnown /\ NamesApart(names_doc, names_names, names_used)
  BY DocumentIs DEF NamesKept, NamesKnown, NameCount
<1>2. /\ names_doc' = names_doc /\ names_context' = names_context
      /\ names_inlines' = names_inlines /\ NameCount' = NameCount
      /\ IF names_at < NameCount THEN names_pass' = "improve" /\ names_at' = names_at + 1
         ELSE names_pass' = "done" /\ names_at' = 1
  BY DEF Naming!Improve, Naming!Goto, NameCount
<1>3. names_at \in 1 .. NameCount /\ U = {}
      /\ Cardinality(names_used) <= NameCount + names_at - 1
  <2>1. names_pass = "improve"
    BY DEF Naming!Improve
  <2>. QED  BY <2>1 DEF NamesKept
<1>4. IsFiniteSet(names_used) /\ Cardinality(names_used) \in Nat
      /\ Cardinality(names_used) < MaxNameIndex
  <2>1. IsFiniteSet(names_used) /\ Cardinality(names_used) \in Nat
    BY <1>1, FS_CardinalityType DEF NamesApart
  <2>. QED  BY <1>1, <1>3, <2>1
<1>5. /\ NamesApart(names_doc, names_names', names_used')
      /\ Unnamed(names_doc, names_names') = {}
      /\ Cardinality(names_used') <= NameCount + names_at
      /\ Cardinality(names_used') \in Nat
  <2>1. CASE Naming!Generic(names_names[names_at]) /\ Naming!HasContext(names_at)
    <3>1. /\ names_names' = [names_names EXCEPT ![names_at] = name]
          /\ names_used' = names_used \union {name}
      BY <2>1, Zenon DEF Naming!Improve
    <3>2. base \in Names
      <4>1. p \in Names /\ f \in Names
        BY <1>1, <1>3, <2>1, ContextNames
      <4>. HIDE DEF p, f
      <4>2. p \in Seq(Word) /\ f \in Seq(Word) /\ f # <<>>
        BY <4>1 DEF Names, Naming!NoName
      <4>3. Naming!Stem(p) \o f \in Names
        BY <4>2, StemIs, LongerName
      <4>4. Naming!Capital(f) \in Seq(Word) /\ Naming!Capital(f) # <<>>
        BY <4>2, CapitalIs DEF Names, Naming!NoName
      <4>5. p \o Naming!Capital(f) \in Names
        BY <4>2, <4>4, LongerName
      <4>. QED  BY <4>3, <4>5
    <3>. HIDE DEF base
    <3>3. name \in Names /\ name \notin names_used
      BY <1>1, <1>4, <3>2, UniqueIsFree DEF NamesKnown
    <3>. HIDE DEF name
    <3>4. NamesApart(names_doc, names_names', names_used \union {name})
      BY <1>1, <1>3, <2>1, <3>1, <3>3, StayApart DEF NameCount
    <3>5. Unnamed(names_doc, names_names') = {}
      <4>. DEFINE W == Seq(Word)
               I == 1 .. NameCount
      <4>1. names_names \in [I -> W] /\ name # Naming!NoName
        BY <1>1, <3>3 DEF NamesApart, Names, NameCount
      <4>2. \A i \in I : names_names[i] # Naming!NoName
        BY <1>3 DEF Unnamed, NameCount
      <4>. HIDE DEF W, I
      <4>3. \A i \in I : names_names'[i] # Naming!NoName
        BY <3>1, <4>1, <4>2
      <4>. QED  BY <4>3 DEF Unnamed, I, NameCount
    <3>6. Cardinality(names_used \union {name}) = Cardinality(names_used) + 1
      BY <1>4, <3>3, FS_AddElement
    <3>7. Cardinality(names_used') <= NameCount + names_at
              /\ Cardinality(names_used') \in Nat
      BY <1>1, <1>3, <1>4, <3>1, <3>6
    <3>. QED  BY <3>1, <3>4, <3>5, <3>7
  <2>2. CASE ~(Naming!Generic(names_names[names_at]) /\ Naming!HasContext(names_at))
    <3>1. names_names' = names_names /\ names_used' = names_used
      BY <2>2 DEF Naming!Improve
    <3>. QED  BY <1>1, <1>3, <1>4, <3>1
  <2>. QED  BY <2>1, <2>2
<1>6. NamesKnown'
  BY <1>1, <1>2 DEF NamesKnown
<1>7. /\ names_at' \in 1 .. NameCount /\ names_pass' \in {"improve", "done"}
      /\ names_pass' = "improve" => Cardinality(names_used') <= NameCount + names_at' - 1
  BY <1>1, <1>2, <1>3, <1>5
<1>8. (Unnamed(names_doc, names_names))' = Unnamed(names_doc, names_names')
  BY <1>2 DEF Unnamed
<1>. QED  BY <1>1, <1>2, <1>5, <1>6, <1>7, <1>8 DEF NamesKept

LEMMA NamesNext ==
  NamesKept /\ [Naming!Next]_(Naming!vars) => NamesKept'
<1>. SUFFICES ASSUME NamesKept, [Naming!Next]_(Naming!vars) PROVE NamesKept'
  OBVIOUS
<1>1. CASE Naming!NameUse \/ Naming!NameRest
  BY <1>1, FirstPassKeeps
<1>2. CASE Naming!UsesNamed \/ Naming!SetContext
  BY <1>2, ContextKeeps
<1>3. CASE Naming!Improve
  BY <1>3, ImproveKeeps
<1>4. CASE UNCHANGED Naming!vars
  BY <1>4 DEF Naming!vars, NamesKept, NamesKnown, NameCount
<1>. QED  BY <1>1, <1>2, <1>3, <1>4 DEF Naming!Next

LEMMA NamesGivenRight ==
  NamesKept => Naming!NamesRight
<1>. SUFFICES ASSUME NamesKept PROVE Naming!NamesRight
  OBVIOUS
<1>1. Naming!NamesUnique
  BY DEF NamesKept, NamesApart, Naming!NamesUnique, Naming!Ids
<1>2. Naming!AllNamed
  BY DEF NamesKept, Unnamed, Naming!AllNamed, Naming!Ids
<1>. QED  BY <1>1, <1>2 DEF Naming!NamesRight

-----------------------------------------------------------------------------
(* All parts: each one is right as long as it is the subject.              *)

LibraryRight ==
  /\ subject = "mpsc" => MpscRight
  /\ subject = "io" => IoRight
  /\ subject = "ring" => RingRight
  /\ subject = "arena" => Placed /\ Tally
  /\ subject = "headers" => HeadersRight
  /\ subject = "router" => RouterRight
  /\ subject = "dtos" => DtosRight
  /\ subject = "names" => NamesKept

LEMMA LibraryRightInit ==
  LibraryInit => LibraryRight
<1>. SUFFICES ASSUME LibraryInit PROVE LibraryRight
  OBVIOUS
<1>1. /\ subject = "mpsc" => Mpsc!Init
      /\ subject = "io" => Io!Init
      /\ subject = "ring" => Ring!Init
      /\ subject = "arena" => Memory!Init
      /\ subject = "headers" => Headers!Init
      /\ subject = "router" => Routes!Init
      /\ subject = "dtos" => Order!Init
      /\ subject = "names" => Naming!Init
  BY DEF LibraryInit
<1>. QED  BY <1>1, LibraryAssumption, MpscInit, IoInit, RingInit, PlacedInit, TallyInit,
             HeadersInit, RouterInit, DtosInit, NamesInit DEF LibraryAssumption,
                 LibraryRight

\* The containers start as their abstract specifications do.
LEMMA AbstractInit ==
  LibraryInit =>
    /\ subject = "mpsc" => Mpsc!Fifo!Init
    /\ subject = "io" => Io!Stream!Init
    /\ subject = "ring" => Ring!Stream!Init
    /\ subject = "headers" => Headers!Fields!Init
<1>. SUFFICES ASSUME LibraryInit
              PROVE  /\ subject = "mpsc" => Mpsc!Fifo!Init
                     /\ subject = "io" => Io!Stream!Init
                     /\ subject = "ring" => Ring!Stream!Init
                     /\ subject = "headers" => Headers!Fields!Init
  OBVIOUS
<1>1. /\ subject = "mpsc" => Mpsc!Init
      /\ subject = "io" => Io!Init
      /\ subject = "ring" => Ring!Init
      /\ subject = "headers" => Headers!Init
  BY DEF LibraryInit
<1>. QED  BY <1>1, LibraryAssumption, MpscInit, IoInit, RingInit, HeadersInit
          DEF LibraryAssumption

\* Whatever the step, the subject stays and makes a step of its own or none.
LEMMA SubjectMoves ==
  [LibraryNext]_libraryVars =>
    /\ subject' = subject
    /\ subject = "mpsc" => [Mpsc!Next]_(Mpsc!vars)
    /\ subject = "io" => [Io!Next]_(Io!vars)
    /\ subject = "ring" => [Ring!Next]_(Ring!vars)
    /\ subject = "arena" => [Memory!Next]_(Memory!vars)
    /\ subject = "headers" => [Headers!Next]_(Headers!vars)
    /\ subject = "router" => [Routes!Next]_(Routes!vars)
    /\ subject = "dtos" => [Order!Next]_(Order!vars)
    /\ subject = "names" => [Naming!Next]_(Naming!vars)
<1>1. CASE UNCHANGED libraryVars
  BY <1>1 DEF libraryVars, mpscVars, ioVars, ringVars, arenaVars, headersVars, routerVars,
              dtosVars, namesVars, Mpsc!vars, Io!vars, Ring!vars, Memory!vars,
              Headers!vars, Routes!vars, Order!vars, Naming!vars
<1>2. CASE LibraryNext
  BY <1>2 DEF LibraryNext, Only
<1>. QED  BY <1>1, <1>2

LEMMA LibraryRightNext ==
  LibraryRight /\ [LibraryNext]_libraryVars => LibraryRight'
<1>. SUFFICES ASSUME LibraryRight,
                         [LibraryNext]_libraryVars PROVE LibraryRight'
  OBVIOUS
<1>1. subject' = subject
  BY SubjectMoves
<1>2. ASSUME subject = "mpsc" PROVE MpscRight'
  BY <1>2, SubjectMoves, LibraryAssumption, MpscNext DEF LibraryAssumption,
         LibraryRight
<1>3. ASSUME subject = "io" PROVE IoRight'
  BY <1>3, SubjectMoves, LibraryAssumption, IoNext DEF LibraryAssumption,
         LibraryRight
<1>4. ASSUME subject = "ring" PROVE RingRight'
  BY <1>4, SubjectMoves, LibraryAssumption, RingNext DEF LibraryAssumption,
         LibraryRight
<1>5. ASSUME subject = "arena" PROVE Placed' /\ Tally'
  BY <1>5, SubjectMoves, LibraryAssumption, PlacedNext, TallyNext
     DEF LibraryAssumption, LibraryRight
<1>6. ASSUME subject = "headers" PROVE HeadersRight'
  BY <1>6, SubjectMoves, LibraryAssumption, HeadersNext
     DEF LibraryAssumption, LibraryRight
<1>7. ASSUME subject = "router" PROVE RouterRight'
  BY <1>7, SubjectMoves, LibraryAssumption, RouterNext DEF LibraryAssumption, LibraryRight
<1>8. ASSUME subject = "dtos" PROVE DtosRight'
  BY <1>8, SubjectMoves, DtosNext DEF LibraryRight
<1>9. ASSUME subject = "names" PROVE NamesKept'
  BY <1>9, SubjectMoves, NamesNext DEF LibraryRight
<1>. QED  BY <1>1, <1>2, <1>3, <1>4, <1>5, <1>6, <1>7, <1>8, <1>9 DEF LibraryRight

\* Each step is one of the abstract specifications, or leaves their state alone.
LEMMA AbstractNext ==
  LibraryRight /\ [LibraryNext]_libraryVars =>
    /\ subject = "mpsc" => [Mpsc!Fifo!Next]_(Mpsc!Fifo!vars)
    /\ subject = "io" => [Io!Stream!Next]_(Io!Stream!vars)
    /\ subject = "ring" => [Ring!Stream!Next]_(Ring!Stream!vars)
    /\ subject = "headers" => [Headers!Fields!Next]_(Headers!Fields!vars)
<1>. SUFFICES ASSUME LibraryRight, [LibraryNext]_libraryVars
              PROVE  /\ subject = "mpsc" => [Mpsc!Fifo!Next]_(Mpsc!Fifo!vars)
                     /\ subject = "io" => [Io!Stream!Next]_(Io!Stream!vars)
                     /\ subject = "ring" => [Ring!Stream!Next]_(Ring!Stream!vars)
                     /\ subject = "headers" => [Headers!Fields!Next]_(Headers!Fields!vars)
  OBVIOUS
<1>1. ASSUME subject = "mpsc" PROVE [Mpsc!Fifo!Next]_(Mpsc!Fifo!vars)
  BY <1>1, SubjectMoves, LibraryAssumption, MpscNext DEF LibraryAssumption,
         LibraryRight
<1>2. ASSUME subject = "io" PROVE [Io!Stream!Next]_(Io!Stream!vars)
  BY <1>2, SubjectMoves, LibraryAssumption, IoNext DEF LibraryAssumption,
         LibraryRight
<1>3. ASSUME subject = "ring" PROVE [Ring!Stream!Next]_(Ring!Stream!vars)
  BY <1>3, SubjectMoves, LibraryAssumption, RingNext DEF LibraryAssumption,
         LibraryRight
<1>4. ASSUME subject = "headers" PROVE [Headers!Fields!Next]_(Headers!Fields!vars)
  BY <1>4, SubjectMoves, LibraryAssumption, HeadersNext
     DEF LibraryAssumption, LibraryRight
<1>. QED  BY <1>1, <1>2, <1>3, <1>4

LEMMA AlwaysRight == LibrarySpec => []LibraryRight
<1>. QED  BY LibraryRightInit, LibraryRightNext, PTL DEF LibrarySpec

\* However many producers race the consumer, a node is never used after it has been freed,
\* max_size bounds what is in the queue, and size_ counts it once the calls have returned
\* (mpsc_queue.hpp:26-69).
THEOREM MpscCorrect == LibrarySpec => []MpscSafe
<1>1. LibraryRight => MpscSafe
  BY LibraryAssumption, MpscRightSafe DEF LibraryAssumption, LibraryRight,
         MpscSafe
<1>. QED  BY <1>1, AlwaysRight, PTL

\* For every block size, size and alignment, what allocate() returns lies in a block of its
\* arena, aligned and apart from every other allocation in use, across reset() and moves
\* (arena.cpp:24-141).
THEOREM AllocationsCorrect == LibrarySpec => []AllocationsSafe
<1>1. LibraryRight => AllocationsSafe
  BY DEF LibraryRight, AllocationsSafe, Placed, Memory!AllocationsSafe
<1>. QED  BY <1>1, AlwaysRight, PTL

\* bytes_allocated_ and total_capacity_ count what an arena has given out and owns; the
\* positions of an io_buffer stay inside its storage; what circular_buffer::peek shows is
\* the beginning of what read() would return; and a headers_map empties with clear() every
\* entry that holds a value, and counts each of its names once (arena.cpp:24-141,
\* io_buffer.cpp:24-249, http_headers.hpp:223-529).
THEOREM ContainersCorrect == LibrarySpec => []ContainersSafe
<1>1. Tally => Memory!Counted
  BY SameCount DEF Tally, Memory!Counted
<1>2. LibraryRight => ContainersSafe
  BY <1>1, LibraryAssumption, IoRightTypes, RingPeeks, HeadersRightSafe
     DEF LibraryAssumption, LibraryRight, ContainersSafe
<1>. QED  BY <1>2, AlwaysRight, PTL

\* For any table of routes and any uri: a request goes to a route of its method with the
\* most literal segments, the first such one, through its middleware in order, and is
\* refused only if there is none (router.hpp:349-417).
THEOREM RouterCorrect == LibrarySpec => []RoutedRight
<1>1. LibraryRight => RoutedRight
  BY RouterRightRoutes DEF LibraryRight, RoutedRight
<1>. QED  BY <1>1, AlwaysRight, PTL

\* For any graph of schemas: no definition is written twice, in the end all are written, and
\* one comes after those it uses unless something it depends on lies on a cycle.  For any document
\* whose components have names of their own: no two schemas have the same name at any time, a
\* name of the document that is not generic stays, and in the end every schema has one
\* (dto_generator.cpp:416-537, generator_utils.cpp:207-409).
THEOREM GeneratedCorrect == LibrarySpec => []GeneratedRight
<1>1. LibraryRight => GeneratedRight
  BY DtosOrdered, NamesGivenRight DEF LibraryRight, GeneratedRight
<1>. QED  BY <1>1, AlwaysRight, PTL

\* The MPSC queue is a FIFO queue, io_buffer and circular_buffer are byte streams, and
\* headers_map is a function from names to values, for every value of the constants: the
\* first states are theirs, and every step is one of theirs or changes nothing they see.
THEOREM ContainersRefine == LibrarySpec => ContainersImplement
<1>. DEFINE Steps ==
       /\ subject = "mpsc" => [Mpsc!Fifo!Next]_(Mpsc!Fifo!vars)
       /\ subject = "io" => [Io!Stream!Next]_(Io!Stream!vars)
       /\ subject = "ring" => [Ring!Stream!Next]_(Ring!Stream!vars)
       /\ subject = "headers" => [Headers!Fields!Next]_(Headers!Fields!vars)
<1>1. LibraryRight /\ [LibraryNext]_libraryVars => [Steps]_libraryVars
  BY AbstractNext
<1>. HIDE DEF Steps
<1>2. LibrarySpec => [][Steps]_libraryVars
  BY <1>1, AlwaysRight, PTL DEF LibrarySpec
<1>. QED  BY <1>2, AbstractInit, PTL DEF LibrarySpec, ContainersImplement, Steps

=============================================================================
