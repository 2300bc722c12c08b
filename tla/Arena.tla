------------------------------- MODULE Arena -------------------------------
(***************************************************************************)
(* monotonic_arena (arena.cpp): memory handed out from a few blocks, given *)
(* back all at once by reset, and moved from one arena to another with its *)
(* blocks.  Blocks are numbered in the order in which they are made, which *)
(* is their order in the blocks_ array of every arena that gets them, and  *)
(* an address is an offset in a block: blocks start on MAX_ALIGNMENT.      *)
(* Sizes are far below the range of size_t.                                *)
(***************************************************************************)
EXTENDS Integers, FiniteSetsExt

CONSTANTS
  Arenas,
  Blocks,        \* bound: the blocks made in a behaviour, 1 .. n
  BlockSize,     \* block_size_
  MaxBlocks,     \* MAX_BLOCKS
  MaxAlignment,  \* MAX_ALIGNMENT
  Sizes,         \* sizes asked for
  Alignments,    \* alignments asked for, powers of two
  MaxLive,       \* bound: allocations in use at a time
  NotMade, Freed

VARIABLES
  owner,    \* the arena whose block this is, NotMade before, Freed after
  bsize,    \* block::size
  used,     \* block::used
  live,     \* the allocations handed out and not given back
  bytes,    \* bytes_allocated_
  capacity  \* total_capacity_

vars == <<owner, bsize, used, live, bytes, capacity>>

ArenaAssumption ==
  /\ BlockSize \in Nat /\ MaxAlignment \in Nat
  /\ Sizes \subseteq Nat /\ Alignments \subseteq Nat \ {0}
  /\ NotMade \notin Arenas /\ Freed \notin Arenas

Init ==
  /\ owner = [b \in Blocks |-> NotMade]
  /\ bsize = [b \in Blocks |-> 0]
  /\ used  = [b \in Blocks |-> 0]
  /\ live  = {}
  /\ bytes = [a \in Arenas |-> 0]
  /\ capacity = [a \in Arenas |-> 0]

BlocksOf(a) == {b \in Blocks : owner[b] = a}

\* align_up, of an offset in a block
AlignUp(n, alignment) == n + ((alignment - (n % alignment)) % alignment)

\* Mutant: the padding is not part of what has to fit.
FitsUnpadded(b, n, alignment) ==
  /\ used[b] < bsize[b]
  /\ used[b] + n <= bsize[b]

Fits(b, n, alignment) ==
  /\ used[b] < bsize[b]
  /\ AlignUp(used[b], alignment) + n <= bsize[b]

Given(b, at, n, alignment) == [block |-> b, at |-> at, len |-> n, align |-> alignment]

\* allocate, in the first block of the arena that has room.
AllocateInBlock(a, n, alignment) ==
  \E b \in BlocksOf(a) :
    /\ Fits(b, n, alignment)
    /\ \A c \in BlocksOf(a) : c < b => ~Fits(c, n, alignment)
    /\ LET at == AlignUp(used[b], alignment)
       IN  /\ live' = live \union {Given(b, at, n, alignment)}
           /\ used' = [used EXCEPT ![b] = at + n]
    /\ bytes' = [bytes EXCEPT ![a] = @ + n]
    /\ UNCHANGED <<owner, bsize, capacity>>

\* allocate in a new block (allocate_new_block); at MAX_BLOCKS it is null.
AllocateNewBlock(a, n, alignment) ==
  /\ \A b \in BlocksOf(a) : ~Fits(b, n, alignment)
  /\ Cardinality(BlocksOf(a)) < MaxBlocks
  /\ \E b \in Blocks :
       /\ owner[b] = NotMade /\ \A c \in Blocks : c < b => owner[c] # NotMade
       /\ owner' = [owner EXCEPT ![b] = a]
       /\ LET sz == Max({BlockSize, n + MaxAlignment})
          IN  /\ bsize' = [bsize EXCEPT ![b] = sz]
              /\ capacity' = [capacity EXCEPT ![a] = @ + sz]
       /\ used' = [used EXCEPT ![b] = n]
       /\ live' = live \union {Given(b, 0, n, alignment)}
  /\ bytes' = [bytes EXCEPT ![a] = @ + n]

Allocate(a) ==
  /\ Cardinality(live) < MaxLive
  /\ \E n \in Sizes, alignment \in Alignments :
       AllocateInBlock(a, n, alignment) \/ AllocateNewBlock(a, n, alignment)

\* reset: the blocks are kept and are empty; what was handed out is invalid.
Reset(a) ==
  /\ used' = [b \in Blocks |-> IF owner[b] = a THEN 0 ELSE used[b]]
  /\ live' = {l \in live : owner[l.block] # a}
  /\ bytes' = [bytes EXCEPT ![a] = 0]
  /\ UNCHANGED <<owner, bsize, capacity>>

\* operator=(monotonic_arena&&): the blocks of a are freed, those of b are
\* now a's, with what has been handed out from them, and b is empty.
MoveAssign(a, b) ==
  /\ owner' = [c \in Blocks |-> IF owner[c] = a THEN Freed
                                ELSE IF owner[c] = b THEN a ELSE owner[c]]
  /\ live' = {l \in live : owner[l.block] # a}
  /\ bytes' = [bytes EXCEPT ![a] = bytes[b], ![b] = 0]
  /\ capacity' = [capacity EXCEPT ![a] = capacity[b], ![b] = 0]
  /\ UNCHANGED <<bsize, used>>

Next == \/ \E a \in Arenas : Allocate(a) \/ Reset(a)
        \/ \E a \in Arenas : \E b \in Arenas \ {a} : MoveAssign(a, b)

Spec == Init /\ [][Next]_vars

-----------------------------------------------------------------------------
TypeOK ==
  /\ owner \in [Blocks -> Arenas \union {NotMade, Freed}]
  /\ bsize \in [Blocks -> Nat] /\ used \in [Blocks -> Nat]
  /\ live \subseteq [block : Blocks, at : Nat, len : Sizes, align : Alignments]
  /\ bytes \in [Arenas -> Nat] /\ capacity \in [Arenas -> Nat]

\* What is handed out lies in a block that an arena still has, below what the
\* block counts as used.
InsideItsBlock ==
  \A l \in live : /\ owner[l.block] \in Arenas
                  /\ l.at + l.len <= used[l.block]
                  /\ used[l.block] <= bsize[l.block]

\* No two allocations share a byte, whatever padding, resets and moves came
\* between them.
Disjoint ==
  \A l, m \in live :
    l # m /\ l.block = m.block => l.at + l.len <= m.at \/ m.at + m.len <= l.at

\* Every allocation has the alignment that was asked for.
Aligned == \A l \in live : l.at % l.align = 0

OfArena(a) == {l \in live : owner[l.block] = a}

\* The bytes that the arena has given out, and those that it has.
BytesGiven(a) ==
  UNION {{l.block} \X (l.at .. l.at + l.len - 1) : l \in OfArena(a)}
BytesOwned(a) == UNION {{b} \X (0 .. bsize[b] - 1) : b \in BlocksOf(a)}

\* bytes_allocated() and total_capacity() count the bytes that the arena has
\* given out, padding not included, and those it has, also after a move.
Counted ==
  \A a \in Arenas : /\ bytes[a] = Cardinality(BytesGiven(a))
                    /\ capacity[a] = Cardinality(BytesOwned(a))

\* What callers of allocate rely on, until the next reset.
AllocationsSafe == TypeOK /\ InsideItsBlock /\ Disjoint /\ Aligned
=============================================================================
