------------------------------- MODULE Arena -------------------------------
(***************************************************************************)
(* The memtable's allocator (util/arena.h, util/arena.cc): pieces cut from *)
(* blocks, large ones in blocks of their own, aligned or not.              *)
(***************************************************************************)
EXTENDS Naturals, Sequences

CONSTANTS
    kBlockSize,     \* size of a block, a multiple of Align
    Align,          \* alignment of what new char[] and AllocateAligned return
    PointerSize,    \* sizeof(char*)
    AllocSizes,     \* sizes asked for
    MaxAllocs       \* bound on the allocations

ASSUME ArenaAssumption ==
    /\ kBlockSize \in Nat /\ Align \in Nat \ {0} /\ PointerSize \in Nat
    /\ AllocSizes \subseteq Nat \ {0}   \* Allocate asserts bytes > 0

VARIABLES
    blocks_,        \* sizes of the blocks
    alloc_ptr_,     \* << block, offset >>, block 0 for NULL
    alloc_bytes_remaining_,
    memory_usage_,
    given           \* history: the pieces [block, at, bytes, aligned]

arenaVars == << blocks_, alloc_ptr_, alloc_bytes_remaining_, memory_usage_, given >>

ArenaInit ==
    /\ blocks_ = << >> /\ alloc_ptr_ = << 0, 0 >> /\ alloc_bytes_remaining_ = 0
    /\ memory_usage_ = 0 /\ given = << >>

Give(block, at, bytes, aligned) ==
    given' = Append(given, [block |-> block, at |-> at, bytes |-> bytes, aligned |-> aligned])

\* Cut from the current block, after slop bytes that are wasted.
Cut(bytes, slop, aligned) ==
    /\ Give(alloc_ptr_[1], alloc_ptr_[2] + slop, bytes, aligned)
    /\ alloc_ptr_' = [alloc_ptr_ EXCEPT ![2] = @ + bytes + slop]
    /\ alloc_bytes_remaining_' = alloc_bytes_remaining_ - (bytes + slop)
    /\ UNCHANGED << blocks_, memory_usage_ >>

AllocateNewBlock(bytes) ==
    /\ blocks_' = Append(blocks_, bytes)
    /\ memory_usage_' = memory_usage_ + bytes + PointerSize

\* A large piece gets a block of its own; for a small one the rest of the
\* current block is given up.
AllocateFallback(bytes, aligned) ==
    /\ Give(Len(blocks_) + 1, 0, bytes, aligned)
    /\ IF bytes > kBlockSize \div 4
       THEN /\ AllocateNewBlock(bytes)
            /\ UNCHANGED << alloc_ptr_, alloc_bytes_remaining_ >>
       ELSE /\ AllocateNewBlock(kBlockSize)
            /\ alloc_ptr_' = << Len(blocks_) + 1, bytes >>
            /\ alloc_bytes_remaining_' = kBlockSize - bytes

Allocate(bytes) ==
    /\ Len(given) < MaxAllocs
    /\ IF bytes <= alloc_bytes_remaining_ THEN Cut(bytes, 0, FALSE)
       ELSE AllocateFallback(bytes, FALSE)

\* Blocks start at aligned addresses, so the offset shows the slop.
Slop == (Align - (alloc_ptr_[2] % Align)) % Align
AllocateAligned(bytes) ==
    /\ Len(given) < MaxAllocs
    /\ IF bytes + Slop <= alloc_bytes_remaining_ THEN Cut(bytes, Slop, TRUE)
       ELSE AllocateFallback(bytes, TRUE)

ArenaNext == \E n \in AllocSizes : Allocate(n) \/ AllocateAligned(n)

-----------------------------------------------------------------------------
(* Properties *)

\* However the requests are mixed, no two pieces share a byte, none leaves its
\* block, the aligned ones are aligned, what is left is what the pointer says,
\* and the memory usage is that of the blocks.
UsageOf(sizes) ==
    LET sum[i \in 0 .. Len(sizes)] == IF i = 0 THEN 0 ELSE sum[i - 1] + sizes[i] + PointerSize
    IN  sum[Len(sizes)]
PiecesDisjoint ==
    /\ \A i, j \in DOMAIN given : i < j =>
          LET p == given[i]
              q == given[j]
          IN  p.block # q.block \/ p.at + p.bytes <= q.at \/ q.at + q.bytes <= p.at
    /\ \A i \in DOMAIN given :
          LET p == given[i]
          IN  /\ p.at + p.bytes <= blocks_[p.block]
              /\ p.aligned => p.at % Align = 0
    /\ alloc_ptr_[1] # 0 => alloc_ptr_[2] + alloc_bytes_remaining_ = blocks_[alloc_ptr_[1]]
    /\ memory_usage_ = UsageOf(blocks_)
=============================================================================
