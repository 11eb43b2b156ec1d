------------------------------- MODULE MemChunk -----------------------------
(***************************************************************************)
(* A chunk of guest memory: commit, decommit, adjust and allocate of the   *)
(* two memory models (multiple/chunk.cpp, flexible/chunk.cpp), the bitmap  *)
(* allocator behind them (allocator.cpp), and what is mapped to the CPU    *)
(* when the chunk's process is switched in and out (mem/src/chunk.cpp).    *)
(*                                                                         *)
(* Addresses, sizes and committed_ are counted in pages.  The pages of a   *)
(* chunk fill its words of the bitmap.  External: the host may refuse to   *)
(* commit or decommit; programs stay within the chunk, ask for whole pages *)
(* and keep the bottom of a double ended chunk below its top.              *)
(***************************************************************************)
EXTENDS Integers, FiniteSetsExt

CONSTANTS WordBits,         \* bits of a word of the bitmap, 32 in the code
          Words,
          PagesPerTable,    \* pages of a page table of the multiple model
          CommittedWidth    \* where the flexible model's uint32 committed_ wraps

ASSUME MemAssumption ==
    /\ WordBits \in Nat \ {0, 1} /\ Words \in Nat \ {0}
    /\ PagesPerTable \in Nat \ {0} /\ CommittedWidth \in Nat \ {0}

NumPages == WordBits * Words
Page == 0..(NumPages - 1)
Pages(off, n) == off..(off + n - 1)
Table(p) == p \div PagesPerTable

VARIABLES model,            \* "multiple" or "flexible"
          kind,             \* "normal", "disconnected" or "double_ended"
          mem,              \* pages: those with host memory; free: the offsets whose bit
                            \* of words_ is set; committed: committed_; tables: the
                            \* page tables of page_tabs_, in the multiple model;
                            \* cpu: the pages mapped to the CPU;
                            \* refused (history): by the host, once
          top_, bottom_,
          current_space,    \* the chunk's process is the current one
          wild              \* a null pointer was used

chunkVars == <<model, kind, mem, top_, bottom_, current_space, wild>>

ChunkInit ==
    /\ model \in {"multiple", "flexible"} /\ kind \in {"normal", "disconnected", "double_ended"}
    /\ mem = [pages |-> {}, free |-> Page, committed |-> 0, tables |-> {}, cpu |-> {},
              refused |-> FALSE]
    /\ top_ = 0 /\ bottom_ = 0 /\ current_space = TRUE /\ wild = FALSE

\* page_bma_ exists: in the flexible model also for a double ended chunk.
HasBitmap == kind = "disconnected" \/ (kind = "double_ended" /\ model = "flexible")

------------------------------------------------------------------------------
\* bitmap_allocator::allocate_from: the free run it finds at o.  The scan of a word
\* stops before its last bit, so that a run does not begin there.
RunBegins(f, o) ==
    /\ o \in f /\ o % WordBits # WordBits - 1
    /\ o - 1 \notin f \/ (o % WordBits = 0 /\ o - 2 \notin f)
RunLength(f, o) == Min({n \in 1..NumPages : o + n \notin f})

\* The offsets it may return: first fit, or the first of the shortest runs that fit.
Fits(f, n, best) ==
    LET runs == {o \in f : RunBegins(f, o) /\ RunLength(f, o) >= n}
        good == IF best THEN {o \in runs : \A p \in runs : RunLength(f, o) <= RunLength(f, p)} ELSE runs
    IN {o \in good : \A p \in good : o <= p}

\* The offset of the bit that is number b when bits count from the lowest of each word,
\* while offsets count from the highest.
Mirror(b) == (b \div WordBits) * WordBits + WordBits - 1 - (b % WordBits)

\* bitmap_allocator::allocated_count counts the bits that are set, which are the free
\* ones, numbers them from the lowest, leaves out the last, and when it begins within a
\* word, at s, looks as many bits further than it should.
AllocatedCount(f, first, last) ==
    Cardinality({b \in Page :
        LET w == b - (b % WordBits)
            s == Max({first - w, 0})
            e == Min({last - w, WordBits})
        IN s < e /\ b - w \in s..(s + e - 1) /\ Mirror(b) \in f})

------------------------------------------------------------------------------
\* What commit of n pages at off may get: the multiple model asks the host table by
\* table and stops where it is refused, the flexible one asks for all at once.
Granted(off, n) ==
    {n, 0} \cup IF model = "multiple"
                THEN {k \in 1..n : (off + k) % PagesPerTable = 0} ELSE {}

\* committed_ after k pages at off were committed.
CountedIn(m, off, k) ==
    IF model = "multiple" THEN m.committed + Cardinality(Pages(off, k) \ m.pages)
    ELSE (m.committed + k - IF HasBitmap THEN AllocatedCount(m.free, off, off + k - 1) ELSE 0)
             % CommittedWidth

\* committed_ after the pages "gone" were decommitted.
CountedOut(m, gone) ==
    IF model = "multiple" THEN m.committed - Cardinality(gone \cap m.pages)
    ELSE (m.committed - Cardinality(gone)) % CommittedWidth

\* The outcomes of commit in m.  The flexible model maps again what was mapped.
CommitIn(m, off, n) ==
    {LET got == Pages(off, k)
         new == got \ m.pages
     IN [pages |-> m.pages \cup got,
         free |-> IF HasBitmap THEN m.free \ got ELSE m.free,
         committed |-> CountedIn(m, off, k),
         tables |-> m.tables \cup {Table(p) : p \in {x \in got : model = "multiple"}},
         cpu |-> IF current_space THEN m.cpu \cup (IF model = "multiple" THEN new ELSE got)
                 ELSE m.cpu,
         refused |-> m.refused \/ k < n] : k \in Granted(off, n)}

\* Faulty: one bit too many is freed.
DecommitMore(m, off, n) ==
    LET gone == Pages(off, n)
    IN {[m EXCEPT !.pages = @ \ gone, !.free = @ \cup (Pages(off, n + 1) \cap Page),
                  !.committed = CountedOut(m, gone), !.cpu = IF current_space THEN @ \ gone ELSE @]}

\* The outcomes of decommit.  The multiple model skips what has no page table, unmaps
\* only pages that have memory, and goes on when the host refuses; the flexible one stops.
DecommitIn(m, off, n) ==
    LET gone == {p \in Pages(off, n) : model = "multiple" => Table(p) \in m.tables}
        unmapped == IF model = "multiple" THEN gone \cap m.pages ELSE gone
    IN {[m EXCEPT !.pages = @ \ gone,
                  !.free = IF HasBitmap THEN @ \cup gone ELSE @,
                  !.committed = CountedOut(m, gone),
                  !.cpu = IF current_space THEN @ \ unmapped ELSE @]}
       \cup {[m EXCEPT !.refused = TRUE] : x \in {"flexible"} \cap {model}}

------------------------------------------------------------------------------
rangeVars == <<model, kind, top_, bottom_, current_space>>

\* chunk_adjust 2: chunk::commit
ChunkCommit(off, n) ==
    /\ ~wild /\ kind = "disconnected" /\ off + n <= NumPages
    /\ mem' \in CommitIn(mem, off, n) /\ UNCHANGED <<rangeVars, wild>>

\* chunk_adjust 3: chunk::decommit
ChunkDecommit(off, n) ==
    /\ ~wild /\ kind = "disconnected" /\ off + n <= NumPages
    /\ mem' \in DecommitIn(mem, off, n) /\ UNCHANGED <<rangeVars, wild>>

\* chunk_adjust 4: chunk::allocate takes the bits, then commits.  When nothing fits,
\* best fit goes on with a null word pointer.
ChunkAllocate(n) ==
    /\ ~wild /\ kind = "disconnected"
    /\ LET fits == Fits(mem.free, n, model = "multiple")
       IN \/ /\ \E off \in fits :
                    mem' \in CommitIn([mem EXCEPT !.free = @ \ Pages(off, n)], off, n)
             /\ UNCHANGED wild
          \/ fits = {} /\ wild' = (model = "multiple") /\ UNCHANGED mem
    /\ UNCHANGED rangeVars

\* mem_model_chunk::adjust: first the top ...
TopMoved(m, top) ==
    IF top < top_ THEN DecommitIn(m, top, top_ - top)
    ELSE IF top > top_ THEN CommitIn(m, top_, top - top_) ELSE {m}

\* ... then the bottom.
BottomMoved(m, bottom) ==
    IF bottom > bottom_ THEN DecommitIn(m, bottom_, bottom - bottom_)
    ELSE IF bottom < bottom_ THEN CommitIn(m, bottom, bottom_ - bottom) ELSE {m}

\* chunk_adjust 0 and 1: adjust leaves the bottom alone, adjust_de, of double ended
\* chunks, moves both.  The outcome of commit and decommit is not looked at.
ChunkAdjust(bottom, top) ==
    /\ ~wild /\ kind # "disconnected" /\ (kind = "normal" => bottom = bottom_)
    /\ bottom <= top /\ top <= NumPages
    /\ mem' \in UNION {BottomMoved(m, bottom) : m \in TopMoved(mem, top)}
    /\ top_' = top /\ bottom_' = bottom
    /\ UNCHANGED <<model, kind, current_space, wild>>

------------------------------------------------------------------------------
\* The lowest bits of word w that are set, up to the first that is not.
LowRun(w) ==
    Max({n \in 0..(WordBits - 1) : \A b \in Pages(w * WordBits, n) : Mirror(b) \in mem.free})

\* manipulate_cpu_map with a bitmap: the bits that are set, counted from the lowest.  A
\* run that reaches the highest bit of a word tests 1 << 32 next, which is undefined:
\* it ends there, or begins again at the lowest bit.
SetBitPages ==
    LET set == {p \in Page : Mirror(p) \in mem.free}
        over(w) == IF w * WordBits \in mem.free /\ ~(Pages(w * WordBits, WordBits) \subseteq mem.free)
                   THEN Pages((w + 1) * WordBits, LowRun(w)) ELSE {}
    IN {set, set \cup UNION {over(w) : w \in 0..(Words - 1)}}

\* The pages that manipulate_cpu_map maps or unmaps.
Manipulated == IF HasBitmap THEN SetBitPages ELSE {Pages(bottom_, top_ - bottom_)}

\* Another process is switched in; unmap_from_cpu, which in the multiple model depends
\* on the CPU.
SwitchOut ==
    /\ ~wild /\ current_space /\ current_space' = FALSE
    /\ \/ \E ps \in Manipulated : mem' = [mem EXCEPT !.cpu = @ \ ps]
       \/ model = "multiple" /\ UNCHANGED mem
    /\ UNCHANGED <<model, kind, top_, bottom_, wild>>

\* The chunk's process is switched in again; remap_to_cpu.
SwitchIn ==
    /\ ~wild /\ ~current_space /\ current_space' = TRUE
    /\ \E ps \in Manipulated : mem' = [mem EXCEPT !.cpu = @ \cup ps]
    /\ UNCHANGED <<model, kind, top_, bottom_, wild>>

ChunkNext ==
    \/ \E off \in Page, n \in 1..NumPages : ChunkCommit(off, n) \/ ChunkDecommit(off, n)
    \/ \E n \in 1..NumPages : ChunkAllocate(n)
    \/ \E bottom, top \in 0..NumPages : ChunkAdjust(bottom, top)
    \/ SwitchOut \/ SwitchIn

ChunkSpec == ChunkInit /\ [][ChunkNext]_chunkVars
------------------------------------------------------------------------------
\* No page that has memory can be handed out by allocate again, also after commits
\* that the host refused half-way; the multiple model's committed_ is the number of
\* pages; and what a normal or double ended chunk says it has between bottom and top it
\* has, for any sequence of adjustments, as long as the host refuses nothing.
ChunkSound ==
    /\ HasBitmap => mem.pages \cap mem.free = {}
    /\ model = "multiple" => mem.committed = Cardinality(mem.pages)
    /\ kind # "disconnected" /\ ~mem.refused => Pages(bottom_, top_ - bottom_) \subseteq mem.pages

\* "Map the committed region to CPU" (chunk.h): while its process is the current one,
\* the committed pages of a chunk are those the CPU sees.
CpuSeesCommitted == current_space => mem.cpu = mem.pages
=============================================================================
