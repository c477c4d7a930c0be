-------------------------------- MODULE Slab --------------------------------
(***************************************************************************)
(* The allocator of shared memory zones (src/core/ngx_slab.c).  A pool is an  *)
(* array of pages; a page is free, part of a run that was allocated as a whole, *)
(* or cut into chunks of one size.  Pages with free chunks of a size are in the *)
(* list of a slot, full pages are in no list, runs of free pages are in the    *)
(* list of the pool.  All of it happens under the mutex of the pool, one call    *)
(* at a time, so a call is a step.                                         *)
(*                                                                         *)
(* The links are those of the code, next and prev with the type of the page in   *)
(* the low bits of prev.  A bitmap is a set of chunks, wherever it is kept: in    *)
(* page->slab for large chunks, else in the first chunks of the page itself.    *)
(***************************************************************************)
EXTENDS Naturals, FiniteSets, FiniteSetsExt

CONSTANTS
  Pools,      \* sizes of pools: [pages : pages, most : allocations at a time]
  PageShift,  \* ngx_pagesize_shift
  MinShift,   \* pool->min_shift
  Byte,       \* bits of a byte
  Word,       \* bytes of uintptr_t
  Sizes       \* what is asked for

PageSize  == 2 ^ PageShift
MaxSize   == PageSize \div 2                \* ngx_slab_max_size
ExactSize == PageSize \div (Byte * Word)    \* ngx_slab_exact_size
Slots     == PageShift - MinShift

(* What is assumed of the constants; the modules of the instances state it. *)
SlabAssumption ==
  /\ MinShift \in Nat /\ PageShift \in Nat /\ MinShift < PageShift
  /\ \A pool \in Pools : pool.pages > 0
  /\ \A size \in Sizes : size > 0

VARIABLES
  pool,  \* the size of this pool
  mem,   \* page->slab of every page, and next and prev of pages, slots and pool->free
  live   \* what has been allocated: where, and how much was asked for

vars == <<pool, mem, live>>

Pages    == 0..pool.pages - 1
Slot(k)  == pool.pages + k - MinShift     \* the head of the list of a slot
FreeList == pool.pages + Slots            \* &pool->free
Null     == FreeList + 1

\* what page->slab holds: the length of a run, or a shift and the chunks in use
Run(as, n)      == [as |-> as, n |-> n, used |-> {}]
Cut(shift, set) == [as |-> "cut", n |-> shift, used |-> set]
Zero            == Run("zero", 0)
To(x, type)     == [to |-> x, type |-> type]

(* ngx_slab_init() *)
Init ==
  /\ pool \in Pools
  /\ mem = [slab |-> [p \in Pages |-> IF p = 0 THEN Run("free", pool.pages) ELSE Zero],
            next |-> [x \in 0..FreeList |-> CASE x = FreeList -> 0
                                              [] x = 0 -> FreeList
                                              [] x \in Pages \ {0} -> Null
                                              [] OTHER -> x],
            prev |-> [x \in 0..FreeList |-> To(IF x = 0 THEN FreeList ELSE Null, "page")]]
  /\ live = {}

-----------------------------------------------------------------------------
(* Sizes *)

ShiftOf(size) == Min({k \in MinShift..PageShift : 2 ^ k >= size})

Type(shift) ==
  CASE 2 ^ shift < ExactSize -> "small"
    [] 2 ^ shift = ExactSize -> "exact"
    [] OTHER -> "big"

Chunks(shift) == 0..2 ^ (PageShift - shift) - 1

(* Small chunks: how many of them the bitmap at the start of the page takes. *)
MapChunks(shift) ==
  LET n == (2 ^ (PageShift - shift) \div Byte) \div 2 ^ shift IN IF n = 0 THEN 1 ELSE n

Reserved(shift) == IF Type(shift) = "small" THEN 0..MapChunks(shift) - 1 ELSE {}

PagesOf(size) == size \div PageSize + (IF size % PageSize > 0 THEN 1 ELSE 0)

-----------------------------------------------------------------------------
(* Lists *)

Unlinked(s, p) ==
  [s EXCEPT !.next[s.prev[p].to] = s.next[p], !.prev[s.next[p]] = s.prev[p]]

(* A page is put at the head of the list of its slot. *)
Linked(s, p, shift) ==
  LET h == Slot(shift)
      t == Type(shift)
  IN  [s EXCEPT !.next[p] = s.next[h], !.next[h] = p, !.prev[p] = To(h, t),
                !.prev[s.next[h]] = To(p, t)]

(* The list of a head, as far as it goes, without the head. *)
Nth(s, head) ==
  LET nth[i \in 0..pool.pages] == IF i = 0 THEN head ELSE s.next[nth[i - 1]] IN nth

InList(s, head) ==
  LET nth == Nth(s, head)
      end == {i \in 1..pool.pages : nth[i] = head}
  IN  {nth[i] : i \in 1..(IF end = {} THEN pool.pages ELSE Min(end) - 1)}

-----------------------------------------------------------------------------
(* ngx_slab_alloc_pages(): the first run that is long enough; its end is left. *)

LongEnough(s, n) ==
  LET nth == Nth(s, FreeList)
  IN  {i \in 1..pool.pages : /\ \A j \in 1..i : nth[j] # FreeList
                             /\ s.slab[nth[i]].n >= n}

FirstRun(s, n) == Nth(s, FreeList)[Min(LongEnough(s, n))]

AllocPages(s, p, n) ==
  LET rest == s.slab[p].n - n
      cut  == IF rest = 0 THEN Unlinked(s, p)
              ELSE [s EXCEPT !.slab[p + n] = Run("free", rest),
                             !.next[p + n] = s.next[p], !.prev[p + n] = s.prev[p],
                             !.next[s.prev[p].to] = p + n,
                             !.prev[s.next[p]] = To(p + n, "page")]
  IN  [slab |-> [q \in Pages |-> CASE q = p -> Run("start", n)
                                   [] q \in p + 1..p + n - 1 -> Run("busy", 0)
                                   [] OTHER -> cut.slab[q]],
       next |-> [x \in 0..FreeList |-> IF x \in p..p + n - 1 THEN Null ELSE cut.next[x]],
       prev |-> [x \in 0..FreeList |-> IF x \in p..p + n - 1 THEN To(Null, "page")
                                   ELSE cut.prev[x]]]

\* Bug: the page stays in the list of its slot.
FreePages_Linked(s, p, n) ==
  [slab |-> [q \in Pages |-> CASE q = p -> Run("free", n)
                               [] q \in p + 1..p + n - 1 -> Zero
                               [] OTHER -> s.slab[q]],
   next |-> [s.next EXCEPT ![p] = s.next[FreeList], ![FreeList] = p],
   prev |-> [s.prev EXCEPT ![p] = To(FreeList, "page"), ![s.next[FreeList]] = To(p, "page")]]

(* ngx_slab_free_pages(); neighbours that are free as well stay runs of their own. *)
FreePages(s, p, n) ==
  LET t == IF s.next[p] # Null THEN Unlinked(s, p) ELSE s
  IN  [slab |-> [q \in Pages |-> CASE q = p -> Run("free", n)
                                   [] q \in p + 1..p + n - 1 -> Zero
                                   [] OTHER -> t.slab[q]],
       next |-> [x \in 0..FreeList |-> CASE x = p -> t.next[FreeList]
                                         [] x = FreeList -> p
                                         [] x \in p + 1..p + n - 1 -> Null
                                         [] OTHER -> t.next[x]],
       prev |-> [x \in 0..FreeList |-> CASE x = p -> To(FreeList, "page")
                                     [] x = t.next[FreeList] -> To(p, "page")
                                     [] x \in p + 1..p + n - 1 -> To(Null, "page")
                                     [] OTHER -> t.prev[x]]]

-----------------------------------------------------------------------------
Becomes(new) == \E s \in {new} : mem' = s

(* ngx_slab_alloc_locked() *)

AllocLarge(size) ==
  /\ size >= MaxSize
  /\ LongEnough(mem, PagesOf(size)) # {}
  /\ \E p \in {FirstRun(mem, PagesOf(size))} :
       /\ Becomes(AllocPages(mem, p, PagesOf(size)))
       /\ live' = live \cup {[at |-> p * PageSize, size |-> size]}

(* A chunk of the first page of the slot; a page that is full leaves the list. *)
AllocChunk(size) ==
  LET shift == ShiftOf(size)
      p     == mem.next[Slot(shift)]
  IN
  /\ size < MaxSize
  /\ mem.next[p] # p
  /\ \E i \in {Min(Chunks(shift) \ mem.slab[p].used)} :
       LET s == [mem EXCEPT !.slab[p].used = @ \cup {i}]
       IN  /\ Becomes(IF s.slab[p].used # Chunks(shift) THEN s
                      ELSE [Unlinked(s, p) EXCEPT !.next[p] = Null,
                                                  !.prev[p] = To(Null, Type(shift))])
           /\ live' = live \cup {[at |-> p * PageSize + i * 2 ^ shift, size |-> size]}

(* What a new page holds: its bitmap, if that is inside, and the first chunk. *)
NewPage(shift) == Cut(shift, Reserved(shift) \cup {Cardinality(Reserved(shift))})

(* The slot has no page: a new one is cut. *)
AllocNewPage(size) ==
  LET shift == ShiftOf(size)
      h     == Slot(shift)
      first == Cardinality(Reserved(shift))
  IN
  /\ size < MaxSize
  /\ mem.next[mem.next[h]] = mem.next[h]
  /\ LongEnough(mem, 1) # {}
  /\ \E p \in {FirstRun(mem, 1)} :
       /\ Becomes([AllocPages(mem, p, 1) EXCEPT
                     !.slab[p] = NewPage(shift), !.next[p] = h,
                     !.prev[p] = To(h, Type(shift)), !.next[h] = p])
       /\ live' = live \cup {[at |-> p * PageSize + first * 2 ^ shift, size |-> size]}

Alloc(size) ==
  /\ Cardinality(live) < pool.most
  /\ AllocLarge(size) \/ AllocChunk(size) \/ AllocNewPage(size)
  /\ UNCHANGED pool

-----------------------------------------------------------------------------
(* ngx_slab_free_locked(): the type of the page says what p is.  Pointers that were   *)
(* not allocated, which it refuses, do not occur.                            *)

Full(s, p) ==
  IF s.prev[p].type = "exact" THEN s.slab[p].used = Chunks(s.slab[p].n)
  ELSE s.next[p] = Null

FreeChunk(s, p, i) ==
  LET shift == s.slab[p].n
      back  == IF Full(s, p) THEN Linked(s, p, shift) ELSE s
      t     == [back EXCEPT !.slab[p].used = @ \ {i}]
  IN  IF t.slab[p].used \subseteq Reserved(shift) THEN FreePages(t, p, 1) ELSE t

FreeBlock(b) ==
  LET p == b.at \div PageSize
  IN
  /\ live' = live \ {b}
  /\ Becomes(IF mem.prev[p].type = "page" THEN FreePages(mem, p, mem.slab[p].n)
             ELSE FreeChunk(mem, p, (b.at % PageSize) \div 2 ^ mem.slab[p].n))
  /\ UNCHANGED pool

Next == (\E size \in Sizes : Alloc(size)) \/ (\E b \in live : FreeBlock(b))

Spec == Init /\ [][Next]_vars

-----------------------------------------------------------------------------
Bytes(b) == b.at..b.at + b.size - 1

(* Where an allocation lies: inside of the pool, aligned to its size, behind the bitmap
   of its page, and with no byte in common with another one. *)
WellPlaced(b) ==
  LET s == mem.slab[b.at \div PageSize]
  IN  /\ Bytes(b) \subseteq 0..pool.pages * PageSize - 1
      /\ b.size < MaxSize => b.at % 2 ^ ShiftOf(b.size) = 0
      /\ s.as = "cut" /\ Type(s.n) = "small" =>
           (b.at % PageSize) * Byte >= 2 ^ (PageShift - s.n)
      /\ \A d \in live : b = d \/ Bytes(b) \cap Bytes(d) = {}

Chunk(b)  == (b.at % PageSize) \div 2 ^ ShiftOf(b.size)
Within(p) == {b \in live : b.at \div PageSize = p}
Runs      == InList(mem, FreeList)
Cuts      == {p \in Pages : mem.slab[p].as = "cut"}
Begun     == {p \in Pages : mem.slab[p].as = "start"}
Extent(p) == p..p + mem.slab[p].n - 1

(* No two allocations overlap, and nothing is lost: every page is in exactly one free
   run, in one run that is allocated, or cut for the chunks that are allocated in it, of
   which the bitmap is the exact record; a page with no chunk in use is free again.  The
   list of a slot has exactly the pages with a free chunk, with links in both
   directions, so that an allocation fails only if no run of pages is long enough and
   no page of its slot has room. *)
Accounted ==
  /\ \A b \in live : WellPlaced(b)
  /\ UNION {Extent(p) : p \in Runs \cup Begun} \cup Cuts = Pages
  /\ Cardinality(Cuts)
       + FoldSet(LAMBDA p, n : n + mem.slab[p].n, 0, Runs \cup Begun) = pool.pages
  /\ \A p \in Begun : \E b \in Within(p) : PagesOf(b.size) = mem.slab[p].n
  /\ \A p \in Cuts :
       /\ Within(p) # {}
       /\ mem.slab[p].used = Reserved(mem.slab[p].n) \cup {Chunk(b) : b \in Within(p)}
  /\ \A k \in MinShift..PageShift - 1 :
       InList(mem, Slot(k)) =
         {p \in Cuts : mem.slab[p].n = k /\ mem.slab[p].used # Chunks(k)}
  /\ \A x \in 0..FreeList :
       mem.next[x] \in Pages => mem.prev[mem.next[x]].to = x
=============================================================================
