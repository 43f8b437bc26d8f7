----------------------------- MODULE SmallMem -----------------------------
(***************************************************************************)
(* The heap: the small memory algorithm of rtthread/mem.c, called by       *)
(* rt_malloc, rt_realloc and rt_free of kservice.c under the mutex "heap",  *)
(* so that a call is one step.                                             *)
(*                                                                         *)
(* Memory is counted in units of RT_ALIGN_SIZE, to which every size is     *)
(* rounded up.  item maps the offsets where a block begins to its header;   *)
(* a header that plug_holes has given up is not in item any more.  The     *)
(* offset of heap_end is End.                                              *)
(***************************************************************************)
EXTENDS Integers, FiniteSetsExt, Functions, TLC

CONSTANTS
  Size,     \* mem_size_aligned
  Header,   \* SIZEOF_STRUCT_MEM
  MinSize,  \* MIN_SIZE_ALIGNED, and MIN_SIZE
  Request   \* the sizes the application asks for

SmallMemAssumption ==
  /\ Size \in Nat \ {0} /\ Header \in Nat \ {0} /\ MinSize \in Nat \ {0}
  /\ Request \subseteq Nat \ {0}

VARIABLES
  heap,  \* the headers, lfree, used and max
  held   \* history: the size of each block that was allocated and not freed

vars == <<heap, held>>

End == Size + Header

Items == [used : BOOLEAN, next : 0 .. End, prev : 0 .. End]

TypeOK ==
  /\ DOMAIN heap.item \subseteq 0 .. End
  /\ \A a \in DOMAIN heap.item : heap.item[a] \in Items
  /\ heap.lfree \in DOMAIN heap.item
  /\ heap.used \in 0 .. End /\ heap.max \in 0 .. End
  /\ DOMAIN held \subseteq 0 .. End
  /\ \A p \in DOMAIN held : held[p] \in 1 .. Size

\* The data a block can take, and the offset of its header.
Data(h, a)  == h.item[a].next - a - Header
Offset(p)   == p - Header

IsFree(h, a) == ~h.item[a].used

With(h, a, header) == [h EXCEPT !.item = (a :> header) @@ @]
Without(h, a)      == [h EXCEPT !.item = Restrict(@, DOMAIN @ \ {a})]

---------------------------------------------------------------------------
Init ==
  /\ heap = [item |-> 0   :> [used |-> FALSE, next |-> End, prev |-> 0] @@
                      End :> [used |-> TRUE,  next |-> End, prev |-> End],
             lfree |-> 0, used |-> 0, max |-> 0]
  /\ held = <<>>

\* A free block is joined to the free block behind it,
PlugForward(h, a) ==
  LET n == h.item[a].next
      end == h.item[n].next
  IN  IF n # a /\ IsFree(h, n) /\ n # End
      THEN [Without(h, n) EXCEPT !.lfree = IF @ = n THEN a ELSE @,
                                 !.item[a].next = end,
                                 !.item[end].prev = a]
      ELSE h

\* and to the one before it.
PlugBackward(h, a) ==
  LET p == h.item[a].prev
      end == h.item[a].next
  IN  IF p # a /\ IsFree(h, p)
      THEN [Without(h, a) EXCEPT !.lfree = IF @ = a THEN p ELSE @,
                                 !.item[p].next = end,
                                 !.item[end].prev = p]
      ELSE h

PlugHoles(h, a) == PlugBackward(PlugForward(h, a), a)

---------------------------------------------------------------------------
\* The blocks the search from lfree would stop at.
Fits(h, n) ==
  {a \in DOMAIN h.item : a >= h.lfree /\ a <= Size - n /\ IsFree(h, a) /\ Data(h, a) >= n}

\* Block a is cut after n units of data.
Split(h, a, n) ==
  LET b   == a + Header + n
      end == h.item[a].next
      cut == [With(h, b, [used |-> FALSE, next |-> end, prev |-> a])
                EXCEPT !.item[a].next = b]
  IN  IF end # End THEN [cut EXCEPT !.item[end].prev = b] ELSE cut

\* Whether the remainder can be a block.
Cuts(h, a, n) == Data(h, a) >= n + Header + MinSize

\* The first free block from a on, or the end.
NextFree(h, a) == Min({b \in DOMAIN h.item : b >= a /\ (IsFree(h, b) \/ b = End)})

Take(h, a, n) ==
  LET cut  == IF Cuts(h, a, n) THEN Split(h, a, n) ELSE h
      used == h.used + cut.item[a].next - a
      mine == [cut EXCEPT !.item[a].used = TRUE, !.used = used,
                          !.max = IF @ < used THEN used ELSE @]
  IN  IF a = h.lfree THEN [mine EXCEPT !.lfree = NextFree(mine, a)] ELSE mine

AtLeast(n) == IF n < MinSize THEN MinSize ELSE n

\* Mutant of Release: lfree is left as it is.
Release_KeepsLfree(h, a) ==
  PlugHoles([h EXCEPT !.item[a].used = FALSE, !.used = @ - (h.item[a].next - a)], a)

Release(h, a) ==
  PlugHoles([h EXCEPT !.item[a].used = FALSE,
                      !.lfree = IF a < @ THEN a ELSE @,
                      !.used = @ - (h.item[a].next - a)], a)

---------------------------------------------------------------------------
\* rt_smem_alloc: the first block that is large enough; NULL if there is none.
Alloc(n) ==
  LET fits == Fits(heap, AtLeast(n))
      a    == Min(fits)
  IN  /\ AtLeast(n) <= Size /\ fits # {}
      /\ heap' = Take(heap, a, AtLeast(n))
      /\ held' = (a + Header :> n) @@ held

Free(p) ==
  /\ heap' = Release(heap, Offset(p))
  /\ held' = Restrict(held, DOMAIN held \ {p})

\* rt_smem_realloc.  The rest of a block is given back when it is larger than
\* a header and MinSize;
Shrink(p, n) ==
  LET a == Offset(p)
      b == p + n
      cut == [Split(heap, a, n) EXCEPT !.used = @ - (Data(heap, a) - n),
                                       !.lfree = IF b < @ THEN b ELSE @]
  IN  /\ n <= Size /\ n + Header + MinSize < Data(heap, a)
      /\ heap' = PlugHoles(cut, b)
      /\ held' = [held EXCEPT ![p] = n]

\* a block that has the size already stays as it is;
Keep(p, n) ==
  /\ Data(heap, Offset(p)) = n
  /\ held' = [held EXCEPT ![p] = n]
  /\ UNCHANGED heap

\* and any other is moved, whether it grows or not.
Move(p, n) ==
  LET fits == Fits(heap, AtLeast(n))
      a    == Min(fits)
  IN  /\ Data(heap, Offset(p)) # n /\ ~(n + Header + MinSize < Data(heap, Offset(p)))
      /\ AtLeast(n) <= Size /\ fits # {}
      /\ heap' = Release(Take(heap, a, AtLeast(n)), Offset(p))
      /\ held' = (a + Header :> n) @@ Restrict(held, DOMAIN held \ {p})

Next ==
  \/ \E n \in Request : Alloc(n)
  \/ \E p \in DOMAIN held :
       \/ Free(p)
       \/ \E n \in Request : Shrink(p, n) \/ Keep(p, n) \/ Move(p, n)

Spec == Init /\ [][Next]_vars

---------------------------------------------------------------------------
Blocks == DOMAIN heap.item \ {End}

\* The blocks cover the heap without gap or overlap, and every one knows the
\* one before it: no cut and no join loses a header or leaves a stale link.
Tiled ==
  /\ 0 \in Blocks
  /\ \A a \in Blocks :
       LET n == heap.item[a].next
       IN  /\ n > a /\ n \in DOMAIN heap.item
           /\ \A b \in Blocks : b <= a \/ b >= n
           /\ n # End => heap.item[n].prev = a

\* Two free blocks never lie side by side (rt_smem_alloc, "if not we have 2
\* unused structs in a row, plug_holes should have take care of this").
HolesPlugged ==
  \A a \in Blocks : IsFree(heap, a) =>
    LET n == heap.item[a].next IN n = End \/ ~IsFree(heap, n)

\* What was allocated and not freed is what is used, and each block has at
\* least the data that was asked for.
HeldIntact ==
  /\ {Offset(p) : p \in DOMAIN held} = {a \in Blocks : ~IsFree(heap, a)}
  /\ \A p \in DOMAIN held : Data(heap, Offset(p)) >= held[p]

\* The search from lfree fails only if no free block is large enough.
FindsSpace ==
  \A n \in Request : Fits(heap, AtLeast(n)) = {} =>
    \A a \in Blocks : IsFree(heap, a) => Data(heap, a) < AtLeast(n)

\* rt_memory_info reports the memory in use, headers included.
UsedCounted ==
  /\ heap.used = MapThenSumSet(LAMBDA a : heap.item[a].next - a,
                               {a \in Blocks : ~IsFree(heap, a)})
  /\ heap.used <= heap.max
===========================================================================
