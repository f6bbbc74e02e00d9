------------------------------ MODULE Umalloc -------------------------------
(***************************************************************************)
(* The user heap, umalloc.c: malloc takes the first block that fits from a *)
(* circular list of free blocks in address order and asks sbrk for more    *)
(* when none does; free puts a block back and merges it with its           *)
(* neighbours.  Addresses and sizes are in units of a Header; a block is   *)
(* named by the address of its header.  A header that has become part of a *)
(* larger block, and the unused ptr of a block in use, read as 0.          *)
(***************************************************************************)
EXTENDS Naturals, FiniteSets, FiniteSetsExt

CONSTANTS
  HEAP,         \* units sbrk may hand out
  CHUNK,        \* the least morecore asks for, 4096 in the code
  Requests      \* sizes nunits of the calls of malloc

Base == 0       \* static Header base, below the heap and not next to it
Start == 2
Addr == {Base} \cup Start .. Start + HEAP - 1

VARIABLES
  ptr, size,    \* the headers: [Addr -> next block], [Addr -> units]
  freep,        \* where the walks of the list begin
  brk,          \* the end of the heap
  live,         \* blocks the program holds
  want          \* nunits of the malloc in progress, 0 when there is none
vars == <<ptr, size, freep, brk, live, want>>

Init == /\ ptr = [a \in Addr |-> Base] /\ size = [a \in Addr |-> 0] /\ freep = Base
        /\ brk = Start /\ live = {} /\ want = 0

\* The list from freep on: the k-th block reached by following ptr.
Along == LET A[k \in 0 .. HEAP + 1] == IF k = 0 THEN freep ELSE ptr[A[k - 1]] IN A

\* free's walk: p is the first block of the circle that bp belongs behind.
Follows(bp, p) == \/ bp > p /\ bp < ptr[p]
                  \/ p >= ptr[p] /\ (bp > p \/ bp < ptr[p])
Place(bp, p) == \E k \in 0 .. HEAP : /\ p = Along[k] /\ Follows(bp, p)
                                     /\ \A j \in 0 .. k - 1 : ~Follows(bp, Along[j])

\* The rest of free: bp, of n units, merges with the block above it and with
\* p below it, or is linked between them.
BadJoinsNext(bp, n, p) == FALSE
JoinsNext(bp, n, p) == bp + n = ptr[p]
Without(f, bp, n, p) ==
    [a \in Addr |-> IF a = ptr[p] /\ JoinsNext(bp, n, p) THEN 0 ELSE f[a]]
free(bp, n) ==
    \E p \in Addr :
      LET units == IF JoinsNext(bp, n, p) THEN n + size[ptr[p]] ELSE n
          after == IF JoinsNext(bp, n, p) THEN ptr[ptr[p]] ELSE ptr[p]
      IN  /\ Place(bp, p)
          /\ \/ /\ p + size[p] = bp
                /\ size' = [Without(size, bp, n, p) EXCEPT ![bp] = 0, ![p] = @ + units]
                /\ ptr' = [Without(ptr, bp, n, p) EXCEPT ![bp] = 0, ![p] = after]
             \/ /\ p + size[p] # bp
                /\ size' = [Without(size, bp, n, p) EXCEPT ![bp] = units]
                /\ ptr' = [Without(ptr, bp, n, p) EXCEPT ![bp] = after, ![p] = bp]
          /\ freep' = p

Free(bp) == /\ want = 0
            /\ free(bp, size[bp]) /\ live' = live \ {bp}
            /\ UNCHANGED <<brk, want>>

Malloc(n) == want = 0 /\ want' = n /\ UNCHANGED <<ptr, size, freep, brk, live>>

\* The loop of malloc: the first block behind freep that is large enough.  An
\* exact fit is unlinked, a larger block gives up its tail.
Fits == {k \in 1 .. HEAP + 1 : size[Along[k]] >= want}
Take == /\ want > 0 /\ Fits # {}
        /\ \E k \in {Min(Fits)}, p \in Addr, prevp \in Addr :
             /\ p = Along[k] /\ prevp = Along[k - 1]
             /\ \/ /\ size[p] = want
                   /\ ptr' = [ptr EXCEPT ![prevp] = ptr[p], ![p] = 0]
                   /\ live' = live \cup {p} /\ UNCHANGED size
                \/ /\ size[p] > want
                   /\ size' = [size EXCEPT ![p] = @ - want, ![p + size[p] - want] = want]
                   /\ live' = live \cup {p + size[p] - want} /\ UNCHANGED ptr
             /\ freep' = prevp
        /\ want' = 0 /\ UNCHANGED brk

\* The walk is back at freep: morecore frees new units into the list, and
\* malloc goes on from there, or sbrk refuses and malloc returns 0.
MoreUnits == Max({want, CHUNK})
morecore == /\ want > 0 /\ Fits = {} /\ brk + MoreUnits <= Start + HEAP
            /\ free(brk, MoreUnits) /\ brk' = brk + MoreUnits
            /\ UNCHANGED <<live, want>>
MallocFails == /\ want > 0 /\ Fits = {}
               /\ want' = 0 /\ UNCHANGED <<ptr, size, freep, brk, live>>

Next == \/ \E n \in Requests : Malloc(n)
        \/ Take \/ morecore \/ MallocFails
        \/ \E bp \in live : Free(bp)
Spec == Init /\ [][Next]_vars

-----------------------------------------------------------------------------
FreeBlocks == {Along[k] : k \in 1 .. HEAP + 1} \ {Base}
Units(b) == b .. b + size[b] - 1

(***************************************************************************)
(* Every unit that sbrk has handed out is in exactly one block, held by    *)
(* the program or on the free list, and no two free blocks touch: nothing  *)
(* is given out twice, lost, or left in pieces (malloc, free).             *)
(***************************************************************************)
UnitsAccounted ==
    /\ live \cap FreeBlocks = {}
    /\ UNION {Units(b) : b \in live \cup FreeBlocks} = Start .. brk - 1
    /\ \A b, c \in live \cup FreeBlocks : b # c => Units(b) \cap Units(c) = {}
    /\ \A b, c \in FreeBlocks : b + size[b] # c
=============================================================================
