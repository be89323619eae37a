------------------------------ MODULE Smalloc ------------------------------
(***************************************************************************)
(* The boot heap of src/smalloc.c: a first-fit allocator over a singly     *)
(* linked list of blocks kept in address order.  The header of a block     *)
(* lies in the heap just below its data, so two blocks whose footprints    *)
(* meet corrupt each other's data or the list itself.                      *)
(*                                                                         *)
(* list is the chain from boot_heap_head.next to the node before           *)
(* boot_heap_tail.  held is what the callers know: for every pointer they  *)
(* own, the number of bytes they asked for with it.                        *)
(***************************************************************************)
EXTENDS Integers, SequencesExt

CONSTANTS
  HeapStart,  \* p_heap_head of smalloc_init
  HeapSize,   \* n_heap_size of smalloc_init
  Header,     \* sizeof(struct alloc_struct_t)
  Word,       \* 2^32 on the target: the arithmetic is unsigned and wraps
  Requests    \* values of num_bytes the callers pass

ASSUME HeapAssumption ==
  /\ HeapStart \in Nat \ {0}
  /\ Header \in Nat \ {0}
  /\ HeapSize \in Nat
  /\ HeapSize >= Header
  /\ Word \in Nat
  /\ HeapStart + HeapSize < Word
  /\ Requests \subseteq 0 .. Word - 1

VARIABLES list, held

vars == <<list, held>>

Block == [address : Nat, size : Nat, o_size : Nat]

(* Unsigned addition of two words. *)
Add(a, b) == IF a + b < Word THEN a + b ELSE a + b - Word

BYTE_ALIGN(x) == (Add(x, 15) \div 16) * 16

boot_heap_head == [address |-> HeapStart, size |-> 0, o_size |-> 0]
boot_heap_tail == [address |-> HeapStart + HeapSize, size |-> 0, o_size |-> 0]

(* The nodes of chain l in order: 0 is the head, Len(l) + 1 the tail. *)
Node(l, i) == IF i = 0 THEN boot_heap_head
              ELSE IF i = Len(l) + 1 THEN boot_heap_tail
              ELSE l[i]

(* Mutant of Fits: the gap need only take the data. *)
FitsWithoutHeaders(l, i, actual) ==
  Node(l, i + 1).address >= Add(Add(Node(l, i).address, Node(l, i).size), actual)

(* The test of the search loop: the gap after node i takes a header, the  *)
(* data and the header of the block that follows.                          *)
Fits(l, i, actual) ==
  Node(l, i + 1).address >=
    Add(Add(Node(l, i).address, Node(l, i).size), Add(2 * Header, actual))

FirstFit(l, i, actual) ==
  /\ i \in 0 .. Len(l)
  /\ Fits(l, i, actual)
  /\ \A j \in 0 .. i - 1 : ~Fits(l, j, actual)

NoFit(l, actual) == \A i \in 0 .. Len(l) : ~Fits(l, i, actual)

(* Mutant of NewBlock: the data start where the header does. *)
NewBlockOnHeader(l, i, n) ==
  [address |-> Node(l, i).address + Node(l, i).size,
   size    |-> BYTE_ALIGN(n),
   o_size  |-> n]

(* The block smalloc writes behind node i for a request of n bytes. *)
NewBlock(l, i, n) ==
  [address |-> Node(l, i).address + Node(l, i).size + Header,
   size    |-> BYTE_ALIGN(n),
   o_size  |-> n]

(* The chain after `newptr->next = ptr->next; ptr->next = newptr'. *)
Linked(l, i, b) == InsertAt(l, i + 1, b)

(* Mutant of Skip: the next pointer is cleared instead of passed on. *)
SkipRest(l, i, j) == SubSeq(l, 1, i)

(* The chain after the node at position i has been given the position j of *)
(* a later node as its next: the nodes between are no longer reachable.    *)
Skip(l, i, j) == SubSeq(l, 1, i) \o SubSeq(l, j, Len(l))

Holding(h, p, n) == [q \in DOMAIN h \cup {p} |-> IF q = p THEN n ELSE h[q]]
Dropping(h, p) == [q \in DOMAIN h \ {p} |-> h[q]]

-----------------------------------------------------------------------------
(* smalloc_init *)
Init ==
  /\ list = <<>>
  /\ held = <<>>

smalloc(n) ==
  \/ /\ n = 0 \/ NoFit(list, BYTE_ALIGN(n))
     /\ UNCHANGED vars
  \/ /\ n # 0
     /\ \E i \in 0 .. Len(list) :
          /\ FirstFit(list, i, BYTE_ALIGN(n))
          /\ list' = Linked(list, i, NewBlock(list, i, n))
          /\ held' = Holding(held, NewBlock(list, i, n).address, n)

(* sfree unlinks the first block whose address is p. *)
IsAt(l, i, p) ==
  /\ i \in 1 .. Len(l)
  /\ l[i].address = p
  /\ \A j \in 1 .. i - 1 : l[j].address # p

NotListed(l, p) == \A i \in 1 .. Len(l) : l[i].address # p

sfree(p) ==
  /\ \/ /\ NotListed(list, p)
        /\ UNCHANGED list
     \/ \E i \in 1 .. Len(list) :
          /\ IsAt(list, i, p)
          /\ list' = Skip(list, i - 1, i + 1)
  /\ held' = Dropping(held, p)

(* Mutant of Move: the old block is not taken off the chain. *)
MoveKeepsOld(i, k, p, actual, n) ==
  LET new == NewBlock(list, k, actual)
  IN  /\ FirstFit(list, k, BYTE_ALIGN(actual))
      /\ list' = Linked(list, k, new)
      /\ held' = Holding(Dropping(held, p), new.address, n)

(* srealloc: the block at position i cannot grow where it is.  prev and    *)
(* ptr are the neighbours found before the inner smalloc links the new     *)
(* block behind node k; `prev->next = ptr->next' is executed after it.     *)
Move(i, k, p, actual, n) ==
  LET new  == NewBlock(list, k, actual)
      l    == Linked(list, k, new)
      prev == IF k < i - 1 THEN i ELSE i - 1
      ptr  == IF k < i THEN i + 1 ELSE i
  IN  /\ FirstFit(list, k, BYTE_ALIGN(actual))
      /\ list' = Skip(l, prev, ptr + 1)
      /\ held' = Holding(Dropping(held, p), new.address, n)

(* The block at position i is asked to take n more bytes. *)
Grow(i, p, n) ==
  LET ptr    == list[i]
      actual == BYTE_ALIGN(Add(ptr.o_size, n))
      room   == Node(list, i + 1).address >=
                  Add(ptr.address, Add(actual, 2 * Header))
  IN  \/ /\ actual = ptr.size
         /\ held' = [held EXCEPT ![p] = n]
         /\ UNCHANGED list
      \/ /\ actual # ptr.size
         /\ room
         /\ list' = [list EXCEPT ![i] = [address |-> ptr.address,
                                         size    |-> actual,
                                         o_size  |-> Add(ptr.o_size, n)]]
         /\ held' = [held EXCEPT ![p] = n]
      \/ /\ actual # ptr.size
         /\ ~room
         /\ \E k \in 0 .. Len(list) : Move(i, k, p, actual, n)
      \/ /\ actual # ptr.size
         /\ ~room
         /\ actual = 0 \/ NoFit(list, BYTE_ALIGN(actual))
         /\ UNCHANGED vars

srealloc(p, n) ==
  \/ /\ n = 0 \/ NotListed(list, p)
     /\ UNCHANGED vars
  \/ /\ n # 0
     /\ \E i \in 1 .. Len(list) : IsAt(list, i, p) /\ Grow(i, p, n)

-----------------------------------------------------------------------------
(* Callers pass only pointers they hold; srealloc(NULL, n) is smalloc(n)   *)
(* and sfree(NULL) does nothing.                                           *)
Alloc == \E n \in Requests : smalloc(n)
Free == \E p \in DOMAIN held : sfree(p)
Realloc == \E p \in DOMAIN held, n \in Requests : srealloc(p, n)

(* The firmware itself calls smalloc and sfree only. *)
Next == Alloc \/ Free
Spec == Init /\ [][Next]_vars

(* The whole interface of smalloc.h. *)
ReallocNext == Next \/ Realloc
ReallocSpec == Init /\ [][ReallocNext]_vars

-----------------------------------------------------------------------------
TypeOK ==
  /\ list \in Seq(Block)
  /\ held \in [DOMAIN held -> Nat]
  /\ DOMAIN held \subseteq Nat

(* The blocks on the chain and their headers lie inside the heap in        *)
(* address order and none reaches into the next one's header: what the     *)
(* search loops of smalloc, srealloc and sfree rely on.                    *)
ChainOrdered ==
  \A i, j \in 0 .. Len(list) + 1 :
    i < j => Node(list, i).address + Node(list, i).size + Header
               <= Node(list, j).address

(* Every block a caller holds is on the chain with at least the bytes it   *)
(* asked for: otherwise first fit will hand its memory out again.          *)
HeldListed ==
  \A p \in DOMAIN held :
    \E i \in 1 .. Len(list) : list[i].address = p /\ list[i].size >= held[p]

(* Two callers never own overlapping memory, headers included. *)
HeldDisjoint ==
  \A p, q \in DOMAIN held :
    p < q => p + held[p] + Header <= q

(* No memory is lost: a block stays on the chain only while it is held.    *)
(* sfree and the move of srealloc give all of it back.                     *)
NoLeak == \A i \in 1 .. Len(list) : list[i].address \in DOMAIN held

(* Memory handed out lies behind its header and inside the heap, even on   *)
(* the paths where srealloc loses a block.                                 *)
HeldInHeap ==
  \A p \in DOMAIN held :
    /\ HeapStart + Header <= p
    /\ p + held[p] + Header <= HeapStart + HeapSize

Contract == INSTANCE HeapContract WITH
  Low <- HeapStart, High <- HeapStart + HeapSize,
  Gap <- Header, Sizes <- Requests

(* The allocator implements the contract of smalloc.h: every smalloc and   *)
(* sfree of the code is a grant, a release or no change.                   *)
ImplementsContract == Contract!Spec
=============================================================================
