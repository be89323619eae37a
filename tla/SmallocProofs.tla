--------------------------- MODULE SmallocProofs ---------------------------
(***************************************************************************)
(* Proofs about Smalloc for every heap, header size and set of requests:   *)
(* the chain stays ordered under the whole interface of smalloc.h, and as  *)
(* long as srealloc is not called, what the callers hold is on the chain   *)
(* and pairwise disjoint.                                                  *)
(***************************************************************************)
EXTENDS Smalloc, SequenceTheorems, TLAPS

(* No request is so large that the unsigned sums of the search loops wrap. *)
ASSUME NoWrapAssumption ==
  \A n \in Requests : HeapStart + 2 * HeapSize + 2 * Header + n + 64 < Word

Ordered(l) ==
  \A i, j \in 0 .. Len(l) + 1 :
    i < j => Node(l, i).address + Node(l, i).size + Header
               <= Node(l, j).address

(* The request never exceeds what a block records, so that the sums of     *)
(* srealloc stay bounded.                                                  *)
SizesCover(l) == \A i \in 1 .. Len(l) : l[i].o_size <= l[i].size

(* The inductive invariant of the chain. *)
ChainInv ==
  /\ TypeOK
  /\ Ordered(list)
  /\ SizesCover(list)

-----------------------------------------------------------------------------
(* Linking a block behind position i shifts the later ones by one. *)
LEMMA LinkedElements ==
  ASSUME NEW l \in Seq(Block), NEW b \in Block, NEW i \in 0 .. Len(l)
  PROVE  /\ Linked(l, i, b) \in Seq(Block)
         /\ Len(Linked(l, i, b)) = Len(l) + 1
         /\ \A j \in 1 .. Len(l) + 1 :
              Linked(l, i, b)[j] = IF j <= i THEN l[j]
                                   ELSE IF j = i + 1 THEN b ELSE l[j - 1]
<1>1. /\ SubSeq(l, 1, i) \in Seq(Block)
      /\ Len(SubSeq(l, 1, i)) = i
      /\ \A k \in 1 .. i : SubSeq(l, 1, i)[k] = l[k]
  BY SubSeqProperties
<1>2. /\ SubSeq(l, i + 1, Len(l)) \in Seq(Block)
      /\ Len(SubSeq(l, i + 1, Len(l))) = Len(l) - i
      /\ \A k \in 1 .. Len(l) - i : SubSeq(l, i + 1, Len(l))[k] = l[i + k]
  BY SubSeqProperties
<1>3. Linked(l, i, b) = (SubSeq(l, 1, i) \o <<b>>) \o SubSeq(l, i + 1, Len(l))
  <2>1. (i + 1) - 1 = i
    OBVIOUS
  <2> QED BY <2>1 DEF Linked, InsertAt
<1>4. /\ <<b>> \in Seq(Block) /\ Len(<<b>>) = 1 /\ <<b>>[1] = b
  OBVIOUS
<1> DEFINE front == SubSeq(l, 1, i) \o <<b>>
<1>5. /\ front \in Seq(Block)
      /\ Len(front) = i + 1
      /\ \A k \in 1 .. i + 1 : front[k] = IF k <= i THEN l[k] ELSE b
  <2>1. /\ front \in Seq(Block)
        /\ Len(front) = i + 1
        /\ \A k \in 1 .. i + 1 : front[k] = IF k <= i THEN SubSeq(l, 1, i)[k]
                                            ELSE <<b>>[k - i]
    BY <1>1, <1>4, ConcatProperties
  <2> QED BY <1>1, <1>4, <2>1
<1> DEFINE rest == SubSeq(l, i + 1, Len(l))
           m == Linked(l, i, b)
<1>6. m = front \o rest
  BY <1>3
<1>7. /\ rest \in Seq(Block)
      /\ Len(rest) = Len(l) - i
      /\ \A k \in 1 .. Len(l) - i : rest[k] = l[i + k]
  BY <1>2
<1> HIDE DEF front, rest, m
<1>8. /\ m \in Seq(Block)
      /\ Len(m) = Len(l) + 1
      /\ \A k \in 1 .. Len(l) + 1 :
           m[k] = IF k <= i + 1 THEN front[k] ELSE rest[k - (i + 1)]
  <2>1. (i + 1) + (Len(l) - i) = Len(l) + 1
    OBVIOUS
  <2> QED BY <1>5, <1>6, <1>7, <2>1, ConcatProperties
<1> QED
  <2>1. ASSUME NEW k \in 1 .. Len(l) + 1
        PROVE  m[k] = IF k <= i THEN l[k]
                      ELSE IF k = i + 1 THEN b ELSE l[k - 1]
    <3>1. CASE k <= i + 1
      BY <1>5, <1>8, <3>1
    <3>2. CASE k > i + 1
      <4>1. k - (i + 1) \in 1 .. Len(l) - i /\ i + (k - (i + 1)) = k - 1
        BY <3>2
      <4>2. rest[k - (i + 1)] = l[k - 1]
        BY <1>7, <4>1
      <4> QED BY <1>8, <3>2, <4>2
    <3> QED BY <3>1, <3>2
  <2> QED BY <1>8, <2>1 DEF m

(* Bypassing the positions between i and j keeps the others in order. *)
LEMMA SkipElements ==
  ASSUME NEW l \in Seq(Block), NEW i \in 0 .. Len(l),
         NEW j \in i + 1 .. Len(l) + 1
  PROVE  /\ Skip(l, i, j) \in Seq(Block)
         /\ Len(Skip(l, i, j)) = Len(l) - (j - i - 1)
         /\ \A k \in 1 .. Len(l) - (j - i - 1) :
              Skip(l, i, j)[k] = IF k <= i THEN l[k] ELSE l[k + (j - i - 1)]
<1>1. /\ SubSeq(l, 1, i) \in Seq(Block)
      /\ Len(SubSeq(l, 1, i)) = i
      /\ \A k \in 1 .. i : SubSeq(l, 1, i)[k] = l[k]
  BY SubSeqProperties
<1>2. /\ SubSeq(l, j, Len(l)) \in Seq(Block)
      /\ Len(SubSeq(l, j, Len(l))) = Len(l) - j + 1
      /\ \A k \in 1 .. Len(l) - j + 1 : SubSeq(l, j, Len(l))[k] = l[j + k - 1]
  BY SubSeqProperties
<1> DEFINE m == Skip(l, i, j)
           front == SubSeq(l, 1, i)
           rest == SubSeq(l, j, Len(l))
<1>3. /\ m \in Seq(Block)
      /\ Len(m) = i + (Len(l) - j + 1)
      /\ \A k \in 1 .. i + (Len(l) - j + 1) :
           m[k] = IF k <= i THEN front[k] ELSE rest[k - i]
  <2>1. m = front \o rest
    BY DEF Skip
  <2> HIDE DEF m, front, rest
  <2>2. /\ front \in Seq(Block) /\ Len(front) = i
        /\ rest \in Seq(Block) /\ Len(rest) = Len(l) - j + 1
    BY <1>1, <1>2 DEF front, rest
  <2>3. /\ front \o rest \in Seq(Block)
        /\ Len(front \o rest) = Len(front) + Len(rest)
        /\ \A k \in 1 .. Len(front) + Len(rest) :
             (front \o rest)[k] = IF k <= Len(front) THEN front[k]
                                  ELSE rest[k - Len(front)]
    BY <2>2, ConcatProperties
  <2> QED BY <2>1, <2>2, <2>3
<1>4. i + (Len(l) - j + 1) = Len(l) - (j - i - 1)
  OBVIOUS
<1>5. ASSUME NEW k \in 1 .. Len(l) - (j - i - 1)
      PROVE  m[k] = IF k <= i THEN l[k] ELSE l[k + (j - i - 1)]
  <2>1. m[k] = IF k <= i THEN front[k] ELSE rest[k - i]
    BY <1>3, <1>4
  <2>2. CASE k <= i
    BY <1>1, <2>1, <2>2
  <2>3. CASE k > i
    <3>1. /\ k - i \in 1 .. Len(l) - j + 1
          /\ j + (k - i) - 1 = k + (j - i - 1)
      BY <2>3
    <3>2. rest[k - i] = l[k + (j - i - 1)]
      BY <1>2, <3>1
    <3> HIDE DEF m, rest, front
    <3> QED BY <2>1, <2>3, <3>2
  <2> QED BY <2>2, <2>3
<1>6. m \in Seq(Block) /\ Len(m) = Len(l) - (j - i - 1)
  BY <1>3, <1>4
<1> QED BY <1>5, <1>6

(* The fields of a block are natural numbers. *)
LEMMA BlockFields ==
  ASSUME NEW b \in Block
  PROVE  b.address \in Nat /\ b.size \in Nat /\ b.o_size \in Nat
  BY DEF Block

(* What the two ends of a chain are. *)
LEMMA EndNodes ==
  /\ boot_heap_head \in Block
  /\ boot_heap_tail \in Block
  BY HeapAssumption DEF boot_heap_head, boot_heap_tail, Block

(* Every node of a chain of blocks is a block, the two ends included. *)
LEMMA NodeType ==
  ASSUME NEW l \in Seq(Block), NEW i \in 0 .. Len(l) + 1
  PROVE  Node(l, i) \in Block
  BY EndNodes DEF Node

(* What the positions of the longer and of the shorter chain denote, the   *)
(* two ends included.                                                      *)
LEMMA LinkedNodes ==
  ASSUME NEW l \in Seq(Block), NEW b \in Block, NEW i \in 0 .. Len(l)
  PROVE  /\ \A k \in 0 .. i : Node(Linked(l, i, b), k) = Node(l, k)
         /\ Node(Linked(l, i, b), i + 1) = b
         /\ \A k \in i + 2 .. Len(l) + 2 :
               Node(Linked(l, i, b), k) = Node(l, k - 1)
<1> DEFINE m == Linked(l, i, b)
<1>1. /\ m \in Seq(Block)
      /\ Len(m) = Len(l) + 1
      /\ \A j \in 1 .. Len(l) + 1 :
            m[j] = IF j <= i THEN l[j]
                   ELSE IF j = i + 1 THEN b ELSE l[j - 1]
  BY LinkedElements
<1> HIDE DEF m
<1>2. ASSUME NEW k \in 0 .. i PROVE Node(m, k) = Node(l, k)
  <2>1. CASE k = 0
    BY <2>1 DEF Node
  <2>2. CASE k # 0
    <3>1. k \in 1 .. Len(l) + 1 /\ k # Len(m) + 1 /\ k # Len(l) + 1 /\ k <= i
      BY <1>1, <2>2
    <3>2. m[k] = l[k]
      BY <1>1, <3>1
    <3> QED BY <2>2, <3>1, <3>2 DEF Node
  <2> QED BY <2>1, <2>2
<1>3. Node(m, i + 1) = b
  <2>1. i + 1 # 0 /\ i + 1 # Len(m) + 1 /\ i + 1 \in 1 .. Len(l) + 1 /\ ~(i + 1 <= i)
    BY <1>1
  <2>2. m[i + 1] = b
    BY <1>1, <2>1
  <2> QED BY <2>1, <2>2 DEF Node
<1>4. ASSUME NEW k \in i + 2 .. Len(l) + 2 PROVE Node(m, k) = Node(l, k - 1)
  <2>1. CASE k = Len(l) + 2
    <3>1. k # 0 /\ k = Len(m) + 1 /\ k - 1 # 0 /\ k - 1 = Len(l) + 1
      BY <1>1, <2>1
    <3> QED BY <3>1 DEF Node
  <2>2. CASE k # Len(l) + 2
    <3> Len(l) \in Nat
      BY LenProperties
    <3>1. /\ k # 0 /\ k # Len(m) + 1 /\ k - 1 # 0 /\ k - 1 # Len(l) + 1
          /\ k \in 1 .. Len(l) + 1 /\ ~(k <= i) /\ k # i + 1
      BY <1>1, <2>2
    <3>2. m[k] = l[k - 1]
      BY <1>1, <3>1
    <3> QED BY <3>1, <3>2 DEF Node
  <2> QED BY <2>1, <2>2
<1> QED BY <1>2, <1>3, <1>4 DEF m

(* Dropping blocks moves the later nodes down and leaves the others. *)
LEMMA SkipNodes ==
  ASSUME NEW l \in Seq(Block), NEW i \in 0 .. Len(l),
         NEW j \in i + 1 .. Len(l) + 1
  PROVE  /\ \A k \in 0 .. i : Node(Skip(l, i, j), k) = Node(l, k)
         /\ \A k \in i + 1 .. Len(l) - (j - i - 1) + 1 :
               Node(Skip(l, i, j), k) = Node(l, k + (j - i - 1))
<1> DEFINE m == Skip(l, i, j)
           gap == j - i - 1
<1>1. /\ m \in Seq(Block)
      /\ Len(m) = Len(l) - gap
      /\ \A k \in 1 .. Len(l) - gap :
            m[k] = IF k <= i THEN l[k] ELSE l[k + gap]
  BY SkipElements
<1>2. gap \in 0 .. Len(l) - i
  OBVIOUS
<1> HIDE DEF m, gap
<1>3. ASSUME NEW k \in 0 .. i PROVE Node(m, k) = Node(l, k)
  <2>1. CASE k = 0
    BY <2>1 DEF Node
  <2>2. CASE k # 0
    <3>1. k # Len(m) + 1 /\ k # Len(l) + 1 /\ k <= i /\ k \in 1 .. Len(l) - gap
      BY <1>1, <1>2, <2>2
    <3>2. m[k] = l[k]
      BY <1>1, <3>1
    <3> QED BY <2>2, <3>1, <3>2 DEF Node
  <2> QED BY <2>1, <2>2
<1>4. ASSUME NEW k \in i + 1 .. Len(l) - gap + 1
      PROVE  Node(m, k) = Node(l, k + gap)
  <2>1. CASE k = Len(l) - gap + 1
    <3>1. k # 0 /\ k = Len(m) + 1 /\ k + gap # 0 /\ k + gap = Len(l) + 1
      BY <1>1, <1>2, <2>1
    <3> QED BY <3>1 DEF Node
  <2>2. CASE k # Len(l) - gap + 1
    <3>1. /\ k # 0 /\ k # Len(m) + 1 /\ k + gap # 0 /\ k + gap # Len(l) + 1
          /\ k \in 1 .. Len(l) - gap /\ ~(k <= i)
      BY <1>1, <1>2, <2>2
    <3>2. m[k] = l[k + gap]
      BY <1>1, <3>1
    <3> QED BY <3>1, <3>2 DEF Node
  <2> QED BY <2>1, <2>2
<1> QED BY <1>3, <1>4 DEF m, gap

(* Only the ends of two nodes matter to their order. *)
Before(a, b) == a.address + a.size + Header <= b.address

(* Lying before another block, header included, is transitive. *)
LEMMA BeforeTransitive ==
  ASSUME NEW a \in Block, NEW b \in Block, NEW c \in Block,
         Before(a, b), Before(b, c)
  PROVE  Before(a, c)
  BY BlockFields, HeapAssumption DEF Before

(* Any two nodes of an ordered chain lie one before the other. *)
LEMMA OrderedBefore ==
  ASSUME NEW l
  PROVE  Ordered(l) <=> \A i, j \in 0 .. Len(l) + 1 :
                          i < j => Before(Node(l, i), Node(l, j))
  BY DEF Ordered, Before

(* A block put into the gap behind position i, with room for a header on   *)
(* both sides, keeps the chain ordered.                                    *)
LEMMA LinkedOrdered ==
  ASSUME NEW l \in Seq(Block), Ordered(l), NEW b \in Block,
         NEW i \in 0 .. Len(l),
         b.address = Node(l, i).address + Node(l, i).size + Header,
         b.address + b.size + Header <= Node(l, i + 1).address
  PROVE  Ordered(Linked(l, i, b))
<1> DEFINE m == Linked(l, i, b)
<1>1. Len(m) = Len(l) + 1
  BY LinkedElements
<1>2. /\ \A k \in 0 .. i : Node(m, k) = Node(l, k)
      /\ Node(m, i + 1) = b
      /\ \A k \in i + 2 .. Len(l) + 2 : Node(m, k) = Node(l, k - 1)
  BY LinkedNodes
<1>3. \A p, q \in 0 .. Len(l) + 1 : p < q => Before(Node(l, p), Node(l, q))
  BY OrderedBefore
<1> HIDE DEF m
<1>4. ASSUME NEW k \in 0 .. i PROVE Before(Node(l, k), b)
  <2>1. Node(l, k) \in Block /\ Node(l, i) \in Block
    BY NodeType
  <2>2. CASE k = i
    BY <2>1, <2>2, BlockFields DEF Before
  <2>3. CASE k < i
    <3>1. Before(Node(l, k), Node(l, i))
      BY <1>3, <2>3
    <3>2. /\ Node(l, k).address \in Nat /\ Node(l, k).size \in Nat
          /\ Node(l, i).address \in Nat /\ Node(l, i).size \in Nat
      BY <2>1, BlockFields
    <3> QED BY <3>1, <3>2, HeapAssumption DEF Before
  <2> QED BY <2>2, <2>3
<1>5. ASSUME NEW k \in i + 1 .. Len(l) + 1 PROVE Before(b, Node(l, k))
  <2>1. Node(l, k) \in Block /\ Node(l, i + 1) \in Block
    BY NodeType
  <2>2. Before(b, Node(l, i + 1))
    BY DEF Before
  <2>3. CASE i + 1 < k
    BY <1>3, <2>1, <2>2, <2>3, BeforeTransitive
  <2> QED BY <2>2, <2>3
<1>6. ASSUME NEW p \in 0 .. Len(m) + 1, NEW q \in 0 .. Len(m) + 1, p < q
      PROVE  Before(Node(m, p), Node(m, q))
  <2>1. CASE q <= i
    BY <1>2, <1>3, <1>6, <2>1
  <2>2. CASE q = i + 1
    BY <1>2, <1>4, <1>6, <2>2
  <2>3. CASE q > i + 1 /\ p <= i
    <3>1. /\ Node(m, p) = Node(l, p)
          /\ Node(m, q) = Node(l, q - 1)
          /\ p \in 0 .. Len(l) + 1 /\ q - 1 \in 0 .. Len(l) + 1 /\ p < q - 1
      BY <1>1, <1>2, <1>6, <2>3
    <3> QED BY <1>3, <3>1
  <2>4. CASE q > i + 1 /\ p = i + 1
    BY <1>1, <1>2, <1>5, <1>6, <2>4
  <2>5. CASE q > i + 1 /\ p > i + 1
    <3>1. /\ Node(m, p) = Node(l, p - 1)
          /\ Node(m, q) = Node(l, q - 1)
          /\ p - 1 \in 0 .. Len(l) + 1 /\ q - 1 \in 0 .. Len(l) + 1
          /\ p - 1 < q - 1
      BY <1>1, <1>2, <1>6, <2>5
    <3> QED BY <1>3, <3>1
  <2> QED BY <1>6, <2>1, <2>2, <2>3, <2>4, <2>5
<1> QED BY <1>6, OrderedBefore DEF m

(* Dropping blocks keeps a chain ordered. *)
LEMMA SkipOrdered ==
  ASSUME NEW l \in Seq(Block), Ordered(l), NEW i \in 0 .. Len(l),
         NEW j \in i + 1 .. Len(l) + 1
  PROVE  Ordered(Skip(l, i, j))
<1> DEFINE m == Skip(l, i, j)
           gap == j - i - 1
           old(k) == IF k <= i THEN k ELSE k + gap
<1>1. Len(m) = Len(l) - gap
  BY SkipElements
<1>2. gap \in 0 .. Len(l) - i
  OBVIOUS
<1>3. /\ \A k \in 0 .. i : Node(m, k) = Node(l, k)
      /\ \A k \in i + 1 .. Len(l) - gap + 1 : Node(m, k) = Node(l, k + gap)
  BY SkipNodes
<1>4. \A p, q \in 0 .. Len(l) + 1 : p < q => Before(Node(l, p), Node(l, q))
  BY OrderedBefore
<1> HIDE DEF m, gap
<1>5. ASSUME NEW k \in 0 .. Len(m) + 1
      PROVE  old(k) \in 0 .. Len(l) + 1 /\ Node(m, k) = Node(l, old(k))
  BY <1>1, <1>2, <1>3
<1>6. ASSUME NEW p \in 0 .. Len(m) + 1, NEW q \in 0 .. Len(m) + 1, p < q
      PROVE  Before(Node(m, p), Node(m, q))
  <2>1. old(p) < old(q)
    BY <1>2, <1>6
  <2> HIDE DEF old
  <2> QED BY <1>4, <1>5, <2>1
<1> QED BY <1>6, OrderedBefore DEF m

(* Dropping blocks keeps what was asked for within what is recorded. *)
LEMMA SkipSizes ==
  ASSUME NEW l \in Seq(Block), SizesCover(l), NEW i \in 0 .. Len(l),
         NEW j \in i + 1 .. Len(l) + 1
  PROVE  SizesCover(Skip(l, i, j))
<1> DEFINE m == Skip(l, i, j)
           gap == j - i - 1
<1>1. /\ m \in Seq(Block)
      /\ Len(m) = Len(l) - gap
      /\ \A k \in 1 .. Len(l) - gap : m[k] = IF k <= i THEN l[k] ELSE l[k + gap]
  BY SkipElements
<1>2. gap \in 0 .. Len(l) - i
  OBVIOUS
<1> HIDE DEF m, gap
<1>3. ASSUME NEW k \in 1 .. Len(m)
      PROVE  \E h \in 1 .. Len(l) : m[k] = l[h]
  <2>1. CASE k <= i
    BY <1>1, <1>2, <2>1
  <2>2. CASE k > i
    <3>1. k + gap \in 1 .. Len(l) /\ m[k] = l[k + gap]
      BY <1>1, <1>2, <2>2
    <3> QED BY <3>1
  <2> QED BY <2>1, <2>2
<1> QED BY <1>3 DEF SizesCover, m

(* Linking a block that records enough does so too. *)
LEMMA LinkedSizes ==
  ASSUME NEW l \in Seq(Block), SizesCover(l), NEW i \in 0 .. Len(l),
         NEW b \in Block
  PROVE  b.o_size <= b.size => SizesCover(Linked(l, i, b))
<1> DEFINE m == Linked(l, i, b)
<1>1. /\ m \in Seq(Block)
      /\ Len(m) = Len(l) + 1
      /\ \A j \in 1 .. Len(l) + 1 :
            m[j] = IF j <= i THEN l[j]
                   ELSE IF j = i + 1 THEN b ELSE l[j - 1]
  BY LinkedElements
<1> HAVE b.o_size <= b.size
<1> HIDE DEF m
<1>2. ASSUME NEW k \in 1 .. Len(m)
      PROVE  m[k].o_size <= m[k].size
  <2>1. CASE k <= i
    <3>1. k \in 1 .. Len(l) /\ m[k] = l[k]
      BY <1>1, <2>1
    <3> QED BY <3>1 DEF SizesCover
  <2>2. CASE k = i + 1
    BY <1>1, <2>2
  <2>3. CASE k > i + 1
    <3>1. k - 1 \in 1 .. Len(l) /\ m[k] = l[k - 1]
      BY <1>1, <2>3
    <3> QED BY <3>1 DEF SizesCover
  <2> QED BY <2>1, <2>2, <2>3
<1> QED BY <1>2 DEF SizesCover, m

-----------------------------------------------------------------------------
(* BYTE_ALIGN rounds up and by less than 16, unless the sum wraps. *)
LEMMA ByteAlignBounds ==
  ASSUME NEW n \in Nat, n + 15 < Word
  PROVE  /\ BYTE_ALIGN(n) \in Nat
         /\ n <= BYTE_ALIGN(n)
         /\ BYTE_ALIGN(n) <= n + 15
  BY HeapAssumption DEF BYTE_ALIGN, Add

(* Every node of an ordered chain ends inside the heap. *)
LEMMA NodeInHeap ==
  ASSUME NEW l \in Seq(Block), Ordered(l), NEW i \in 0 .. Len(l)
  PROVE  /\ Node(l, i).address \in Nat
         /\ Node(l, i).size \in Nat
         /\ Node(l, i).address + Node(l, i).size + Header <= HeapStart + HeapSize
         /\ Node(l, i).address >= HeapStart
         /\ Node(l, i + 1).address \in Nat
<1>1. Node(l, i) \in Block /\ Node(l, i + 1) \in Block
  BY NodeType
<1>2. Node(l, Len(l) + 1).address = HeapStart + HeapSize
  BY DEF Node, boot_heap_tail
<1>3. Node(l, i).address + Node(l, i).size + Header <= Node(l, Len(l) + 1).address
  BY DEF Ordered
<1>4. Node(l, 0) = boot_heap_head
  BY DEF Node
<1>5. CASE i = 0
  BY <1>1, <1>2, <1>3, <1>4, <1>5, BlockFields, HeapAssumption DEF boot_heap_head
<1>6. CASE i # 0
  <2>1. HeapStart + 0 + Header <= Node(l, i).address
    <3>1. Node(l, 0).address + Node(l, 0).size + Header <= Node(l, i).address
      BY <1>6 DEF Ordered
    <3> QED BY <1>4, <3>1 DEF boot_heap_head
  <2> QED BY <1>1, <1>2, <1>3, <2>1, BlockFields, HeapAssumption
<1> QED BY <1>5, <1>6

(* A gap that passes the test of the search loop has the room it asks for. *)
LEMMA FitsRoom ==
  ASSUME NEW l \in Seq(Block), Ordered(l), NEW i \in 0 .. Len(l),
         NEW a \in Nat, HeapStart + HeapSize + 2 * Header + a < Word,
         Fits(l, i, a)
  PROVE  Node(l, i).address + Node(l, i).size + 2 * Header + a
           <= Node(l, i + 1).address
<1> DEFINE s == Node(l, i).address
           z == Node(l, i).size
<1>1. s \in Nat /\ z \in Nat /\ s + z + Header <= HeapStart + HeapSize
  BY NodeInHeap
<1>2. Node(l, i + 1).address >= Add(Add(s, z), Add(2 * Header, a))
  BY DEF Fits
<1> HIDE DEF s, z
<1>3. Add(s, z) = s + z /\ Add(2 * Header, a) = 2 * Header + a
  BY <1>1, HeapAssumption DEF Add
<1>4. Add(s + z, 2 * Header + a) = s + z + 2 * Header + a
  BY <1>1, HeapAssumption DEF Add
<1> QED BY <1>2, <1>3, <1>4 DEF s, z

(* What smalloc links into the chain when it finds a gap. *)
LEMMA SmallocLinks ==
  ASSUME NEW l \in Seq(Block), Ordered(l), SizesCover(l),
         NEW i \in 0 .. Len(l), NEW n \in Nat,
         HeapStart + HeapSize + 2 * Header + n + 15 < Word,
         Fits(l, i, BYTE_ALIGN(n))
  PROVE  /\ NewBlock(l, i, n) \in Block
         /\ NewBlock(l, i, n).address \in Nat
         /\ n <= NewBlock(l, i, n).size
         /\ Linked(l, i, NewBlock(l, i, n)) \in Seq(Block)
         /\ Ordered(Linked(l, i, NewBlock(l, i, n)))
         /\ SizesCover(Linked(l, i, NewBlock(l, i, n)))
<1> DEFINE b == NewBlock(l, i, n)
           s == Node(l, i).address
           z == Node(l, i).size
           a == BYTE_ALIGN(n)
<1>1. a \in Nat /\ n <= a /\ a <= n + 15
  BY ByteAlignBounds, HeapAssumption
<1>2. s \in Nat /\ z \in Nat
  BY NodeInHeap
<1>3. s + z + 2 * Header + a <= Node(l, i + 1).address
  <2> HIDE DEF a
  <2>1. HeapStart + HeapSize + 2 * Header + a < Word
    BY <1>1, HeapAssumption
  <2> QED BY <1>1, <2>1, FitsRoom DEF a
<1>4. b.address = s + z + Header /\ b.size = a /\ b.o_size = n
  BY DEF NewBlock
<1>5. b \in Block
  BY <1>1, <1>2, HeapAssumption DEF NewBlock, Block
<1> HIDE DEF b, a
<1>6. b.address + b.size + Header <= Node(l, i + 1).address
  BY <1>1, <1>2, <1>3, <1>4, HeapAssumption
<1>7. Linked(l, i, b) \in Seq(Block)
  BY <1>5, LinkedElements
<1>8. Ordered(Linked(l, i, b))
  BY <1>4, <1>5, <1>6, LinkedOrdered
<1>9. SizesCover(Linked(l, i, b))
  BY <1>1, <1>4, <1>5, LinkedSizes
<1> QED BY <1>1, <1>4, <1>5, <1>7, <1>8, <1>9, BlockFields DEF b

(* srealloc enlarges the block at position i where it is. *)
LEMMA GrowOrdered ==
  ASSUME NEW l \in Seq(Block), Ordered(l), NEW i \in 1 .. Len(l),
         NEW b \in Block, b.address = l[i].address,
         b.address + b.size + Header <= Node(l, i + 1).address
  PROVE  Ordered([l EXCEPT ![i] = b])
<1> DEFINE m == [l EXCEPT ![i] = b]
<1>1. m \in Seq(Block) /\ Len(m) = Len(l)
  OBVIOUS
<1>2. \A k \in 0 .. Len(l) + 1 : Node(m, k) = IF k = i THEN b ELSE Node(l, k)
  BY <1>1 DEF Node
<1>3. Node(l, i) = l[i]
  BY DEF Node
<1>4. \A p, q \in 0 .. Len(l) + 1 : p < q => Before(Node(l, p), Node(l, q))
  BY OrderedBefore
<1> HIDE DEF m
<1>5. ASSUME NEW p \in 0 .. Len(m) + 1, NEW q \in 0 .. Len(m) + 1, p < q
      PROVE  Before(Node(m, p), Node(m, q))
  <2>1. CASE p # i /\ q # i
    BY <1>1, <1>2, <1>4, <1>5, <2>1
  <2>2. CASE q = i
    BY <1>1, <1>2, <1>3, <1>4, <1>5, <2>2 DEF Before
  <2>3. CASE p = i
    <3>1. /\ Node(m, p) = b
          /\ Node(m, q) = Node(l, q)
          /\ q \in i + 1 .. Len(l) + 1 /\ i + 1 \in 0 .. Len(l) + 1
      BY <1>1, <1>2, <1>5, <2>3
    <3>2. Before(b, Node(l, i + 1))
      BY DEF Before
    <3>3. CASE q = i + 1
      BY <3>1, <3>2, <3>3
    <3>4. CASE i + 1 < q
      <4>1. Before(Node(l, i + 1), Node(l, q))
        BY <1>4, <3>1, <3>4
      <4>2. Node(l, i + 1) \in Block /\ Node(l, q) \in Block
        BY <3>1, NodeType
      <4> QED BY <3>1, <3>2, <4>1, <4>2, BeforeTransitive
    <3> QED BY <3>1, <3>3, <3>4
  <2> QED BY <2>1, <2>2, <2>3
<1> QED BY <1>5, OrderedBefore DEF m

(* A holding added to or taken from a map of holdings leaves one. *)
LEMMA HeldTypes ==
  ASSUME NEW h, h \in [DOMAIN h -> Nat], DOMAIN h \subseteq Nat,
         NEW p, NEW n \in Nat
  PROVE  /\ Dropping(h, p) \in [DOMAIN Dropping(h, p) -> Nat]
         /\ DOMAIN Dropping(h, p) \subseteq Nat
         /\ p \in Nat => /\ Holding(h, p, n) \in [DOMAIN Holding(h, p, n) -> Nat]
                        /\ DOMAIN Holding(h, p, n) \subseteq Nat
  BY DEF Dropping, Holding

-----------------------------------------------------------------------------
(* smalloc_init leaves an ordered, empty chain. *)
LEMMA InitChain == Init => ChainInv
<1> SUFFICES ASSUME Init PROVE ChainInv
  OBVIOUS
<1>1. list \in Seq(Block) /\ Len(list) = 0
  BY EmptySeq DEF Init
<1>2. TypeOK
  BY <1>1 DEF Init, TypeOK
<1>3. Ordered(list)
  <2>1. ASSUME NEW i \in 0 .. 1, NEW j \in 0 .. 1, i < j
        PROVE  Node(list, i).address + Node(list, i).size + Header
                 <= Node(list, j).address
    <3>1. i = 0 /\ j = 1
      BY <2>1
    <3>2. Node(list, i) = boot_heap_head /\ Node(list, j) = boot_heap_tail
      BY <1>1, <3>1 DEF Node
    <3> QED BY <3>2, HeapAssumption DEF boot_heap_head, boot_heap_tail
  <2> QED BY <1>1, <2>1 DEF Ordered
<1> QED BY <1>1, <1>2, <1>3 DEF ChainInv, SizesCover

(* smalloc keeps the chain. *)
LEMMA AllocChain ==
  ASSUME ChainInv, Alloc
  PROVE  ChainInv'
<1> PICK n \in Requests : smalloc(n)
  BY DEF Alloc
<1>1. n \in Nat /\ HeapStart + HeapSize + 2 * Header + n + 15 < Word
  BY NoWrapAssumption, HeapAssumption
<1>2. CASE UNCHANGED vars
  BY <1>2 DEF ChainInv, TypeOK, vars
<1>3. CASE ~UNCHANGED vars
  <2>1. PICK i \in 0 .. Len(list) :
          /\ FirstFit(list, i, BYTE_ALIGN(n))
          /\ list' = Linked(list, i, NewBlock(list, i, n))
          /\ held' = Holding(held, NewBlock(list, i, n).address, n)
    BY <1>3 DEF smalloc
  <2>2. Fits(list, i, BYTE_ALIGN(n))
    BY <2>1 DEF FirstFit
  <2>3. /\ NewBlock(list, i, n).address \in Nat
        /\ list' \in Seq(Block)
        /\ Ordered(list')
        /\ SizesCover(list')
    BY <1>1, <2>1, <2>2, SmallocLinks DEF ChainInv, TypeOK
  <2>4. held' \in [DOMAIN held' -> Nat] /\ DOMAIN held' \subseteq Nat
    BY <1>1, <2>1, <2>3, HeldTypes DEF ChainInv, TypeOK
  <2> QED BY <2>3, <2>4 DEF ChainInv, TypeOK
<1> QED BY <1>2, <1>3

(* sfree keeps the chain. *)
LEMMA FreeChain ==
  ASSUME ChainInv, Free
  PROVE  ChainInv'
<1> PICK p \in DOMAIN held : sfree(p)
  BY DEF Free
<1>1. held' \in [DOMAIN held' -> Nat] /\ DOMAIN held' \subseteq Nat
  BY HeldTypes DEF sfree, ChainInv, TypeOK
<1>2. CASE UNCHANGED list
  BY <1>1, <1>2 DEF ChainInv, TypeOK
<1>3. CASE ~UNCHANGED list
  <2>1. PICK i \in 1 .. Len(list) : list' = Skip(list, i - 1, i + 1)
    BY <1>3 DEF sfree
  <2>2. list \in Seq(Block) /\ Ordered(list) /\ SizesCover(list)
    BY DEF ChainInv, TypeOK
  <2> Len(list) \in Nat
    BY <2>2, LenProperties
  <2>3. i - 1 \in 0 .. Len(list) /\ i + 1 \in (i - 1) + 1 .. Len(list) + 1
    BY <2>2, LenProperties
  <2>4. list' \in Seq(Block) /\ Ordered(list') /\ SizesCover(list')
    BY <2>1, <2>2, <2>3, SkipElements, SkipOrdered, SkipSizes
  <2> QED BY <1>1, <2>4 DEF ChainInv, TypeOK
<1> QED BY <1>2, <1>3

(* The block asked to grow and the rounded size it grows to. *)
LEMMA GrowBounds ==
  ASSUME ChainInv, NEW i \in 1 .. Len(list), NEW n \in Requests
  PROVE  /\ list[i] \in Block
         /\ Add(list[i].o_size, n) = list[i].o_size + n
         /\ BYTE_ALIGN(list[i].o_size + n) \in Nat
         /\ list[i].o_size + n <= BYTE_ALIGN(list[i].o_size + n)
         /\ list[i].address + BYTE_ALIGN(list[i].o_size + n) + 2 * Header < Word
         /\ HeapStart + HeapSize + 2 * Header
               + BYTE_ALIGN(list[i].o_size + n) + 15 < Word
<1>1. list \in Seq(Block) /\ Ordered(list) /\ SizesCover(list)
  BY DEF ChainInv, TypeOK
<1>2. list[i] \in Block
  BY <1>1, ElementOfSeq
<1>3. Node(list, i) = list[i]
  BY <1>1 DEF Node
<1>4. /\ list[i].address + list[i].size + Header <= HeapStart + HeapSize
      /\ list[i].address >= HeapStart
  BY <1>1, <1>3, NodeInHeap
<1>5. list[i].o_size <= list[i].size
  BY <1>1 DEF SizesCover
<1> DEFINE o == list[i].o_size
<1>6. /\ list[i].address \in Nat /\ list[i].size \in Nat /\ o \in Nat
  BY <1>2, BlockFields
<1>7. n \in Nat /\ HeapStart + 2 * HeapSize + 2 * Header + n + 64 < Word
  BY NoWrapAssumption, HeapAssumption
<1> HIDE DEF o
<1>8. o <= HeapSize
  BY <1>4, <1>5, <1>6, HeapAssumption DEF o
<1>9. o + n + 15 < Word /\ o + n \in Nat
  <2>1. HeapStart \in Nat /\ HeapSize \in Nat /\ Header \in Nat /\ Word \in Nat
    BY HeapAssumption
  <2> QED BY <1>6, <1>7, <1>8, <2>1
<1>10. /\ BYTE_ALIGN(o + n) \in Nat
       /\ o + n <= BYTE_ALIGN(o + n)
       /\ BYTE_ALIGN(o + n) <= o + n + 15
  BY <1>9, ByteAlignBounds
<1>11. Add(o, n) = o + n
  BY <1>9, <1>6, <1>7, HeapAssumption DEF Add
<1> DEFINE a == BYTE_ALIGN(o + n)
           s == list[i].address
<1>12. /\ a \in Nat /\ a <= o + n + 15
       /\ s \in Nat /\ s <= HeapStart + HeapSize
  BY <1>4, <1>6, <1>10, HeapAssumption
<1> HIDE DEF a, s
<1>13. /\ s + a + 2 * Header < Word
       /\ HeapStart + HeapSize + 2 * Header + a + 15 < Word
  BY <1>6, <1>7, <1>8, <1>12, HeapAssumption
<1> QED BY <1>2, <1>10, <1>11, <1>13 DEF o, a, s

(* srealloc keeps the chain when it moves the block. *)
LEMMA MoveChain ==
  ASSUME ChainInv, NEW i \in 1 .. Len(list), NEW k \in 0 .. Len(list),
         NEW n \in Requests, NEW p \in DOMAIN held,
         Move(i, k, p, BYTE_ALIGN(list[i].o_size + n), n)
  PROVE  ChainInv'
<1> DEFINE a == BYTE_ALIGN(list[i].o_size + n)
           l == Linked(list, k, NewBlock(list, k, a))
           prev == IF k < i - 1 THEN i ELSE i - 1
           ptr == IF k < i THEN i + 1 ELSE i
<1>1. a \in Nat /\ HeapStart + HeapSize + 2 * Header + a + 15 < Word
  BY GrowBounds
<1>2. list \in Seq(Block) /\ Ordered(list) /\ SizesCover(list)
  BY DEF ChainInv, TypeOK
<1> HIDE DEF a
<1>3. Fits(list, k, BYTE_ALIGN(a))
  BY DEF Move, FirstFit, a
<1>4. /\ NewBlock(list, k, a).address \in Nat
      /\ l \in Seq(Block) /\ Ordered(l) /\ SizesCover(l)
  BY <1>1, <1>2, <1>3, SmallocLinks
<1>5. list' = Skip(l, prev, ptr + 1)
  BY DEF Move, a
<1>6. held' = Holding(Dropping(held, p), NewBlock(list, k, a).address, n)
  BY DEF Move, a
<1>7. Len(l) = Len(list) + 1
  <2>1. NewBlock(list, k, a) \in Block
    BY <1>1, <1>2, <1>3, SmallocLinks
  <2> QED BY <1>2, <2>1, LinkedElements
<1> HIDE DEF l
<1>8. prev \in 0 .. Len(l) /\ ptr + 1 \in prev + 1 .. Len(l) + 1
  BY <1>2, <1>7, LenProperties
<1>9. list' \in Seq(Block) /\ Ordered(list') /\ SizesCover(list')
  <2> HIDE DEF prev, ptr
  <2> QED BY <1>4, <1>5, <1>8, SkipElements, SkipOrdered, SkipSizes
<1>10. held' \in [DOMAIN held' -> Nat] /\ DOMAIN held' \subseteq Nat
  <2>1. n \in Nat
    BY HeapAssumption
  <2>2. held \in [DOMAIN held -> Nat] /\ DOMAIN held \subseteq Nat
    BY DEF ChainInv, TypeOK
  <2> DEFINE h == Dropping(held, p)
  <2>3. h \in [DOMAIN h -> Nat] /\ DOMAIN h \subseteq Nat
    BY <2>1, <2>2, HeldTypes
  <2> HIDE DEF h
  <2>4. held' = Holding(h, NewBlock(list, k, a).address, n)
    BY <1>6 DEF h
  <2> QED BY <1>4, <2>1, <2>3, <2>4, HeldTypes
<1> QED BY <1>9, <1>10 DEF ChainInv, TypeOK

(* srealloc keeps the chain, whichever way it takes. *)
LEMMA ReallocChain ==
  ASSUME ChainInv, Realloc
  PROVE  ChainInv'
<1> PICK p \in DOMAIN held, n \in Requests : srealloc(p, n)
  BY DEF Realloc
<1>1. CASE UNCHANGED vars
  BY <1>1 DEF ChainInv, TypeOK, vars
<1>2. CASE ~UNCHANGED vars
  <2>1. PICK i \in 1 .. Len(list) : Grow(i, p, n)
    BY <1>2 DEF srealloc
  <2> DEFINE o == list[i].o_size
             a == BYTE_ALIGN(o + n)
             b == [address |-> list[i].address, size |-> a, o_size |-> o + n]
  <2>2. /\ list[i] \in Block
        /\ Add(o, n) = o + n
        /\ a \in Nat /\ o + n <= a
        /\ list[i].address + a + 2 * Header < Word
    BY GrowBounds
  <2>3. n \in Nat /\ list \in Seq(Block) /\ Ordered(list) /\ SizesCover(list)
    BY HeapAssumption DEF ChainInv, TypeOK
  <2>4. [held EXCEPT ![p] = n] \in [DOMAIN held -> Nat]
    BY <2>3 DEF ChainInv, TypeOK
  <2>5. CASE a = list[i].size /\ held' = [held EXCEPT ![p] = n] /\ UNCHANGED list
    BY <2>4, <2>5 DEF ChainInv, TypeOK
  <2>6. CASE /\ Node(list, i + 1).address >= Add(list[i].address, Add(a, 2 * Header))
             /\ list' = [list EXCEPT ![i] = b]
             /\ held' = [held EXCEPT ![p] = n]
    <3> DEFINE s == list[i].address
    <3>1. s \in Nat /\ o \in Nat /\ a \in Nat /\ s + a + 2 * Header < Word
      BY <2>2, BlockFields
    <3> HIDE DEF a, s
    <3>2. Add(s, Add(a, 2 * Header)) = s + a + 2 * Header
      BY <3>1, HeapAssumption DEF Add
    <3>3. b \in Block
      <4>1. o + n \in Nat /\ list[i].address \in Nat
        BY <2>3, <3>1 DEF s
      <4> HIDE DEF o
      <4> QED BY <3>1, <4>1 DEF Block
    <3>4. b.address + b.size + Header <= Node(list, i + 1).address
      <4>1. Node(list, i + 1).address \in Nat
        BY <2>3, NodeInHeap
      <4>2. b.address = s /\ b.size = a
        BY DEF s
      <4>3. Node(list, i + 1).address >= s + a + 2 * Header
        BY <2>6, <3>2 DEF s
      <4>4. Header \in Nat
        BY HeapAssumption
      <4> HIDE DEF b
      <4> QED BY <3>1, <4>1, <4>2, <4>3, <4>4
    <3>5. Ordered(list')
      BY <2>3, <2>6, <3>3, <3>4, GrowOrdered
    <3>6. list' \in Seq(Block) /\ Len(list') = Len(list)
      BY <2>3, <2>6, <3>3
    <3>7. SizesCover(list')
      <4>1. ASSUME NEW j \in 1 .. Len(list)
            PROVE  list'[j].o_size <= list'[j].size
        <5>1. CASE j = i
          BY <2>2, <2>3, <2>6, <5>1
        <5>2. CASE j # i
          BY <2>3, <2>6, <5>2 DEF SizesCover
        <5> QED BY <5>1, <5>2
      <4> QED BY <3>6, <4>1 DEF SizesCover
    <3> QED BY <2>4, <2>6, <3>5, <3>6, <3>7 DEF ChainInv, TypeOK
  <2>7. CASE \E k \in 0 .. Len(list) : Move(i, k, p, a, n)
    BY <2>7, MoveChain
  <2> QED BY <1>2, <2>1, <2>2, <2>5, <2>6, <2>7 DEF Grow
<1> QED BY <1>1, <1>2

-----------------------------------------------------------------------------
(* Under the whole interface of smalloc.h, srealloc included, for every    *)
(* heap and every set of requests: the chain is well typed.                *)
LEMMA ReallocChainInv == ReallocSpec => []ChainInv
<1>1. Init => ChainInv
  BY InitChain
<1>2. ChainInv /\ [ReallocNext]_vars => ChainInv'
  <2> SUFFICES ASSUME ChainInv, [ReallocNext]_vars PROVE ChainInv'
    OBVIOUS
  <2>1. CASE Alloc
    BY <2>1, AllocChain
  <2>2. CASE Free
    BY <2>2, FreeChain
  <2>3. CASE Realloc
    BY <2>3, ReallocChain
  <2>4. CASE UNCHANGED vars
    BY <2>4 DEF ChainInv, TypeOK, vars
  <2> QED BY <2>1, <2>2, <2>3, <2>4 DEF ReallocNext, Next
<1> QED BY <1>1, <1>2, PTL DEF ReallocSpec

(* The state of the allocator stays well typed, srealloc included. *)
THEOREM ReallocTypeCorrect == ReallocSpec => []TypeOK
<1>1. ChainInv => TypeOK
  BY DEF ChainInv
<1> QED BY <1>1, ReallocChainInv, PTL

(* Under the whole interface of smalloc.h the blocks on the chain lie in   *)
(* address order inside the heap and none reaches into the next header:    *)
(* a block on the chain, filled with its data, overwrites no header that   *)
(* the loops of smalloc, srealloc and sfree will read.                     *)
THEOREM ReallocChainOrdered == ReallocSpec => []ChainOrdered
<1>1. ChainInv => ChainOrdered
  BY DEF ChainInv, Ordered, ChainOrdered
<1> QED BY <1>1, ReallocChainInv, PTL

-----------------------------------------------------------------------------
(* Without srealloc, as the firmware runs it, the chain and the callers    *)
(* agree on what is allocated.                                             *)
HeapInv ==
  /\ ChainInv
  /\ HeldListed

(* Two blocks on an ordered chain never meet. *)
LEMMA ListedApart ==
  ASSUME ChainInv, NEW i \in 1 .. Len(list), NEW j \in 1 .. Len(list), i # j
  PROVE  \/ list[i].address + list[i].size + Header <= list[j].address
         \/ list[j].address + list[j].size + Header <= list[i].address
<1>1. list \in Seq(Block) /\ Ordered(list)
  BY DEF ChainInv, TypeOK
<1>2. Node(list, i) = list[i] /\ Node(list, j) = list[j]
  BY <1>1 DEF Node
<1>3. i < j \/ j < i
  OBVIOUS
<1> QED BY <1>1, <1>2, <1>3 DEF Ordered

(* Holdings on an ordered chain do not meet. *)
LEMMA DisjointHoldings == HeapInv => HeldDisjoint
<1> SUFFICES ASSUME HeapInv, NEW p \in DOMAIN held, NEW q \in DOMAIN held, p < q
             PROVE  p + held[p] + Header <= q
  BY DEF HeldDisjoint
<1>1. PICK i \in 1 .. Len(list) : list[i].address = p /\ list[i].size >= held[p]
  BY DEF HeapInv, HeldListed
<1>2. PICK j \in 1 .. Len(list) : list[j].address = q /\ list[j].size >= held[q]
  BY DEF HeapInv, HeldListed
<1>3. /\ p \in Nat /\ q \in Nat /\ held[p] \in Nat /\ held[q] \in Nat
      /\ list \in Seq(Block)
  BY DEF HeapInv, ChainInv, TypeOK
<1>4. list[i].size \in Nat /\ list[j].size \in Nat
  BY <1>3, ElementOfSeq, BlockFields
<1>5. i # j
  BY <1>1, <1>2, <1>3
<1>6. \/ p + list[i].size + Header <= q
      \/ q + list[j].size + Header <= p
  BY <1>1, <1>2, <1>5, ListedApart DEF HeapInv
<1> QED BY <1>1, <1>2, <1>3, <1>4, <1>6, HeapAssumption

(* smalloc puts the block it returns on the chain and leaves the others. *)
LEMMA AllocListed ==
  ASSUME HeapInv, NEW n \in Requests, NEW i \in 0 .. Len(list),
         FirstFit(list, i, BYTE_ALIGN(n)),
         list' = Linked(list, i, NewBlock(list, i, n)),
         held' = Holding(held, NewBlock(list, i, n).address, n)
  PROVE  HeldListed'
<1> DEFINE b == NewBlock(list, i, n)
<1>1. n \in Nat /\ HeapStart + HeapSize + 2 * Header + n + 15 < Word
  BY NoWrapAssumption, HeapAssumption
<1>2. list \in Seq(Block) /\ Ordered(list) /\ SizesCover(list)
  BY DEF HeapInv, ChainInv, TypeOK
<1>3. b \in Block /\ n <= b.size
  BY <1>1, <1>2, SmallocLinks DEF FirstFit
<1> HIDE DEF b
<1>4. /\ Len(list') = Len(list) + 1
      /\ \A j \in 1 .. Len(list) + 1 :
           list'[j] = IF j <= i THEN list[j] ELSE IF j = i + 1 THEN b ELSE list[j - 1]
  BY <1>2, <1>3, LinkedElements DEF b
<1>5. ASSUME NEW p \in DOMAIN held'
      PROVE  \E k \in 1 .. Len(list') :
                list'[k].address = p /\ list'[k].size >= held'[p]
  <2>1. CASE p = b.address
    <3>1. held'[p] = n /\ i + 1 \in 1 .. Len(list') /\ list'[i + 1] = b
      BY <1>2, <1>4, <2>1 DEF Holding, b
    <3>2. b.size \in Nat
      BY <1>3, BlockFields
    <3> QED BY <1>1, <1>3, <2>1, <3>1, <3>2
  <2>2. CASE p # b.address
    <3>1. p \in DOMAIN held /\ held'[p] = held[p]
      BY <2>2, <1>5 DEF Holding, b
    <3>2. PICK j \in 1 .. Len(list) :
             list[j].address = p /\ list[j].size >= held[p]
      BY <3>1 DEF HeapInv, HeldListed
    <3>3. CASE j <= i
      <4>1. j \in 1 .. Len(list') /\ list'[j] = list[j]
        BY <1>4, <3>3
      <4> QED BY <3>1, <3>2, <4>1
    <3>4. CASE j > i
      <4>1. j + 1 \in 1 .. Len(list') /\ list'[j + 1] = list[j]
        BY <1>4, <3>4
      <4> QED BY <3>1, <3>2, <4>1
    <3> QED BY <3>3, <3>4
  <2> QED BY <2>1, <2>2
<1> QED BY <1>5 DEF HeldListed

(* sfree takes the block of its pointer off the chain and no other. *)
LEMMA FreeListed ==
  ASSUME HeapInv, NEW p \in DOMAIN held, sfree(p)
  PROVE  HeldListed'
<1>1. list \in Seq(Block) /\ held' = Dropping(held, p)
  BY DEF HeapInv, ChainInv, TypeOK, sfree
<1>2. CASE UNCHANGED list
  BY <1>1, <1>2 DEF HeapInv, HeldListed, Dropping
<1>3. CASE ~UNCHANGED list
  <2>1. PICK i \in 1 .. Len(list) :
           IsAt(list, i, p) /\ list' = Skip(list, i - 1, i + 1)
    BY <1>3 DEF sfree
  <2> Len(list) \in Nat
    BY <1>1, LenProperties
  <2>2. /\ Len(list') = Len(list) - 1
        /\ \A k \in 1 .. Len(list) - 1 :
             list'[k] = IF k <= i - 1 THEN list[k] ELSE list[k + 1]
    <3>1. /\ i - 1 \in 0 .. Len(list)
          /\ i + 1 \in (i - 1) + 1 .. Len(list) + 1
          /\ (i + 1) - (i - 1) - 1 = 1
      OBVIOUS
    <3> DEFINE x == i - 1
               y == i + 1
    <3>2. /\ x \in 0 .. Len(list)
          /\ y \in x + 1 .. Len(list) + 1
          /\ list' = Skip(list, x, y)
          /\ y - x - 1 = 1
      BY <2>1, <3>1
    <3> HIDE DEF x, y
    <3>3. /\ Len(list') = Len(list) - (y - x - 1)
          /\ \A k \in 1 .. Len(list) - (y - x - 1) :
               list'[k] = IF k <= x THEN list[k] ELSE list[k + (y - x - 1)]
      BY <1>1, <3>2, SkipElements
    <3> QED BY <3>2, <3>3 DEF x
  <2>3. ASSUME NEW q \in DOMAIN held'
        PROVE  \E k \in 1 .. Len(list') :
                  list'[k].address = q /\ list'[k].size >= held'[q]
    <3>1. q \in DOMAIN held /\ q # p /\ held'[q] = held[q]
      BY <1>1, <2>3 DEF Dropping
    <3>2. PICK j \in 1 .. Len(list) :
             list[j].address = q /\ list[j].size >= held[q]
      BY <3>1 DEF HeapInv, HeldListed
    <3>3. j # i
      BY <2>1, <3>1, <3>2 DEF IsAt
    <3>4. CASE j < i
      <4>1. j \in 1 .. Len(list') /\ list'[j] = list[j]
        BY <2>2, <3>4
      <4> QED BY <3>1, <3>2, <4>1
    <3>5. CASE j > i
      <4>1. j - 1 \in 1 .. Len(list') /\ list'[j - 1] = list[j]
        BY <2>2, <3>5
      <4> QED BY <3>1, <3>2, <4>1
    <3> QED BY <3>3, <3>4, <3>5
  <2> QED BY <2>3 DEF HeldListed
<1> QED BY <1>2, <1>3

(* What a step of smalloc is. *)
LEMMA AllocSteps ==
  ASSUME Alloc
  PROVE  \/ UNCHANGED vars
         \/ \E n \in Requests, i \in 0 .. Len(list) :
              /\ FirstFit(list, i, BYTE_ALIGN(n))
              /\ list' = Linked(list, i, NewBlock(list, i, n))
              /\ held' = Holding(held, NewBlock(list, i, n).address, n)
  BY DEF Alloc, smalloc

(* smalloc and sfree keep the invariant of the heap. *)
LEMMA HeapStep == HeapInv /\ [Next]_vars => HeapInv'
<1> SUFFICES ASSUME HeapInv, [Next]_vars PROVE HeapInv'
  OBVIOUS
<1>1. CASE UNCHANGED vars
  BY <1>1 DEF HeapInv, ChainInv, TypeOK, HeldListed, vars
<1>2. CASE Alloc /\ ~UNCHANGED vars
  <2>1. HeldListed'
    BY <1>2, AllocSteps, AllocListed
  <2> QED BY <1>2, <2>1, AllocChain DEF HeapInv
<1>3. CASE Free
  <2>1. HeldListed'
    BY <1>3, FreeListed DEF Free
  <2> QED BY <1>3, <2>1, FreeChain DEF HeapInv
<1> QED BY <1>1, <1>2, <1>3 DEF Next

(* smalloc_init establishes it. *)
LEMMA InitHeap == Init => HeapInv
<1>1. Init => HeldListed
  BY DEF Init, HeldListed
<1> QED BY <1>1, InitChain DEF HeapInv

(* The invariant of the heap without srealloc. *)
LEMMA HeapInvariant == Spec => []HeapInv
  BY InitHeap, HeapStep, PTL DEF Spec

(* With smalloc and sfree, every block a caller holds stays on the chain   *)
(* with at least the size asked for, whatever the order of the calls.      *)
THEOREM SpecHeldListed == Spec => []HeldListed
<1>1. HeapInv => HeldListed
  BY DEF HeapInv
<1> QED BY <1>1, HeapInvariant, PTL

(* With smalloc and sfree, no two callers ever hold memory that meets, the *)
(* headers of their blocks included.                                       *)
THEOREM SpecHeldDisjoint == Spec => []HeldDisjoint
  BY DisjointHoldings, HeapInvariant, PTL

-----------------------------------------------------------------------------
(* With srealloc a holding may be off the chain; it is in the heap all the *)
(* same, since it was on it when it was handed out.                        *)
InHeap(p, n) ==
  /\ HeapStart + Header <= p
  /\ p + n + Header <= HeapStart + HeapSize

(* What is asked of a block on an ordered chain lies in the heap. *)
LEMMA ListedInHeap ==
  ASSUME NEW l \in Seq(Block), Ordered(l), NEW i \in 1 .. Len(l),
         NEW n \in Nat, n <= l[i].size
  PROVE  InHeap(l[i].address, n)
<1>1. Node(l, i) = l[i] /\ Node(l, 0) = boot_heap_head /\ l[i] \in Block
  BY DEF Node
<1>2. l[i].address + l[i].size + Header <= HeapStart + HeapSize
  BY <1>1, NodeInHeap
<1>3. Node(l, 0).address + Node(l, 0).size + Header <= l[i].address
  BY <1>1 DEF Ordered
<1>4. HeapStart + 0 + Header <= l[i].address
  BY <1>1, <1>3 DEF boot_heap_head
<1> QED BY <1>1, <1>2, <1>4, BlockFields, HeapAssumption DEF InHeap

(* So does a block that smalloc has just linked.                           *)
LEMMA NewInHeap ==
  ASSUME NEW l \in Seq(Block), Ordered(l), SizesCover(l),
         NEW i \in 0 .. Len(l), NEW n \in Nat,
         HeapStart + HeapSize + 2 * Header + n + 15 < Word,
         Fits(l, i, BYTE_ALIGN(n)), NEW m \in Nat, m <= n
  PROVE  InHeap(NewBlock(l, i, n).address, m)
<1> DEFINE b == NewBlock(l, i, n)
           c == Linked(l, i, b)
<1>1. b \in Block /\ n <= b.size /\ c \in Seq(Block) /\ Ordered(c)
  BY SmallocLinks
<1> HIDE DEF b
<1>2. i + 1 \in 1 .. Len(c) /\ c[i + 1] = b
  <2>1. Len(l) \in Nat
    OBVIOUS
  <2>2. /\ Len(c) = Len(l) + 1
        /\ \A j \in 1 .. Len(l) + 1 :
             c[j] = IF j <= i THEN l[j] ELSE IF j = i + 1 THEN b ELSE l[j - 1]
    BY <1>1, LinkedElements
  <2> HIDE DEF c
  <2> QED BY <2>1, <2>2
<1>3. m <= b.size
  BY <1>1, BlockFields
<1> HIDE DEF c
<1>4. InHeap(c[i + 1].address, m)
  BY <1>1, <1>2, <1>3, ListedInHeap
<1> QED BY <1>2, <1>4 DEF b

(* The holdings that remain and the one that is added.                     *)
LEMMA HoldingInHeap ==
  ASSUME NEW h, NEW p, NEW n, InHeap(p, n),
         \A q \in DOMAIN h : InHeap(q, h[q]),
         held' = Holding(h, p, n)
  PROVE  HeldInHeap'
  BY DEF HeldInHeap, Holding, InHeap

(* No call hands out memory outside the heap.                              *)
LEMMA InHeapStep == ChainInv /\ HeldInHeap /\ [ReallocNext]_vars => HeldInHeap'
<1> SUFFICES ASSUME ChainInv, HeldInHeap, [ReallocNext]_vars PROVE HeldInHeap'
  OBVIOUS
<1>1. list \in Seq(Block) /\ Ordered(list) /\ SizesCover(list)
  BY DEF ChainInv, TypeOK
<1>2. \A q \in DOMAIN held : InHeap(q, held[q])
  BY DEF HeldInHeap, InHeap
<1>3. CASE UNCHANGED held
  BY <1>3 DEF HeldInHeap
<1>4. CASE Alloc /\ ~UNCHANGED held
  <2>1. PICK n \in Requests, i \in 0 .. Len(list) :
          /\ Fits(list, i, BYTE_ALIGN(n))
          /\ held' = Holding(held, NewBlock(list, i, n).address, n)
    BY <1>4, AllocSteps DEF vars, FirstFit
  <2>2. n \in Nat /\ HeapStart + HeapSize + 2 * Header + n + 15 < Word
    BY NoWrapAssumption, HeapAssumption
  <2>3. InHeap(NewBlock(list, i, n).address, n)
    BY <1>1, <2>1, <2>2, NewInHeap
  <2> QED BY <1>2, <2>1, <2>3, HoldingInHeap
<1>5. CASE Free
  BY <1>2, <1>5 DEF Free, sfree, Dropping, HeldInHeap, InHeap
<1>6. CASE Realloc /\ ~UNCHANGED held
  <2>1. PICK p \in DOMAIN held, n \in Requests, i \in 1 .. Len(list) :
          list[i].address = p /\ Grow(i, p, n)
    BY <1>6 DEF Realloc, srealloc, IsAt, vars
  <2> DEFINE o == list[i].o_size
             a == BYTE_ALIGN(o + n)
  <2>2. /\ list[i] \in Block /\ Add(o, n) = o + n
        /\ a \in Nat /\ o + n <= a
        /\ HeapStart + HeapSize + 2 * Header + a + 15 < Word
    BY GrowBounds
  <2>3. n \in Nat /\ n <= a
    BY <2>2, BlockFields, HeapAssumption
  <2>4. CASE a = list[i].size /\ held' = [held EXCEPT ![p] = n]
    <3>1. InHeap(p, n)
      BY <1>1, <2>1, <2>3, <2>4, ListedInHeap
    <3> QED BY <1>2, <2>4, <3>1 DEF HeldInHeap, InHeap
  <2>5. CASE /\ list' = [list EXCEPT ![i] = [address |-> list[i].address, size |-> a,
                                             o_size |-> o + n]]
             /\ held' = [held EXCEPT ![p] = n]
    <3>1. list' \in Seq(Block) /\ Ordered(list')
      BY <1>6, ReallocChain DEF ChainInv, TypeOK
    <3>2. i \in 1 .. Len(list') /\ list'[i].address = p /\ list'[i].size = a
      BY <1>1, <2>1, <2>5
    <3>3. InHeap(p, n)
      BY <2>3, <3>1, <3>2, ListedInHeap
    <3> QED BY <1>2, <2>5, <3>3 DEF HeldInHeap, InHeap
  <2>6. CASE \E k \in 0 .. Len(list) : Move(i, k, p, a, n)
    <3> PICK k \in 0 .. Len(list) : Move(i, k, p, a, n)
      BY <2>6
    <3> HIDE DEF a
    <3>1. /\ Fits(list, k, BYTE_ALIGN(a))
          /\ held' = Holding(Dropping(held, p), NewBlock(list, k, a).address, n)
      BY DEF Move, FirstFit
    <3>2. InHeap(NewBlock(list, k, a).address, n)
      BY <1>1, <2>2, <2>3, <3>1, NewInHeap DEF a
    <3>3. \A q \in DOMAIN Dropping(held, p) : InHeap(q, Dropping(held, p)[q])
      BY <1>2 DEF Dropping
    <3> QED BY <3>1, <3>2, <3>3, HoldingInHeap
  <2> QED BY <1>6, <2>1, <2>2, <2>4, <2>5, <2>6 DEF Grow, vars
<1> QED BY <1>3, <1>4, <1>5, <1>6 DEF ReallocNext, Next, vars

(* Under the whole interface of smalloc.h, also when srealloc has lost a   *)
(* block from the chain, what a caller holds lies behind a header and      *)
(* inside the heap.                                                        *)
THEOREM ReallocHeldInHeap == ReallocSpec => []HeldInHeap
<1>1. Init => HeldInHeap
  BY DEF Init, HeldInHeap
<1> QED BY <1>1, InHeapStep, ReallocChainInv, PTL DEF ReallocSpec

-----------------------------------------------------------------------------
(* No two blocks on the chain have the same address.                       *)
LEMMA ListedOnce ==
  ASSUME ChainInv, NEW i \in 1 .. Len(list), NEW j \in 1 .. Len(list), i # j
  PROVE  list[i].address # list[j].address
<1>1. list[i] \in Block /\ list[j] \in Block
  BY DEF ChainInv, TypeOK
<1> QED BY <1>1, ListedApart, BlockFields, HeapAssumption

(* sfree takes off the chain the block that it takes from its caller.      *)
LEMMA FreeNoLeak ==
  ASSUME ChainInv, NoLeak, NEW p \in DOMAIN held, sfree(p)
  PROVE  NoLeak'
<1>1. list \in Seq(Block) /\ Len(list) \in Nat /\ DOMAIN held' = DOMAIN held \ {p}
  BY DEF ChainInv, TypeOK, sfree, Dropping
<1>2. CASE NotListed(list, p) /\ UNCHANGED list
  BY <1>1, <1>2 DEF NoLeak, NotListed
<1>3. CASE ~(NotListed(list, p) /\ UNCHANGED list)
  <2>1. PICK i \in 1 .. Len(list) : IsAt(list, i, p) /\ list' = Skip(list, i - 1, i + 1)
    BY <1>3 DEF sfree
  <2> DEFINE x == i - 1
             y == i + 1
  <2>2. /\ x \in 0 .. Len(list) /\ y \in x + 1 .. Len(list) + 1
        /\ list' = Skip(list, x, y) /\ y - x - 1 = 1 /\ x = i - 1
    BY <1>1, <2>1
  <2> HIDE DEF x, y
  <2>3. /\ Len(list') = Len(list) - 1
        /\ \A k \in 1 .. Len(list) - 1 :
             list'[k] = IF k <= i - 1 THEN list[k] ELSE list[k + 1]
    <3>1. /\ Len(list') = Len(list) - (y - x - 1)
          /\ \A k \in 1 .. Len(list) - (y - x - 1) :
               list'[k] = IF k <= x THEN list[k] ELSE list[k + (y - x - 1)]
      <4>1. x \in 0 .. Len(list) /\ y \in x + 1 .. Len(list) + 1 /\ list' = Skip(list, x, y)
        BY <2>2
      <4>2. /\ Len(Skip(list, x, y)) = Len(list) - (y - x - 1)
            /\ \A k \in 1 .. Len(list) - (y - x - 1) :
                 Skip(list, x, y)[k] = IF k <= x THEN list[k] ELSE list[k + (y - x - 1)]
        BY <1>1, <4>1, SkipElements, ZenonT(30)
      <4> QED BY <4>1, <4>2
    <3> QED BY <2>2, <3>1
  <2>4. ASSUME NEW k \in 1 .. Len(list')
        PROVE  list'[k].address \in DOMAIN held'
    <3>1. PICK j \in 1 .. Len(list) : j # i /\ list'[k] = list[j]
      <4>1. CASE k <= i - 1
        BY <1>1, <2>3, <4>1
      <4>2. CASE k > i - 1
        <5>1. k + 1 \in 1 .. Len(list) /\ k + 1 # i /\ list'[k] = list[k + 1]
          BY <1>1, <2>3, <4>2
        <5> QED BY <5>1
      <4> QED BY <4>1, <4>2
    <3>2. list[j].address # p
      BY <2>1, <3>1, ListedOnce DEF IsAt
    <3> QED BY <1>1, <3>1, <3>2 DEF NoLeak
  <2> QED BY <2>4 DEF NoLeak
<1> QED BY <1>2, <1>3

(* The move of srealloc leaves out the old block, and maybe the new one.   *)
LEMMA MoveNoLeak ==
  ASSUME ChainInv, NoLeak, NEW i \in 1 .. Len(list), NEW k \in 0 .. Len(list),
         NEW n \in Requests, NEW p \in DOMAIN held, list[i].address = p,
         Move(i, k, p, BYTE_ALIGN(list[i].o_size + n), n)
  PROVE  NoLeak'
<1> DEFINE a == BYTE_ALIGN(list[i].o_size + n)
           b == NewBlock(list, k, a)
           l == Linked(list, k, b)
           prev == IF k < i - 1 THEN i ELSE i - 1
           ptr == IF k < i THEN i + 1 ELSE i
<1>1. a \in Nat /\ HeapStart + HeapSize + 2 * Header + a + 15 < Word
  BY GrowBounds
<1>2. list \in Seq(Block) /\ Ordered(list) /\ SizesCover(list) /\ Len(list) \in Nat
  BY DEF ChainInv, TypeOK
<1> HIDE DEF a
<1>3. Fits(list, k, BYTE_ALIGN(a))
  BY DEF Move, FirstFit, a
<1>4. b \in Block
  BY <1>1, <1>2, <1>3, SmallocLinks
<1>5. /\ list' = Skip(l, prev, ptr + 1)
      /\ held' = Holding(Dropping(held, p), b.address, n)
  BY DEF Move, a
<1> HIDE DEF b
<1>6. /\ l \in Seq(Block) /\ Len(l) = Len(list) + 1
      /\ \A m \in 1 .. Len(list) + 1 :
           l[m] = IF m <= k THEN list[m] ELSE IF m = k + 1 THEN b ELSE list[m - 1]
  BY <1>2, <1>4, LinkedElements
<1> HIDE DEF l
<1>7. DOMAIN held' = (DOMAIN held \ {p}) \cup {b.address}
  BY <1>5 DEF Holding, Dropping
<1>8. ASSUME NEW m \in 1 .. Len(l), m # ptr
      PROVE  l[m].address \in DOMAIN held'
  <2>1. CASE l[m] = b
    BY <1>7, <2>1
  <2>2. CASE l[m] # b
    <3>1. PICK j \in 1 .. Len(list) : j # i /\ l[m] = list[j]
      <4>1. CASE m <= k
        BY <1>2, <1>6, <1>8, <4>1
      <4>2. CASE m > k
        <5>1. m - 1 \in 1 .. Len(list) /\ m - 1 # i /\ l[m] = list[m - 1]
          BY <1>2, <1>6, <1>8, <2>2, <4>2
        <5> QED BY <5>1
      <4> QED BY <4>1, <4>2
    <3>2. list[j].address # p
      BY <3>1, ListedOnce
    <3> QED BY <1>7, <3>1, <3>2 DEF NoLeak
  <2> QED BY <2>1, <2>2
<1>9. prev \in 0 .. Len(l) /\ ptr + 1 \in prev + 1 .. Len(l) + 1 /\ prev < ptr /\ ptr \in Nat
  BY <1>2, <1>6
<1> HIDE DEF prev, ptr
<1>10. /\ Len(list') = Len(l) - (ptr - prev)
       /\ \A m \in 1 .. Len(l) - (ptr - prev) :
            list'[m] = IF m <= prev THEN l[m] ELSE l[m + (ptr - prev)]
  <2> DEFINE y == ptr + 1
  <2>1. y \in prev + 1 .. Len(l) + 1 /\ list' = Skip(l, prev, y) /\ y - prev - 1 = ptr - prev
    BY <1>5, <1>9
  <2> HIDE DEF y
  <2>2. /\ Len(list') = Len(l) - (y - prev - 1)
        /\ \A m \in 1 .. Len(l) - (y - prev - 1) :
             list'[m] = IF m <= prev THEN l[m] ELSE l[m + (y - prev - 1)]
    <3>1. /\ Len(Skip(l, prev, y)) = Len(l) - (y - prev - 1)
          /\ \A m \in 1 .. Len(l) - (y - prev - 1) :
               Skip(l, prev, y)[m] = IF m <= prev THEN l[m] ELSE l[m + (y - prev - 1)]
      BY <1>6, <1>9, <2>1, SkipElements, ZenonT(30)
    <3> QED BY <2>1, <3>1
  <2> QED BY <2>1, <2>2
<1>11. ASSUME NEW m \in 1 .. Len(list')
       PROVE  list'[m].address \in DOMAIN held'
  <2>1. CASE m <= prev
    BY <1>6, <1>8, <1>9, <1>10, <2>1
  <2>2. CASE m > prev
    <3>1. /\ m + (ptr - prev) \in 1 .. Len(l) /\ m + (ptr - prev) # ptr
          /\ list'[m] = l[m + (ptr - prev)]
      <4>1. Len(l) \in Nat /\ prev \in Nat /\ m \in 1 .. Len(l) - (ptr - prev)
        BY <1>2, <1>6, <1>9, <1>10, <1>11
      <4>2. list'[m] = l[m + (ptr - prev)]
        BY <1>10, <2>2, <4>1
      <4>3. m + (ptr - prev) \in 1 .. Len(l) /\ m + (ptr - prev) # ptr
        BY <1>9, <2>2, <4>1
      <4> QED BY <4>2, <4>3
    <3> QED BY <1>8, <3>1
  <2> QED BY <1>9, <2>1, <2>2
<1> QED BY <1>11 DEF NoLeak

(* No call leaves a block on the chain that nobody holds.                  *)
LEMMA NoLeakStep == ChainInv /\ NoLeak /\ [ReallocNext]_vars => NoLeak'
<1> SUFFICES ASSUME ChainInv, NoLeak, [ReallocNext]_vars PROVE NoLeak'
  OBVIOUS
<1>1. list \in Seq(Block) /\ Ordered(list) /\ SizesCover(list) /\ Len(list) \in Nat
  BY DEF ChainInv, TypeOK
<1>2. CASE UNCHANGED vars
  BY <1>2 DEF NoLeak, vars
<1>3. CASE Alloc /\ ~UNCHANGED vars
  <2>1. PICK n \in Requests, i \in 0 .. Len(list) :
          /\ Fits(list, i, BYTE_ALIGN(n))
          /\ list' = Linked(list, i, NewBlock(list, i, n))
          /\ held' = Holding(held, NewBlock(list, i, n).address, n)
    BY <1>3, AllocSteps DEF FirstFit
  <2>2. n \in Nat /\ HeapStart + HeapSize + 2 * Header + n + 15 < Word
    BY NoWrapAssumption, HeapAssumption
  <2> DEFINE b == NewBlock(list, i, n)
  <2>3. b \in Block
    BY <1>1, <2>1, <2>2, SmallocLinks
  <2> HIDE DEF b
  <2>4. /\ Len(list') = Len(list) + 1
        /\ \A m \in 1 .. Len(list) + 1 :
             list'[m] = IF m <= i THEN list[m] ELSE IF m = i + 1 THEN b ELSE list[m - 1]
    BY <1>1, <2>1, <2>3, LinkedElements DEF b
  <2>5. DOMAIN held' = DOMAIN held \cup {b.address}
    BY <2>1 DEF Holding, b
  <2>6. ASSUME NEW m \in 1 .. Len(list')
        PROVE  list'[m].address \in DOMAIN held'
    <3>1. CASE m <= i
      BY <1>1, <2>4, <2>5, <3>1 DEF NoLeak
    <3>2. CASE m = i + 1
      BY <1>1, <2>4, <2>5, <3>2
    <3>3. CASE m > i + 1
      <4>1. m - 1 \in 1 .. Len(list) /\ list'[m] = list[m - 1]
        BY <1>1, <2>4, <3>3
      <4> QED BY <2>5, <4>1 DEF NoLeak
    <3> QED BY <3>1, <3>2, <3>3
  <2> QED BY <2>6 DEF NoLeak
<1>4. CASE Free
  BY <1>4, FreeNoLeak DEF Free
<1>5. CASE Realloc /\ ~UNCHANGED vars
  <2>1. PICK p \in DOMAIN held, n \in Requests, i \in 1 .. Len(list) :
          list[i].address = p /\ Grow(i, p, n)
    BY <1>5 DEF Realloc, srealloc, IsAt
  <2>2. Add(list[i].o_size, n) = list[i].o_size + n
    BY GrowBounds
  <2>3. CASE \E k \in 0 .. Len(list) : Move(i, k, p, BYTE_ALIGN(list[i].o_size + n), n)
    BY <2>1, <2>3, MoveNoLeak
  <2>4. CASE /\ UNCHANGED list
             /\ held' = [held EXCEPT ![p] = n]
    BY <2>4 DEF NoLeak
  <2>5. CASE /\ \E b : b.address = list[i].address /\ list' = [list EXCEPT ![i] = b]
             /\ held' = [held EXCEPT ![p] = n]
    <3>1. PICK b : b.address = list[i].address /\ list' = [list EXCEPT ![i] = b]
      BY <2>5
    <3>2. Len(list') = Len(list) /\ \A j \in 1 .. Len(list) : list'[j].address = list[j].address
      BY <1>1, <3>1
    <3> QED BY <2>5, <3>2 DEF NoLeak
  <2> QED BY <1>5, <2>1, <2>2, <2>3, <2>4, <2>5 DEF Grow
<1> QED BY <1>2, <1>3, <1>4, <1>5 DEF ReallocNext, Next

(* Under the whole interface of smalloc.h every block on the chain has an  *)
(* owner: what is given back, or left by a move, can be handed out again.  *)
THEOREM ReallocNoLeak == ReallocSpec => []NoLeak
<1>1. Init => NoLeak
  <2> SUFFICES ASSUME Init PROVE NoLeak
    OBVIOUS
  <2>1. Len(list) = 0
    BY EmptySeq DEF Init
  <2> QED BY <2>1 DEF NoLeak
<1> QED BY <1>1, NoLeakStep, ReallocChainInv, PTL DEF ReallocSpec

-----------------------------------------------------------------------------
(* What is apart with the sizes of the blocks is apart with the smaller    *)
(* sizes that were asked for.                                              *)
LEMMA SmallerApart ==
  ASSUME NEW p \in Nat, NEW z \in Nat, NEW n \in Nat, n <= z,
         NEW q \in Nat, NEW y \in Nat, NEW h \in Nat, y >= h,
         p + z + Header <= q \/ q + y + Header <= p
  PROVE  /\ p + n + Header <= q \/ q + h + Header <= p
         /\ q # p
  BY HeapAssumption

(* A block linked into a gap meets no block already on the chain. *)
LEMMA NewBlockFree ==
  ASSUME HeapInv, NEW n \in Requests, NEW i \in 0 .. Len(list),
         FirstFit(list, i, BYTE_ALIGN(n)),
         list' = Linked(list, i, NewBlock(list, i, n)),
         held' = Holding(held, NewBlock(list, i, n).address, n)
  PROVE  Contract!Grant(NewBlock(list, i, n).address, n)
         /\ NewBlock(list, i, n).address \in HeapStart .. HeapStart + HeapSize
<1> DEFINE b == NewBlock(list, i, n)
           m == Linked(list, i, b)
<1>1. n \in Nat /\ HeapStart + HeapSize + 2 * Header + n + 15 < Word
  BY NoWrapAssumption, HeapAssumption
<1>2. list \in Seq(Block) /\ Ordered(list) /\ SizesCover(list)
  BY DEF HeapInv, ChainInv, TypeOK
<1>3. b \in Block /\ n <= b.size /\ m \in Seq(Block) /\ Ordered(m)
  BY <1>1, <1>2, SmallocLinks DEF FirstFit
<1>4. /\ Len(m) = Len(list) + 1
      /\ \A j \in 1 .. Len(list) + 1 :
           m[j] = IF j <= i THEN list[j] ELSE IF j = i + 1 THEN b ELSE list[j - 1]
  <2> HIDE DEF b
  <2> QED BY <1>2, <1>3, LinkedElements DEF m
<1> HIDE DEF b, m
<1> Len(list) \in Nat
  BY <1>2, LenProperties
<1>5. Node(m, i + 1) = b
  BY <1>4 DEF Node
<1>6. /\ b.address \in Nat /\ b.size \in Nat
      /\ HeapStart + Header <= b.address
      /\ b.address + b.size + Header <= HeapStart + HeapSize
  <2>1. b.address \in Nat /\ b.size \in Nat
    BY <1>3, BlockFields
  <2>2. HeapStart + 0 + Header <= b.address
    <3>1. Node(m, 0) = boot_heap_head /\ i + 1 \in 0 .. Len(m) + 1 /\ 0 < i + 1
      BY <1>4 DEF Node
    <3>2. Node(m, 0).address + Node(m, 0).size + Header <= Node(m, i + 1).address
      BY <1>3, <3>1 DEF Ordered
    <3> QED BY <1>5, <3>1, <3>2 DEF boot_heap_head
  <2>3. i + 1 \in 0 .. Len(m)
    BY <1>4
  <2> QED BY <1>3, <1>5, <2>1, <2>2, <2>3, NodeInHeap, HeapAssumption
<1>7. ASSUME NEW q \in DOMAIN held
      PROVE  q # b.address /\ Contract!Apart(b.address, n, q, held[q])
  <2>1. PICK j \in 1 .. Len(list) : list[j].address = q /\ list[j].size >= held[q]
    BY DEF HeapInv, HeldListed
  <2>2. /\ q \in Nat /\ held[q] \in Nat
        /\ list[j].size \in Nat
    BY <1>2, ElementOfSeq, BlockFields DEF HeapInv, ChainInv, TypeOK
  <2>3. PICK k \in 1 .. Len(m) : k # i + 1 /\ m[k] = list[j]
    <3>1. CASE j <= i
      <4>1. j \in 1 .. Len(m) /\ j # i + 1 /\ m[j] = list[j]
        BY <1>4, <3>1
      <4> QED BY <4>1
    <3>2. CASE j > i
      <4>1. j + 1 \in 1 .. Len(m) /\ j + 1 # i + 1 /\ m[j + 1] = list[j]
        BY <1>4, <3>2
      <4> QED BY <4>1
    <3> QED BY <3>1, <3>2
  <2>4. Node(m, k) = list[j]
    BY <1>4, <2>3 DEF Node
  <2>5. \/ b.address + b.size + Header <= q
        \/ q + list[j].size + Header <= b.address
    <3>1. k < i + 1 \/ i + 1 < k
      BY <2>3
    <3>2. k \in 0 .. Len(m) + 1 /\ i + 1 \in 0 .. Len(m) + 1
      BY <1>4
    <3> QED BY <1>3, <1>5, <2>1, <2>4, <3>1, <3>2 DEF Ordered
  <2>6. /\ b.address + n + Header <= q \/ q + held[q] + Header <= b.address
        /\ q # b.address
    BY <1>1, <1>3, <1>6, <2>1, <2>2, <2>5, SmallerApart
  <2> QED BY <2>6 DEF Contract!Apart
<1>8. held' = [q \in DOMAIN held \cup {b.address} |->
                 IF q = b.address THEN n ELSE held[q]]
  BY DEF Holding, b
<1>9. b.address \notin DOMAIN held
  BY <1>7
<1>10. b.address + n <= HeapStart + HeapSize
  BY <1>1, <1>3, <1>6, HeapAssumption
<1>11. b.address \in HeapStart .. HeapStart + HeapSize
  BY <1>1, <1>6, <1>10, HeapAssumption
<1>12. Contract!Grant(b.address, n)
  BY <1>6, <1>7, <1>8, <1>9, <1>10 DEF Contract!Grant
<1> QED BY <1>11, <1>12 DEF b

(* smalloc and sfree implement the contract of smalloc.h for every heap,   *)
(* header size and set of requests: a step of the allocator grants memory  *)
(* no caller holds, releases one holding, or changes nothing.              *)
THEOREM SpecImplementsContract == Spec => ImplementsContract
<1>1. Init => Contract!Init
  BY DEF Init, Contract!Init
<1>2. HeapInv /\ [Next]_vars => [Contract!Next]_held
  <2> SUFFICES ASSUME HeapInv, [Next]_vars PROVE [Contract!Next]_held
    OBVIOUS
  <2>1. CASE UNCHANGED vars
    BY <2>1 DEF vars
  <2>2. CASE Alloc /\ ~UNCHANGED vars
    <3>1. PICK n \in Requests, i \in 0 .. Len(list) :
            /\ FirstFit(list, i, BYTE_ALIGN(n))
            /\ list' = Linked(list, i, NewBlock(list, i, n))
            /\ held' = Holding(held, NewBlock(list, i, n).address, n)
      BY <2>2, AllocSteps
    <3> DEFINE a == NewBlock(list, i, n).address
    <3>2. Contract!Grant(a, n) /\ a \in HeapStart .. HeapStart + HeapSize
      BY <3>1, NewBlockFree
    <3> HIDE DEF a
    <3> QED BY <3>2 DEF Contract!Next
  <2>3. CASE Free
    <3>1. PICK p \in DOMAIN held : sfree(p)
      BY <2>3 DEF Free
    <3>2. Contract!Release(p)
      BY <3>1 DEF sfree, Dropping, Contract!Release
    <3> QED BY <3>1, <3>2 DEF Contract!Next
  <2> QED BY <2>1, <2>2, <2>3 DEF Next
<1> QED BY <1>1, <1>2, HeapInvariant, PTL
      DEF Spec, ImplementsContract, Contract!Spec
=============================================================================
