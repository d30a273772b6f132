------------------------------ MODULE VfsProofs ------------------------------
(***************************************************************************)
(* Theorems about the file system of exercise 6, for any disc, any files   *)
(* without a block full of zeros and any commands, killed and overlapping  *)
(* ones included: a file that was copied in by a command alone and not     *)
(* exposed reads back, and commands that ran one after the other to their  *)
(* ends lose no block.                                                     *)
(***************************************************************************)
EXTENDS Vfs, FiniteSetTheorems, WellFoundedInduction, TLAPS

(* Numbers *)

\* The least of a set of numbers is one of them.
LEMMA LeastNumber ==
  ASSUME NEW S \in SUBSET Nat, S # {}
  PROVE  Least(S) \in S /\ \A y \in S : Least(S) <= y
<1>1. PICK x \in S : \A y \in S : ~(<<y, x>> \in OpToRel(<, Nat))
  BY WFMin, NatLessThanWellFounded
<1>2. ASSUME NEW y \in S PROVE x <= y
  <2>1. x \in Nat /\ y \in Nat
    OBVIOUS
  <2>2. y < x => <<y, x>> \in OpToRel(<, Nat)
    BY <2>1 DEF OpToRel
  <2>3. ~(y < x)
    BY <1>1, <2>2
  <2> QED
    BY <2>1, <2>3
<1> QED
  BY <1>2 DEF Least

\* What holds of 0, and of i if of i - 1, holds up to N.
LEMMA Upward ==
  ASSUME NEW N \in Nat, NEW P, 0 \in P,
         \A i \in 1..N : i - 1 \in P => i \in P
  PROVE  0..N \subseteq P
<1> SUFFICES ASSUME NEW j \in 0..N, j \notin P PROVE FALSE
  OBVIOUS
<1>1. PICK S : S = {i \in 0..N : i \notin P}
  OBVIOUS
<1>2. S \in SUBSET Nat /\ S # {}
  BY <1>1
<1>3. PICK k : k = Least(S)
  OBVIOUS
<1>4. k \in S /\ \A y \in S : k <= y
  BY <1>2, <1>3, LeastNumber
<1>5. k \in 1..N /\ k - 1 \in 0..N /\ k - 1 \notin S
  BY <1>1, <1>4
<1> QED
  BY <1>1, <1>4, <1>5
-----------------------------------------------------------------------------
(* Chains of blocks *)

\* Where a chain goes on from x
After(blocks, x) == IF x \in BlockIds THEN blocks[x].nextBlock ELSE NIL

Walk(f, blocks, first, len) ==
  f = [i \in 0..len |-> IF i = 0 THEN first ELSE After(blocks, f[i - 1])]

\* A recursive walk over blocks has a solution.
LEMMA WalkExists ==
  ASSUME NEW blocks, NEW first, NEW len \in Nat
  PROVE  \E f : Walk(f, blocks, first, len)
<1>1. PICK P : P = {k \in 0..len :
                 \E g : g = [i \in 0..k |-> IF i = 0 THEN first
                                            ELSE After(blocks, g[i - 1])]}
  OBVIOUS
<1>2. 0 \in P
  <2>1. PICK g : g = [i \in 0..0 |-> first]
    OBVIOUS
  <2>2. g = [i \in 0..0 |-> IF i = 0 THEN first ELSE After(blocks, g[i - 1])]
    BY <2>1
  <2> QED
    BY <1>1, <2>2
<1>3. ASSUME NEW k \in 1..len, k - 1 \in P PROVE k \in P
  <2>1. PICK g : g = [i \in 0..(k - 1) |-> IF i = 0 THEN first
                                           ELSE After(blocks, g[i - 1])]
    BY <1>1, <1>3
  <2>2. PICK f : f = [i \in 0..k |-> IF i < k THEN g[i]
                                     ELSE After(blocks, g[k - 1])]
    OBVIOUS
  <2>3. ASSUME NEW i \in 0..k
        PROVE  f[i] = IF i = 0 THEN first ELSE After(blocks, f[i - 1])
    <3>1. CASE i = 0
      BY <2>1, <2>2, <3>1
    <3>2. CASE i # 0 /\ i < k
      <4>1. i \in 0..(k - 1) /\ i - 1 \in 0..k /\ i - 1 < k
        BY <3>2
      <4>2. f[i] = g[i] /\ f[i - 1] = g[i - 1]
        BY <2>2, <3>2, <4>1
      <4>3. g[i] = After(blocks, g[i - 1])
        BY <2>1, <3>2, <4>1
      <4> QED
        BY <3>2, <4>2, <4>3
    <3>3. CASE i = k
      <4>1. k # 0 /\ k - 1 \in 0..k /\ k - 1 < k
        OBVIOUS
      <4>2. f[k] = After(blocks, g[k - 1]) /\ f[k - 1] = g[k - 1]
        BY <2>2, <4>1
      <4> QED
        BY <3>3, <4>1, <4>2
    <3> QED
      BY <3>1, <3>2, <3>3
  <2>4. f = [i \in 0..k |-> IF i = 0 THEN first ELSE After(blocks, f[i - 1])]
    BY <2>2, <2>3
  <2> QED
    BY <1>1, <2>4
<1>4. len \in P
  BY <1>2, <1>3, Upward
<1> QED
  BY <1>1, <1>4 DEF Walk

\* f is a sequence of length len.
Lists(f, len) == f = [k \in 1..len |-> f[k]]

\* A chain begins at its first block and follows the links.
LEMMA ChainSteps ==
  ASSUME NEW blocks, NEW first, NEW len \in Nat
  PROVE  /\ Lists(Chain(blocks, first, len), len)
         /\ len > 0 => Chain(blocks, first, len)[1] = first
         /\ \A k \in 1..(len - 1) :
              Chain(blocks, first, len)[k + 1]
                = After(blocks, Chain(blocks, first, len)[k])
<1>1. PICK at : at = CHOOSE f : f = [i \in 0..len |->
         IF i = 0 THEN first
         ELSE IF f[i - 1] \in BlockIds THEN blocks[f[i - 1]].nextBlock ELSE NIL]
  OBVIOUS
<1>2. at = [i \in 0..len |->
         IF i = 0 THEN first
         ELSE IF at[i - 1] \in BlockIds THEN blocks[at[i - 1]].nextBlock ELSE NIL]
  <2>0. PICK f : Walk(f, blocks, first, len)
    BY WalkExists
  <2>1. f = [i \in 0..len |-> IF i = 0 THEN first
                             ELSE After(blocks, f[i - 1])]
    BY <2>0 DEF Walk
  <2>2. f = [i \in 0..len |->
         IF i = 0 THEN first
         ELSE IF f[i - 1] \in BlockIds THEN blocks[f[i - 1]].nextBlock ELSE NIL]
    BY <2>1 DEF After
  <2> QED
    BY <1>1, <2>2
<1>3. Chain(blocks, first, len) = [i \in 1..len |-> at[i - 1]]
  BY <1>1 DEF Chain
<1>4. PICK ch : ch = Chain(blocks, first, len)
  OBVIOUS
<1>5. ch = [i \in 1..len |-> at[i - 1]]
  BY <1>3, <1>4
<1>6. Lists(ch, len)
  BY <1>5 DEF Lists
<1>7. len > 0 => ch[1] = first
  <2>1. at[0] = first
    BY <1>2
  <2>2. len > 0 => 1 \in 1..len /\ 1 - 1 = 0
    OBVIOUS
  <2> QED
    BY <1>5, <2>1, <2>2
<1>8. ASSUME NEW k \in 1..(len - 1) PROVE ch[k + 1] = After(blocks, ch[k])
  <2>1. k \in 0..len /\ k # 0 /\ k \in 1..len /\ k + 1 \in 1..len /\ (k + 1) - 1 = k
    OBVIOUS
  <2>2. ch[k + 1] = at[k] /\ ch[k] = at[k - 1]
    BY <1>5, <2>1
  <2>3. at[k] = After(blocks, at[k - 1])
    BY <1>2, <2>1 DEF After
  <2> QED
    BY <2>2, <2>3
<1> QED
  BY <1>4, <1>6, <1>7, <1>8

\* What begins at the first block and follows the links is the chain.
LEMMA ChainIs ==
  ASSUME NEW blocks, NEW first, NEW len \in Nat,
         NEW f, Lists(f, len),
         len > 0 => f[1] = first,
         \A k \in 1..(len - 1) : f[k + 1] = After(blocks, f[k])
  PROVE  Chain(blocks, first, len) = f
<1>1. PICK ch : ch = Chain(blocks, first, len)
  OBVIOUS
<1>2. /\ Lists(ch, len)
      /\ len > 0 => ch[1] = first
      /\ \A k \in 1..(len - 1) : ch[k + 1] = After(blocks, ch[k])
  BY <1>1, ChainSteps
<1>3. PICK P : P = {k \in 0..len : k = 0 \/ ch[k] = f[k]}
  OBVIOUS
<1>4. ASSUME NEW k \in 1..len, k - 1 \in P PROVE k \in P
  <2>1. CASE k = 1
    BY <1>2, <1>3, <2>1
  <2>2. CASE k # 1
    <3>1. k - 1 \in 1..(len - 1) /\ (k - 1) + 1 = k /\ k - 1 # 0 /\ k \in 0..len
      BY <2>2
    <3>2. ch[k - 1] = f[k - 1]
      BY <1>3, <1>4, <3>1
    <3>3. ch[k] = After(blocks, ch[k - 1]) /\ f[k] = After(blocks, f[k - 1])
      BY <1>2, <3>1
    <3> QED
      BY <1>3, <3>1, <3>2, <3>3
  <2> QED
    BY <2>1, <2>2
<1>5. 0..len \subseteq P
  <2>1. 0 \in P
    BY <1>3
  <2> QED
    BY <1>4, <2>1, Upward
<1>6. \A k \in 1..len : ch[k] = f[k]
  BY <1>3, <1>5
<1>7. ch = f
  <2>1. ch = [k \in 1..len |-> ch[k]] /\ f = [k \in 1..len |-> f[k]]
    BY <1>2 DEF Lists
  <2> QED
    BY <1>6, <2>1
<1> QED
  BY <1>1, <1>7

\* A chain stays when the links of its blocks do.
LEMMA ChainStays ==
  ASSUME NEW blocks, NEW new, NEW first, NEW len \in Nat,
         \A k \in 1..(len - 1) :
           After(new, Chain(blocks, first, len)[k])
             = After(blocks, Chain(blocks, first, len)[k])
  PROVE  Chain(new, first, len) = Chain(blocks, first, len)
<1>1. PICK ch : ch = Chain(blocks, first, len)
  OBVIOUS
<1>2. /\ Lists(ch, len)
      /\ len > 0 => ch[1] = first
      /\ \A k \in 1..(len - 1) : ch[k + 1] = After(blocks, ch[k])
  BY <1>1, ChainSteps
<1>3. \A k \in 1..(len - 1) : ch[k + 1] = After(new, ch[k])
  BY <1>1, <1>2
<1>4. Chain(new, first, len) = ch
  BY <1>2, <1>3, ChainIs
<1> QED
  BY <1>1, <1>4
-----------------------------------------------------------------------------
(* Sizes and lengths *)

\* The blocks a file takes
Length(n) == Len(Contents[n].data)

\* Which block is written when left bytes remain
Place(n, left) == Length(n) - (left - 1) \div BLOCK_SIZE

\* One block more of bytes is one more in the quotient.
LEMMA OneBlockMore ==
  ASSUME NEW a \in Nat
  PROVE  /\ a \div BLOCK_SIZE \in Nat
         /\ (a + BLOCK_SIZE) \div BLOCK_SIZE = a \div BLOCK_SIZE + 1
         /\ a < BLOCK_SIZE => a \div BLOCK_SIZE = 0
<1>1. BLOCK_SIZE \in Nat /\ BLOCK_SIZE > 0
  BY VfsAssumption
<1>2. \A b \in Nat : b > 0 => a \div b \in Nat
  OBVIOUS
<1>3. \A b \in Nat : b > 0 => (a + b) \div b = a \div b + 1
  OBVIOUS
<1>4. \A b \in Nat : a < b => a \div b = 0
  OBVIOUS
<1> QED
  BY <1>1, <1>2, <1>3, <1>4

\* What the assumption says of a file
LEMMA Sizes ==
  ASSUME NEW n \in Names
  PROVE  /\ Contents[n].size \in Nat /\ Length(n) \in Nat
         /\ Contents[n].size = 0 => Length(n) = 0
         /\ Contents[n].size > 0 => Length(n) > 0 /\ Place(n, Contents[n].size) = 1
         /\ \A k \in 1..Length(n) : Contents[n].data[k] # ZERO
<1>1. PICK s, len : s = Contents[n].size /\ len = Length(n)
  OBVIOUS
<1>2. /\ s \in Nat /\ len = (s + BLOCK_SIZE - 1) \div BLOCK_SIZE
      /\ \A k \in 1..len : Contents[n].data[k] # ZERO
  BY <1>1, VfsAssumption DEF Length
<1>3. BLOCK_SIZE \in Nat /\ BLOCK_SIZE > 0
  BY VfsAssumption
<1>4. CASE s = 0
  <2>1. BLOCK_SIZE - 1 \in Nat /\ BLOCK_SIZE - 1 < BLOCK_SIZE
        /\ s + BLOCK_SIZE - 1 = BLOCK_SIZE - 1
    BY <1>3, <1>4
  <2>2. len = 0
    BY <1>2, <2>1, OneBlockMore
  <2> QED
    BY <1>1, <1>2, <1>4, <2>2
<1>5. CASE s > 0
  <2>1. s - 1 \in Nat /\ s + BLOCK_SIZE - 1 = (s - 1) + BLOCK_SIZE
    BY <1>2, <1>3, <1>5
  <2>2. (s - 1) \div BLOCK_SIZE \in Nat
        /\ ((s - 1) + BLOCK_SIZE) \div BLOCK_SIZE = (s - 1) \div BLOCK_SIZE + 1
    BY <2>1, OneBlockMore
  <2>3. len = (s - 1) \div BLOCK_SIZE + 1
    BY <1>2, <2>1, <2>2
  <2>4. len \in Nat /\ len > 0 /\ len - (s - 1) \div BLOCK_SIZE = 1
    BY <2>2, <2>3
  <2> QED
    BY <1>1, <1>2, <1>5, <2>4 DEF Place
<1> QED
  BY <1>2, <1>4, <1>5

\* The places come one after the other; the last one is that of what is no
\* more than a block.
LEMMA Places ==
  ASSUME NEW n \in Names, NEW left \in Nat, left > 0
  PROVE  /\ Place(n, left) \in Int
         /\ left <= BLOCK_SIZE => Place(n, left) = Length(n)
         /\ left > BLOCK_SIZE => /\ left - BLOCK_SIZE \in Nat
                                 /\ left - BLOCK_SIZE > 0
                                 /\ Place(n, left - BLOCK_SIZE) = Place(n, left) + 1
                                 /\ Place(n, left) < Length(n)
         /\ NextData(n, left) = Contents[n].data[Place(n, left)]
<1>1. PICK len : len = Length(n)
  OBVIOUS
<1>2. len \in Nat /\ BLOCK_SIZE \in Nat /\ BLOCK_SIZE > 0
  BY <1>1, Sizes, VfsAssumption
<1>3. left - 1 \in Nat /\ (left - 1) \div BLOCK_SIZE \in Nat
  BY OneBlockMore
<1>4. left <= BLOCK_SIZE => (left - 1) \div BLOCK_SIZE = 0
  BY <1>2, <1>3, OneBlockMore
<1>5. ASSUME left > BLOCK_SIZE
      PROVE  /\ left - BLOCK_SIZE \in Nat /\ left - BLOCK_SIZE > 0
             /\ (left - 1) \div BLOCK_SIZE = (left - BLOCK_SIZE - 1) \div BLOCK_SIZE + 1
             /\ (left - BLOCK_SIZE - 1) \div BLOCK_SIZE \in Nat
  <2>1. PICK a \in Nat : a = left - BLOCK_SIZE - 1
    BY <1>2, <1>5
  <2>2. left - 1 = a + BLOCK_SIZE
    BY <1>2, <2>1
  <2>3. (a + BLOCK_SIZE) \div BLOCK_SIZE = a \div BLOCK_SIZE + 1
        /\ a \div BLOCK_SIZE \in Nat
    BY OneBlockMore
  <2>4. left - BLOCK_SIZE \in Nat /\ left - BLOCK_SIZE > 0
    BY <1>2, <1>5
  <2> QED
    BY <2>1, <2>2, <2>3, <2>4
<1>6. NextData(n, left) = Contents[n].data[Place(n, left)]
  BY DEF NextData, Place, Length
<1>7. left <= BLOCK_SIZE => len - (left - 1) \div BLOCK_SIZE = len
  BY <1>2, <1>4
<1>8. ASSUME left > BLOCK_SIZE
      PROVE  /\ len - (left - BLOCK_SIZE - 1) \div BLOCK_SIZE
                  = len - (left - 1) \div BLOCK_SIZE + 1
             /\ len - (left - 1) \div BLOCK_SIZE < len
  <2>1. PICK q \in Nat : q = (left - BLOCK_SIZE - 1) \div BLOCK_SIZE
    BY <1>5, <1>8
  <2>2. (left - 1) \div BLOCK_SIZE = q + 1
    BY <1>5, <1>8, <2>1
  <2>3. len - q = len - (q + 1) + 1 /\ len - (q + 1) < len
    BY <1>2
  <2> QED
    BY <2>1, <2>2, <2>3
<1>9. Place(n, left) \in Int
  BY <1>1, <1>2, <1>3 DEF Place
<1> QED
  BY <1>1, <1>5, <1>6, <1>7, <1>8, <1>9 DEF Place
-----------------------------------------------------------------------------
(* What lies on the disc *)

Used == UNION {{Contents[n].data[k] : k \in 1..Length(n)} : n \in Names}
INodeSet == [fileName : Names \cup {NoName}, fileSize : Nat,
             firstBlock : BlockIds \cup {NIL, -1}]
BlockSet == [data : Used \cup {ZERO}, nextBlock : BlockIds \cup {NIL}]
DiscSet == [exists : BOOLEAN, magic : BOOLEAN,
            iNodes : [INodeIds -> INodeSet],
            dataBlocks : [BlockIds -> BlockSet]]

IndexOf(d, n) == getINodeIndex(d.iNodes, n)
FirstOf(d, n) == d.iNodes[IndexOf(d, n)].firstBlock
Path(d, n) == Chain(d.dataBlocks, FirstOf(d, n), Length(n))
On(d, n) == {Path(d, n)[k] : k \in 1..Length(n)}

\* The chain of the file n is complete, with its data.
Whole(d, n) ==
  \A k \in 1..Length(n) :
    /\ Path(d, n)[k] \in BlockIds
    /\ d.dataBlocks[Path(d, n)[k]].data = Contents[n].data[k]
    /\ k = Length(n) => d.dataBlocks[Path(d, n)[k]].nextBlock = 0

\* Only one inode bears the name n.
OneINode(d, n) ==
  /\ IndexOf(d, n) \in INodeIds
  /\ WithName(d.iNodes, n) = {IndexOf(d, n)}

\* The only inode with a name is the one that is found.
LEMMA FoundINode ==
  ASSUME NEW d, NEW n, NEW i, WithName(d.iNodes, n) = {i}
  PROVE  IndexOf(d, n) = i /\ OneINode(d, n)
<1>1. IndexOf(d, n) = Least({i})
  BY DEF IndexOf, getINodeIndex
<1>2. i \in INodeIds
  BY DEF WithName
<1>3. i <= i
  BY <1>2 DEF INodeIds
<1>4. Least({i}) = i
  BY <1>3 DEF Least
<1> QED
  BY <1>1, <1>2, <1>4 DEF OneINode

\* A file stays whose inode and blocks do.
LEMMA WholeStays ==
  ASSUME NEW d, NEW e, NEW n \in Names, OneINode(d, n), OneINode(e, n),
         e.iNodes[IndexOf(d, n)] = d.iNodes[IndexOf(d, n)],
         IndexOf(e, n) = IndexOf(d, n),
         \A b \in On(d, n) : e.dataBlocks[b] = d.dataBlocks[b]
  PROVE  /\ FirstOf(e, n) = FirstOf(d, n)
         /\ Path(e, n) = Path(d, n) /\ On(e, n) = On(d, n)
         /\ Whole(d, n) => Whole(e, n)
<1>1. FirstOf(e, n) = FirstOf(d, n)
  BY DEF FirstOf
<1>2. Path(e, n) = Path(d, n)
  <2>1. PICK len \in Nat : len = Length(n)
    BY Sizes
  <2>2. ASSUME NEW k \in 1..(len - 1)
        PROVE  After(e.dataBlocks, Path(d, n)[k]) = After(d.dataBlocks, Path(d, n)[k])
    <3>1. Path(d, n)[k] \in On(d, n)
      BY <2>1 DEF On
    <3> QED
      BY <3>1 DEF After
  <2>3. Path(d, n) = Chain(d.dataBlocks, FirstOf(d, n), len)
    BY <2>1 DEF Path
  <2>4. Chain(e.dataBlocks, FirstOf(d, n), len) = Chain(d.dataBlocks, FirstOf(d, n), len)
    BY <2>2, <2>3, ChainStays
  <2> QED
    BY <1>1, <2>1, <2>4 DEF Path
<1>3. On(e, n) = On(d, n)
  BY <1>2 DEF On
<1>4. Whole(d, n) => Whole(e, n)
  <2>1. \A k \in 1..Length(n) : e.dataBlocks[Path(d, n)[k]] = d.dataBlocks[Path(d, n)[k]]
    BY DEF On
  <2> QED
    BY <1>2, <2>1 DEF Whole
<1> QED
  BY <1>1, <1>2, <1>3, <1>4

\* What is free: nothing, or a block with the least number there is.
LEMMA FreeOnes ==
  ASSUME NEW blocks
  PROVE  /\ getFirstFreeDataBlockIndex(blocks) \in FreeDataBlocks(blocks) \cup {-1}
         /\ 0 \in FreeDataBlocks(blocks) => getFirstFreeDataBlockIndex(blocks) = 0
         /\ \A b \in BlockIds :
              \/ getNextFreeDataBlockIndex(blocks, b) = -1
              \/ /\ getNextFreeDataBlockIndex(blocks, b) \in FreeDataBlocks(blocks)
                 /\ getNextFreeDataBlockIndex(blocks, b) > b
<1>1. FreeDataBlocks(blocks) \in SUBSET Nat /\ FreeDataBlocks(blocks) \subseteq BlockIds
  BY VfsAssumption DEF FreeDataBlocks, BlockIds
<1>2. getFirstFreeDataBlockIndex(blocks) \in FreeDataBlocks(blocks) \cup {-1}
  BY <1>1, LeastNumber DEF getFirstFreeDataBlockIndex
<1>3. ASSUME 0 \in FreeDataBlocks(blocks) PROVE getFirstFreeDataBlockIndex(blocks) = 0
  <2>1. PICK l : l = Least(FreeDataBlocks(blocks))
    OBVIOUS
  <2>2. l \in FreeDataBlocks(blocks) /\ l <= 0
    BY <1>1, <1>3, <2>1, LeastNumber
  <2>3. l = 0
    BY <1>1, <2>2
  <2> QED
    BY <1>3, <2>1, <2>3 DEF getFirstFreeDataBlockIndex
<1>4. ASSUME NEW b \in BlockIds
      PROVE  \/ getNextFreeDataBlockIndex(blocks, b) = -1
             \/ /\ getNextFreeDataBlockIndex(blocks, b) \in FreeDataBlocks(blocks)
                /\ getNextFreeDataBlockIndex(blocks, b) > b
  <2>1. PICK rest : rest = {a \in FreeDataBlocks(blocks) : a > b}
    OBVIOUS
  <2>2. rest \in SUBSET Nat
    BY <1>1, <2>1
  <2>3. rest # {} => Least(rest) \in rest
    BY <2>2, LeastNumber
  <2>4. getNextFreeDataBlockIndex(blocks, b) = IF rest = {} THEN -1 ELSE Least(rest)
    BY <2>1 DEF getNextFreeDataBlockIndex
  <2> QED
    BY <2>1, <2>3, <2>4
<1> QED
  BY <1>2, <1>3, <1>4
-----------------------------------------------------------------------------
(* The inductive invariant *)

CommandSet == [op : {"none", "COPYTO", "RM"},
               pc : {"idle", "load", "inode", "block", "clear"},
               name : Names \cup {NoName},
               iNodes : [INodeIds -> INodeSet] \cup {<< >>},
               dataBlocks : [BlockIds -> BlockSet] \cup {<< >>},
               index : INodeIds, offset : BlockIds \cup {NIL, -1}, left : Nat,
               alone : BOOLEAN, stray : BOOLEAN]

\* What a command knows when it is there.  The block it writes next is free in
\* its copy.
Sensible(r) ==
  /\ r.pc # "idle" => r.name \in Names
  /\ r.pc = "load" => r.iNodes \in [INodeIds -> INodeSet]
  /\ r.pc \in {"inode", "block", "clear"} => r.dataBlocks \in [BlockIds -> BlockSet]
  /\ r.pc = "inode" => r.left = Contents[r.name].size /\ r.offset # NIL
  /\ r.pc = "block" => r.left > 0 /\ Place(r.name, r.left) \in 1..Length(r.name)
  /\ r.pc \in {"inode", "block"} /\ r.offset \in BlockIds =>
       r.dataBlocks[r.offset].data = ZERO

TypeOK ==
  /\ disc \in DiscSet
  /\ cmd \in [Commands -> CommandSet]
  /\ \A c \in Commands : Sensible(cmd[c])
  /\ stored \subseteq Names /\ exposed \subseteq Names
  /\ mess \in Nat

\* The command r sees the inode i, which is that of the file n, and lets it be.
SparesINode(r, n, i, inode) ==
  /\ r.pc = "load" => r.iNodes[i] = inode
  /\ r.pc \in {"inode", "block"} => r.index # i /\ r.name # n
  /\ r.pc = "clear" => r.index # i

\* A COPYTO neither takes a block of B now nor later.
SparesBlocks(r, B) ==
  r.pc \in {"inode", "block"} =>
    \A b \in B : r.dataBlocks[b].data # ZERO /\ b # r.offset

\* What was stored keeps its inode.
Kept(n) ==
  /\ OneINode(disc, n)
  /\ disc.iNodes[IndexOf(disc, n)].fileSize = Contents[n].size
  /\ FirstOf(disc, n) # NIL
  /\ \A d \in Commands :
       SparesINode(cmd[d], n, IndexOf(disc, n), disc.iNodes[IndexOf(disc, n)])

\* The files that nothing has hit
Safe == stored \ exposed

Intact(n) ==
  /\ disc.magic
  /\ Whole(disc, n)
  /\ \A d \in Commands : SparesBlocks(cmd[d], On(disc, n))

Apart == \A m, n \in Safe : m # n => On(disc, m) \cap On(disc, n) = {}

\* The part of its chain that a COPYTO has written, and the block it writes next
Target(c) == disc.iNodes[cmd[c].index]
Reached(c) == Place(cmd[c].name, cmd[c].left)
Begun(c) == Chain(disc.dataBlocks, Target(c).firstBlock, Reached(c))

HalfDone(c) ==
  /\ WithName(disc.iNodes, cmd[c].name) = {cmd[c].index}
  /\ Target(c).fileSize = Contents[cmd[c].name].size
  /\ Target(c).firstBlock # NIL
  /\ Begun(c)[Reached(c)] = cmd[c].offset
  /\ \A k \in 1..(Reached(c) - 1) :
       /\ Begun(c)[k] \in BlockIds
       /\ disc.dataBlocks[Begun(c)[k]].data = Contents[cmd[c].name].data[k]
       /\ \A n \in Safe : Begun(c)[k] \notin On(disc, n)

\* A command that nothing has joined knows the disc as it is.
Lone(c) ==
  /\ Running = {c}
  /\ disc.magic
  /\ cmd[c].pc = "load" => cmd[c].iNodes = disc.iNodes
  /\ cmd[c].pc # "load" => cmd[c].dataBlocks = disc.dataBlocks
  /\ cmd[c].pc = "inode" => /\ WithName(disc.iNodes, cmd[c].name) = {}
                            /\ isINodeFree(Target(c))
  /\ cmd[c].pc = "block" => HalfDone(c)

\* Where there is no disc there is nothing on it.
Absent ==
  /\ ~disc.exists => stored = {} /\ disc.dataBlocks = Empty.dataBlocks
  /\ Running # {} => disc.exists

Free(b) == isDataBlockFree(disc.dataBlocks[b])
Link(b) == disc.dataBlocks[b].nextBlock

FilesInv ==
  /\ \A n \in stored : Kept(n)
  /\ \A n \in Safe : Intact(n)
  /\ Apart
  /\ \A c \in Running : cmd[c].alone => Lone(c)
  /\ mess = 0 => \A c \in Running : cmd[c].alone
  /\ \A b \in BlockIds : Free(b) => Link(b) = NIL
  /\ Absent

\* While commands run one after the other: the blocks Z from block 0 on are in
\* use, each is linked to a later one or to block 0, and none is of a file
\* that is safe from a wrong turn there.  A COPYTO that begins with block 0 is
\* at their end, another one stays away from them, an RM that comes upon them
\* clears them up to block 0.
Root(Z) ==
  /\ 0 \in Z
  /\ \A b \in Z : ~Free(b) =>
       \/ Link(b) \in Z /\ (Link(b) > b \/ Link(b) = 0)
       \/ \E c \in Commands : cmd[c].pc = "block" /\ cmd[c].offset = NIL
  /\ \A b \in Z : Free(b) =>
       \/ \E c \in Commands : cmd[c].pc = "block" /\ cmd[c].offset = b
       \/ \E c \in Commands : /\ cmd[c].pc = "clear" /\ cmd[c].offset \in Z
                              /\ b < cmd[c].offset \/ cmd[c].offset = 0
  /\ \A n \in Safe : FirstOf(disc, n) # 0 => Z \cap On(disc, n) = {}
  /\ \A c \in Commands : cmd[c].pc = "block" =>
       IF Target(c).firstBlock = 0
       THEN cmd[c].offset \in BlockIds => cmd[c].offset \in Z
       ELSE \A k \in 1..Reached(c) : Begun(c)[k] \notin Z

RootInv ==
  mess = 0 =>
    /\ ~Free(0) => \E Z \in SUBSET BlockIds : Root(Z)
    /\ \A c \in Commands : cmd[c].pc = "block" /\ cmd[c].offset = 0
                            => Target(c).firstBlock = 0

\* The blocks Y an RM may still clear
Hits(c, Y) ==
  /\ cmd[c].offset \in Y \cup {NIL}
  /\ \A b \in Y : Link(b) \in Y \cup {NIL}
  /\ \A n \in Safe : FirstOf(disc, n) # 0 => Y \cap On(disc, n) = {}

HitsInv ==
  mess = 0 => \A c \in Commands : cmd[c].pc = "clear" /\ ~cmd[c].stray =>
    \E Y \in SUBSET BlockIds : Hits(c, Y)

Inv == TypeOK /\ FilesInv /\ RootInv /\ HitsInv
-----------------------------------------------------------------------------
(* What the steps do *)

\* What types say of a disc and of a command
LEMMA DiscFields ==
  ASSUME NEW d \in DiscSet
  PROVE  /\ d.exists \in BOOLEAN /\ d.magic \in BOOLEAN
         /\ d.iNodes \in [INodeIds -> INodeSet]
         /\ d.dataBlocks \in [BlockIds -> BlockSet]
         /\ \A b \in BlockIds : /\ d.dataBlocks[b].nextBlock \in BlockIds \cup {NIL}
                                /\ d.dataBlocks[b] \in BlockSet
BY DEF DiscSet, BlockSet

\* The same for a command
LEMMA CommandFields ==
  ASSUME NEW r \in CommandSet
  PROVE  /\ r.op \in {"none", "COPYTO", "RM"}
         /\ r.pc \in {"idle", "load", "inode", "block", "clear"}
         /\ r.name \in Names \cup {NoName}
         /\ r.iNodes \in [INodeIds -> INodeSet] \cup {<< >>}
         /\ r.dataBlocks \in [BlockIds -> BlockSet] \cup {<< >>}
         /\ r.index \in INodeIds /\ r.offset \in BlockIds \cup {NIL, -1}
         /\ r.left \in Nat /\ r.alone \in BOOLEAN /\ r.stray \in BOOLEAN
BY DEF CommandSet

\* 0 is a block and an inode, NIL and -1 are none.
LEMMA Ids ==
  /\ 0 \in BlockIds /\ 0 \in INodeIds
  /\ NIL \notin BlockIds /\ -1 \notin BlockIds /\ NIL # -1
  /\ \A b \in BlockIds : b \in Int
BY VfsAssumption DEF BlockIds, INodeIds, NIL

\* A command that does not run
LEMMA IdleFits == Idle \in CommandSet /\ Sensible(Idle) /\ Idle.pc = "idle"
<1>1. /\ Idle.op = "none" /\ Idle.pc = "idle" /\ Idle.name = NoName
      /\ Idle.iNodes = << >> /\ Idle.dataBlocks = << >> /\ Idle.index = 0
      /\ Idle.offset = NIL /\ Idle.left = 0 /\ Idle.alone = TRUE /\ Idle.stray = FALSE
  BY DEF Idle
<1>2. Idle \in CommandSet
  BY Ids DEF Idle, CommandSet
<1>3. Sensible(Idle)
  BY <1>1 DEF Sensible
<1> QED
  BY <1>1, <1>2, <1>3

\* r is where s is; only that others have joined it may differ.
Alike(r, s) ==
  /\ r.pc = s.pc /\ r.name = s.name /\ r.iNodes = s.iNodes
  /\ r.dataBlocks = s.dataBlocks /\ r.index = s.index /\ r.offset = s.offset
  /\ r.left = s.left /\ r.stray = s.stray

\* What Start does
LEMMA StartDoes ==
  ASSUME TypeOK, NEW c \in Commands, NEW op \in {"COPYTO", "RM"},
         NEW n \in Names, Start(c, op, n)
  PROVE  /\ cmd[c].pc = "idle" /\ disc.exists /\ disc.magic
         /\ UNCHANGED <<disc, stored, exposed>>
         /\ cmd' \in [Commands -> CommandSet]
         /\ cmd'[c].pc = "load" /\ cmd'[c].name = n
         /\ cmd'[c].iNodes = disc.iNodes
         /\ cmd'[c].alone = (Running = {})
         /\ \A d \in Commands \ {c} : /\ Alike(cmd'[d], cmd[d])
                                      /\ d \in Running => ~cmd'[d].alone
         /\ mess' \in Nat
         /\ mess' = 0 => mess = 0 /\ Running = {}
<1>1. /\ cmd[c].pc = "idle" /\ disc.exists /\ disc.magic
      /\ UNCHANGED <<disc, stored, exposed>>
      /\ mess' = IF Running = {} THEN mess ELSE mess + 1
  BY DEF Start
<1>2. PICK r : r = [Idle EXCEPT !.op = op, !.pc = "load", !.name = n,
                                !.iNodes = disc.iNodes, !.alone = Running = {}]
  OBVIOUS
<1>3. cmd' = [d \in Commands |->
                IF d = c THEN r
                ELSE IF d \in Running THEN [cmd[d] EXCEPT !.alone = FALSE]
                ELSE cmd[d]]
  BY <1>2 DEF Start
<1>4. disc.iNodes \in [INodeIds -> INodeSet] /\ mess \in Nat
  BY DiscFields DEF TypeOK
<1>5. /\ r.pc = "load" /\ r.name = n /\ r.iNodes = disc.iNodes
      /\ r.alone = (Running = {}) /\ r \in CommandSet
  <2>1. r = [op |-> op, pc |-> "load", name |-> n, iNodes |-> disc.iNodes,
             dataBlocks |-> << >>, index |-> 0, offset |-> NIL, left |-> 0,
             alone |-> (Running = {}), stray |-> FALSE]
    BY <1>2 DEF Idle
  <2>2. (Running = {}) \in BOOLEAN
    OBVIOUS
  <2>3. r \in CommandSet
    BY <1>4, <2>1, <2>2, Ids DEF CommandSet
  <2> QED
    BY <2>1, <2>3
<1>6. ASSUME NEW d \in Commands \ {c}
      PROVE  /\ Alike(cmd'[d], cmd[d]) /\ (d \in Running => ~cmd'[d].alone)
             /\ cmd'[d] \in CommandSet
  <2>1. cmd[d] \in CommandSet
    BY DEF TypeOK
  <2>2. CASE d \in Running
    <3>1. cmd'[d] = [cmd[d] EXCEPT !.alone = FALSE]
      BY <1>3, <2>2
    <3>2. PICK s, t : s = cmd[d] /\ t = [s EXCEPT !.alone = FALSE]
      OBVIOUS
    <3>3. t \in CommandSet /\ Alike(t, s) /\ t.alone = FALSE
      BY <2>1, <3>2 DEF CommandSet, Alike
    <3> QED
      BY <3>1, <3>2, <3>3
  <2>3. CASE d \notin Running
    BY <1>3, <2>1, <2>3 DEF Alike
  <2> QED
    BY <2>2, <2>3
<1>7. cmd'[c] = r
  BY <1>3
<1>8. cmd' \in [Commands -> CommandSet]
  <2>1. \A d \in Commands : cmd'[d] \in CommandSet
    BY <1>5, <1>6, <1>7
  <2> QED
    BY <1>3, <2>1
<1>9. mess' \in Nat /\ (mess' = 0 => mess = 0 /\ Running = {})
  BY <1>1, <1>4
<1>10. /\ cmd'[c].pc = "load" /\ cmd'[c].name = n /\ cmd'[c].iNodes = disc.iNodes
       /\ cmd'[c].alone = (Running = {})
  BY <1>5, <1>7, Zenon
<1>11. \A d \in Commands \ {c} : /\ Alike(cmd'[d], cmd[d])
                                 /\ d \in Running => ~cmd'[d].alone
  BY <1>6
<1> QED
  BY <1>1, <1>8, <1>9, <1>10, <1>11, Zenon

\* Only the command c has taken a step: it is r now.
Moved(c, r) ==
  /\ cmd' \in [Commands -> CommandSet]
  /\ cmd'[c] = r
  /\ \A d \in Commands \ {c} : cmd'[d] = cmd[d]

\* How an update of one command is seen
LEMMA UpdateMoves ==
  ASSUME TypeOK, NEW c \in Commands, NEW r \in CommandSet,
         cmd' = [cmd EXCEPT ![c] = r]
  PROVE  Moved(c, r)
<1>1. cmd \in [Commands -> CommandSet]
  BY DEF TypeOK
<1> QED
  BY <1>1 DEF Moved

\* What LoadCopyTo does when the file is admitted
LEMMA LoadCopyToDoes ==
  ASSUME TypeOK, NEW c \in Commands, LoadCopyTo(c)
  PROVE  /\ cmd[c].pc = "load" /\ cmd[c].name \in Names
         /\ UNCHANGED <<disc, stored, exposed, mess>>
         /\ \/ Moved(c, Idle)
            \/ \E r \in CommandSet :
                 /\ Moved(c, r) /\ Sensible(r)
                 /\ r.pc = "inode" /\ r.name = cmd[c].name
                 /\ r.alone = cmd[c].alone
                 /\ r.dataBlocks = disc.dataBlocks
                 /\ WithName(cmd[c].iNodes, r.name) = {}
                 /\ r.index \in INodeIds /\ isINodeFree(cmd[c].iNodes[r.index])
                 /\ r.offset = getFirstFreeDataBlockIndex(disc.dataBlocks)
                 /\ r.offset \in FreeDataBlocks(disc.dataBlocks) \cup {-1}
<1>1. PICK s : s = cmd[c]
  OBVIOUS
<1>2. /\ s \in CommandSet /\ s.pc = "load" /\ s.name \in Names
      /\ UNCHANGED <<disc, stored, exposed, mess>>
  BY <1>1 DEF LoadCopyTo, TypeOK, Sensible
<1>3. CASE ~Admitted(c)
  <2>1. cmd' = [cmd EXCEPT ![c] = Idle]
    BY <1>3 DEF LoadCopyTo
  <2>2. Moved(c, Idle)
    BY <2>1, IdleFits, UpdateMoves
  <2> QED
    BY <1>1, <1>2, <2>2
<1>4. CASE Admitted(c)
  <2>1. PICK i, o, z : /\ i = Least(FreeINodes(s.iNodes))
                       /\ o = getFirstFreeDataBlockIndex(disc.dataBlocks)
                       /\ z = Contents[s.name].size
    OBVIOUS
  <2>2. PICK r : r = [s EXCEPT !.pc = "inode", !.iNodes = << >>,
                               !.dataBlocks = disc.dataBlocks, !.index = i,
                               !.offset = o, !.left = z]
    OBVIOUS
  <2>3. cmd' = [cmd EXCEPT ![c] = r]
    BY <1>1, <1>4, <2>1, <2>2 DEF LoadCopyTo
  <2>4. i \in FreeINodes(s.iNodes)
    <3>1. FreeINodes(s.iNodes) # {} /\ FreeINodes(s.iNodes) \in SUBSET Nat
      BY <1>1, <1>4, VfsAssumption DEF Admitted, FreeINodes, INodeIds
    <3> QED
      BY <2>1, <3>1, LeastNumber
  <2>5. i \in INodeIds /\ isINodeFree(s.iNodes[i])
    BY <2>4 DEF FreeINodes
  <2>6. o \in FreeDataBlocks(disc.dataBlocks) \cup {-1}
    BY <2>1, FreeOnes
  <2>7. o \in BlockIds \cup {-1} /\ o # NIL
        /\ (o \in BlockIds => disc.dataBlocks[o].data = ZERO)
    BY <2>6, Ids DEF FreeDataBlocks, isDataBlockFree
  <2>8. z \in Nat /\ disc.dataBlocks \in [BlockIds -> BlockSet]
    BY <1>2, <2>1, Sizes, DiscFields DEF TypeOK
  <2>9. /\ r.pc = "inode" /\ r.name = s.name /\ r.alone = s.alone
        /\ r.dataBlocks = disc.dataBlocks /\ r.index = i /\ r.offset = o
        /\ r.left = z /\ r \in CommandSet
    BY <1>2, <2>2, <2>5, <2>7, <2>8 DEF CommandSet
  <2>10. Sensible(r)
    BY <1>2, <2>1, <2>7, <2>8, <2>9 DEF Sensible
  <2>11. Moved(c, r)
    BY <2>3, <2>9, UpdateMoves
  <2>12. WithName(s.iNodes, s.name) = {}
    BY <1>1, <1>4 DEF Admitted
  <2>13. /\ Moved(c, r) /\ Sensible(r)
         /\ r.pc = "inode" /\ r.name = cmd[c].name
         /\ r.alone = cmd[c].alone
         /\ r.dataBlocks = disc.dataBlocks
         /\ WithName(cmd[c].iNodes, r.name) = {}
         /\ r.index \in INodeIds /\ isINodeFree(cmd[c].iNodes[r.index])
         /\ r.offset = getFirstFreeDataBlockIndex(disc.dataBlocks)
         /\ r.offset \in FreeDataBlocks(disc.dataBlocks) \cup {-1}
    BY <1>1, <2>1, <2>5, <2>6, <2>9, <2>10, <2>11, <2>12
  <2> QED
    BY <1>1, <1>2, <2>9, <2>13
<1> QED
  BY <1>3, <1>4

\* What LoadRemove does
LEMMA LoadRemoveDoes ==
  ASSUME TypeOK, NEW c \in Commands, LoadRemove(c)
  PROVE  /\ cmd[c].pc = "load" /\ cmd[c].name \in Names
         /\ UNCHANGED <<disc, mess>> /\ exposed' = exposed \cap stored'
         /\ \/ Moved(c, Idle) /\ UNCHANGED stored
            \/ /\ stored' = stored \ {cmd[c].name}
               /\ \E r \in CommandSet :
                    /\ Moved(c, r) /\ Sensible(r)
                    /\ r.pc = "clear" /\ r.name = cmd[c].name
                    /\ r.alone = cmd[c].alone
                    /\ r.dataBlocks = disc.dataBlocks
                    /\ r.index \in INodeIds
                    /\ r.index = getINodeIndex(cmd[c].iNodes, r.name)
                    /\ cmd[c].iNodes[r.index].fileName = r.name
                    /\ r.offset = cmd[c].iNodes[r.index].firstBlock
                    /\ ~r.stray => /\ r.name \in Safe
                                   /\ cmd[c].iNodes[r.index].fileSize # 0
<1>1. PICK s : s = cmd[c]
  OBVIOUS
<1>2. /\ s \in CommandSet /\ s.pc = "load" /\ s.name \in Names
      /\ s.iNodes \in [INodeIds -> INodeSet]
      /\ UNCHANGED <<disc, mess>> /\ exposed' = exposed \cap stored'
  BY <1>1 DEF LoadRemove, TypeOK, Sensible
<1>3. CASE WithName(s.iNodes, s.name) = {}
  <2>1. cmd' = [cmd EXCEPT ![c] = Idle] /\ UNCHANGED stored
    BY <1>1, <1>3 DEF LoadRemove
  <2>2. Moved(c, Idle)
    BY <2>1, IdleFits, UpdateMoves
  <2> QED
    BY <1>1, <1>2, <2>1, <2>2
<1>4. CASE WithName(s.iNodes, s.name) # {}
  <2>1. PICK i, o, y : /\ i = getINodeIndex(s.iNodes, s.name)
                       /\ o = s.iNodes[i].firstBlock
                       /\ y = (s.name \notin Safe \/ s.iNodes[i].fileSize = 0)
    OBVIOUS
  <2>2. PICK r : r = [s EXCEPT !.pc = "clear", !.iNodes = << >>,
                               !.dataBlocks = disc.dataBlocks, !.index = i,
                               !.stray = y, !.offset = o]
    OBVIOUS
  <2>3. cmd' = [cmd EXCEPT ![c] = r] /\ stored' = stored \ {s.name}
    BY <1>1, <1>4, <2>1, <2>2 DEF LoadRemove, Safe
  <2>4. i \in WithName(s.iNodes, s.name)
    <3>1. WithName(s.iNodes, s.name) \in SUBSET Nat
      BY VfsAssumption DEF WithName, INodeIds
    <3> QED
      BY <1>4, <2>1, <3>1, LeastNumber DEF getINodeIndex
  <2>5. i \in INodeIds /\ s.iNodes[i].fileName = s.name
    BY <2>4 DEF WithName
  <2>6. o \in BlockIds \cup {NIL, -1}
    BY <1>2, <2>1, <2>5 DEF INodeSet
  <2>7. y \in BOOLEAN /\ disc.dataBlocks \in [BlockIds -> BlockSet]
    BY <2>1, DiscFields DEF TypeOK
  <2>8. /\ r.pc = "clear" /\ r.name = s.name /\ r.alone = s.alone
        /\ r.dataBlocks = disc.dataBlocks /\ r.index = i /\ r.offset = o
        /\ r.stray = y /\ r \in CommandSet
    BY <1>2, <2>2, <2>5, <2>6, <2>7 DEF CommandSet
  <2>9. Sensible(r)
    BY <1>2, <2>7, <2>8 DEF Sensible
  <2>10. Moved(c, r)
    BY <2>3, <2>8, UpdateMoves
  <2>11. /\ r.name = cmd[c].name /\ r.alone = cmd[c].alone
         /\ r.index = getINodeIndex(cmd[c].iNodes, r.name)
         /\ cmd[c].iNodes[r.index].fileName = r.name
         /\ r.offset = cmd[c].iNodes[r.index].firstBlock
         /\ ~r.stray => /\ r.name \in Safe
                        /\ cmd[c].iNodes[r.index].fileSize # 0
    BY <1>1, <2>1, <2>5, <2>8
  <2> QED
    BY <1>1, <1>2, <2>3, <2>5, <2>8, <2>9, <2>10, <2>11
<1> QED
  BY <1>3, <1>4

\* The record of an inode that COPYTO writes
NewINode(r) == [fileName |-> r.name, fileSize |-> r.left, firstBlock |-> r.offset]

\* Only the inode i of the disc has changed: to inode.
INodeWritten(i, inode) ==
  /\ disc' \in DiscSet
  /\ disc'.exists = disc.exists /\ disc'.magic = disc.magic
  /\ disc'.dataBlocks = disc.dataBlocks
  /\ disc'.iNodes[i] = inode
  /\ \A j \in INodeIds \ {i} : disc'.iNodes[j] = disc.iNodes[j]

\* Only the block b of the disc has changed: to block.
BlockWritten(b, block) ==
  /\ disc' \in DiscSet
  /\ disc'.exists = disc.exists /\ disc'.magic = disc.magic
  /\ disc'.iNodes = disc.iNodes
  /\ disc'.dataBlocks = [disc.dataBlocks EXCEPT ![b] = block]

\* How the write of an inode is seen
LEMMA WritesINode ==
  ASSUME TypeOK, NEW i \in INodeIds, NEW inode \in INodeSet,
         disc' = [disc EXCEPT !.iNodes[i] = inode]
  PROVE  INodeWritten(i, inode)
<1>1. PICK d, e : d = disc /\ e = disc'
  OBVIOUS
<1>2. d \in DiscSet /\ e = [d EXCEPT !.iNodes = [d.iNodes EXCEPT ![i] = inode]]
  BY <1>1 DEF TypeOK
<1>3. PICK f : f = [d.iNodes EXCEPT ![i] = inode]
  OBVIOUS
<1>4. d.iNodes \in [INodeIds -> INodeSet]
  BY <1>2, DiscFields
<1>5. /\ f \in [INodeIds -> INodeSet] /\ f[i] = inode
      /\ \A j \in INodeIds \ {i} : f[j] = d.iNodes[j]
  BY <1>3, <1>4
<1>6. e = [d EXCEPT !.iNodes = f]
  BY <1>2, <1>3
<1>7. /\ e \in DiscSet /\ e.exists = d.exists /\ e.magic = d.magic
      /\ e.dataBlocks = d.dataBlocks /\ e.iNodes = f
  BY <1>2, <1>5, <1>6 DEF DiscSet
<1> QED
  BY <1>1, <1>5, <1>7 DEF INodeWritten

\* How the write of a block is seen
LEMMA WritesBlock ==
  ASSUME TypeOK, NEW b \in BlockIds, NEW block \in BlockSet,
         disc' = [disc EXCEPT !.dataBlocks[b] = block]
  PROVE  BlockWritten(b, block)
<1>1. PICK d, e : d = disc /\ e = disc'
  OBVIOUS
<1>2. d \in DiscSet /\ e = [d EXCEPT !.dataBlocks = [d.dataBlocks EXCEPT ![b] = block]]
  BY <1>1 DEF TypeOK
<1>3. PICK f : f = [d.dataBlocks EXCEPT ![b] = block]
  OBVIOUS
<1>4. d.dataBlocks \in [BlockIds -> BlockSet]
  BY <1>2, DiscFields
<1>5. f \in [BlockIds -> BlockSet]
  BY <1>3, <1>4
<1>6. e = [d EXCEPT !.dataBlocks = f]
  BY <1>2, <1>3
<1>7. /\ e \in DiscSet /\ e.exists = d.exists /\ e.magic = d.magic
      /\ e.iNodes = d.iNodes /\ e.dataBlocks = f
  BY <1>2, <1>5, <1>6 DEF DiscSet
<1> QED
  BY <1>1, <1>3, <1>7 DEF BlockWritten

\* The end of a COPYTO
Stores(c) ==
  /\ stored' = IF cmd[c].alone THEN stored \cup {cmd[c].name} ELSE stored
  /\ exposed' = exposed \ {cmd[c].name}

\* What WriteINode does: an empty file is finished, another one is begun.
LEMMA WriteINodeDoes ==
  ASSUME TypeOK, NEW c \in Commands, WriteINode(c)
  PROVE  /\ cmd[c].pc = "inode" /\ cmd[c].name \in Names /\ UNCHANGED mess
         /\ INodeWritten(cmd[c].index, NewINode(cmd[c]))
         /\ cmd[c].left = Contents[cmd[c].name].size /\ cmd[c].offset # NIL
         /\ \/ /\ cmd[c].left = 0 /\ Moved(c, Idle) /\ Stores(c)
            \/ /\ cmd[c].left > 0 /\ UNCHANGED <<stored, exposed>>
               /\ \E r \in CommandSet :
                    /\ Moved(c, r) /\ Sensible(r)
                    /\ r.pc = "block" /\ r.name = cmd[c].name
                    /\ r.dataBlocks = cmd[c].dataBlocks
                    /\ r.index = cmd[c].index /\ r.offset = cmd[c].offset
                    /\ r.left = cmd[c].left /\ r.alone = cmd[c].alone
<1>1. PICK s : s = cmd[c]
  OBVIOUS
<1>2. /\ s \in CommandSet /\ s.pc = "inode" /\ s.name \in Names /\ UNCHANGED mess
      /\ s.dataBlocks \in [BlockIds -> BlockSet]
      /\ s.left = Contents[s.name].size /\ s.offset # NIL
      /\ s.offset \in BlockIds => s.dataBlocks[s.offset].data = ZERO
  BY <1>1 DEF WriteINode, TypeOK, Sensible
<1>3. /\ s.index \in INodeIds /\ s.left \in Nat
      /\ s.offset \in BlockIds \cup {NIL, -1} /\ s.name \in Names \cup {NoName}
  BY <1>2, CommandFields
<1>4. NewINode(s) \in INodeSet
  BY <1>3 DEF NewINode, INodeSet
<1>5. INodeWritten(s.index, NewINode(s))
  <2>1. disc' = [disc EXCEPT !.iNodes[s.index] = NewINode(s)]
    BY <1>1 DEF WriteINode, NewINode
  <2> QED
    BY <1>3, <1>4, <2>1, WritesINode
<1>6. CASE s.left = 0
  <2>1. cmd' = [cmd EXCEPT ![c] = Idle] /\ Stores(c)
    BY <1>1, <1>6 DEF WriteINode, Finished, Stores
  <2>2. Moved(c, Idle)
    BY <2>1, IdleFits, UpdateMoves
  <2> QED
    BY <1>1, <1>2, <1>5, <1>6, <2>1, <2>2
<1>7. CASE s.left # 0
  <2>1. PICK r : r = [s EXCEPT !.pc = "block"]
    OBVIOUS
  <2>2. cmd' = [cmd EXCEPT ![c] = r] /\ UNCHANGED <<stored, exposed>>
    BY <1>1, <1>7, <2>1 DEF WriteINode
  <2>3. /\ r.pc = "block" /\ r.name = s.name /\ r.dataBlocks = s.dataBlocks
        /\ r.index = s.index /\ r.offset = s.offset /\ r.left = s.left
        /\ r.alone = s.alone /\ r \in CommandSet
    BY <1>2, <2>1 DEF CommandSet
  <2>4. s.left > 0 /\ Place(s.name, s.left) \in 1..Length(s.name)
    <3>1. s.left > 0
      BY <1>3, <1>7
    <3>2. Length(s.name) \in Nat /\ Length(s.name) > 0 /\ Place(s.name, s.left) = 1
      BY <1>2, <3>1, Sizes
    <3> QED
      BY <3>1, <3>2
  <2>5. Sensible(r)
    BY <1>2, <2>3, <2>4 DEF Sensible
  <2>6. Moved(c, r)
    BY <2>2, <2>3, UpdateMoves
  <2> QED
    BY <1>1, <1>2, <1>5, <2>2, <2>3, <2>4, <2>5, <2>6
<1> QED
  BY <1>6, <1>7

\* What WriteDataBlock does: block x is written to b, and the file is finished
\* or the COPYTO goes on where x is linked to.
LEMMA WriteDataBlockDoes ==
  ASSUME TypeOK, NEW c \in Commands, WriteDataBlock(c)
  PROVE  /\ cmd[c].pc = "block" /\ cmd[c].name \in Names /\ UNCHANGED mess
         /\ cmd[c].offset \in BlockIds
         /\ Reached(c) \in 1..Length(cmd[c].name)
         /\ cmd[c].dataBlocks[cmd[c].offset].data = ZERO
         /\ \E x \in BlockSet :
              /\ BlockWritten(cmd[c].offset, x)
              /\ x.data = Contents[cmd[c].name].data[Reached(c)]
              /\ x.data # ZERO
              /\ \/ /\ Reached(c) = Length(cmd[c].name) /\ x.nextBlock = 0
                    /\ Moved(c, Idle) /\ Stores(c)
                 \/ /\ Reached(c) < Length(cmd[c].name)
                    /\ UNCHANGED <<stored, exposed>>
                    /\ \/ x.nextBlock = NIL
                       \/ /\ x.nextBlock \in FreeDataBlocks(cmd[c].dataBlocks)
                          /\ x.nextBlock > cmd[c].offset
                    /\ \E r \in CommandSet :
                         /\ Moved(c, r) /\ Sensible(r)
                         /\ r.pc = "block" /\ r.name = cmd[c].name
                         /\ r.dataBlocks = [cmd[c].dataBlocks EXCEPT ![cmd[c].offset] = x]
                         /\ r.index = cmd[c].index /\ r.offset = x.nextBlock
                         /\ Place(r.name, r.left) = Reached(c) + 1
                         /\ r.alone = cmd[c].alone
<1>1. PICK s : s = cmd[c]
  OBVIOUS
<1>2. PICK b, n, p : b = s.offset /\ n = s.name /\ p = Place(n, s.left)
  OBVIOUS
<1>3. /\ s \in CommandSet /\ s.pc = "block" /\ n \in Names /\ UNCHANGED mess
      /\ b \in BlockIds
      /\ s.dataBlocks \in [BlockIds -> BlockSet]
      /\ s.left > 0 /\ p \in 1..Length(n)
      /\ s.dataBlocks[b].data = ZERO
  BY <1>1, <1>2 DEF WriteDataBlock, TypeOK, Sensible
<1>4. s.left \in Nat
  BY <1>3, CommandFields
<1>5. /\ s.left <= BLOCK_SIZE => p = Length(n)
      /\ s.left > BLOCK_SIZE => /\ s.left - BLOCK_SIZE \in Nat
                                /\ s.left - BLOCK_SIZE > 0
                                /\ Place(n, s.left - BLOCK_SIZE) = p + 1
                                /\ p < Length(n)
      /\ NextData(n, s.left) = Contents[n].data[p]
  BY <1>2, <1>3, <1>4, Places
<1>6. PICK x : x = NewBlock(s.dataBlocks, b, n, s.left)
  OBVIOUS
<1>7. PICK y : y = getNextFreeDataBlockIndex(s.dataBlocks, b)
  OBVIOUS
<1>8. y = -1 \/ (y \in FreeDataBlocks(s.dataBlocks) /\ y > b)
  BY <1>3, <1>7, FreeOnes
<1>9. x = [data |-> Contents[n].data[p],
           nextBlock |-> IF s.left <= BLOCK_SIZE THEN 0
                         ELSE IF y = -1 THEN NIL ELSE y]
  BY <1>5, <1>6, <1>7 DEF NewBlock
<1>10. /\ x.data = Contents[n].data[p] /\ x.data # ZERO
       /\ s.left <= BLOCK_SIZE => x.nextBlock = 0
       /\ s.left > BLOCK_SIZE =>
            x.nextBlock = NIL \/ (x.nextBlock \in FreeDataBlocks(s.dataBlocks) /\ x.nextBlock > b)
  <2>1. Contents[n].data[p] # ZERO
    BY <1>3, Sizes
  <2>2. /\ x.data = Contents[n].data[p]
        /\ x.nextBlock = IF s.left <= BLOCK_SIZE THEN 0
                         ELSE IF y = -1 THEN NIL ELSE y
    BY <1>9
  <2>3. s.left <= BLOCK_SIZE \/ s.left > BLOCK_SIZE
    BY <1>4, VfsAssumption
  <2>4. s.left > BLOCK_SIZE => ~(s.left <= BLOCK_SIZE)
    BY <1>4, VfsAssumption
  <2> QED
    BY <1>8, <2>1, <2>2, <2>4
<1>11. x \in BlockSet
  <2>1. Contents[n].data[p] \in Used
    BY <1>3 DEF Used
  <2>2. y = -1 \/ y \in BlockIds
    BY <1>8 DEF FreeDataBlocks
  <2> QED
    BY <1>9, <2>1, <2>2, Ids DEF BlockSet
<1>12. BlockWritten(b, x)
  <2>1. disc' = [disc EXCEPT !.dataBlocks[b] = x]
    BY <1>1, <1>2, <1>6 DEF WriteDataBlock
  <2> QED
    BY <1>3, <1>11, <2>1, WritesBlock
<1>13. p = Reached(c)
  BY <1>1, <1>2 DEF Reached
<1>14. CASE s.left <= BLOCK_SIZE
  <2>1. cmd' = [cmd EXCEPT ![c] = Idle] /\ Stores(c)
    BY <1>1, <1>14 DEF WriteDataBlock, Finished, Stores
  <2>2. Moved(c, Idle)
    BY <2>1, IdleFits, UpdateMoves
  <2>3. /\ BlockWritten(cmd[c].offset, x)
        /\ x.data = Contents[cmd[c].name].data[Reached(c)] /\ x.data # ZERO
        /\ Reached(c) = Length(cmd[c].name) /\ x.nextBlock = 0
        /\ Moved(c, Idle) /\ Stores(c)
    BY <1>1, <1>2, <1>5, <1>10, <1>12, <1>13, <1>14, <2>1, <2>2
  <2> QED
    BY <1>1, <1>2, <1>3, <1>11, <1>13, <2>3
<1>15. CASE s.left > BLOCK_SIZE
  <2>1. PICK r, bs, o : /\ bs = [s.dataBlocks EXCEPT ![b] = x]
                        /\ o = x.nextBlock
                        /\ r = [s EXCEPT !.dataBlocks = bs, !.offset = o,
                                         !.left = s.left - BLOCK_SIZE]
    OBVIOUS
  <2>2. ~(s.left <= BLOCK_SIZE)
    BY <1>4, <1>15, VfsAssumption
  <2>3. cmd' = [cmd EXCEPT ![c] = r] /\ UNCHANGED <<stored, exposed>>
    <3>1. cmd' = [cmd EXCEPT ![c] = [@ EXCEPT !.dataBlocks[b] = x, !.offset = x.nextBlock,
                                              !.left = s.left - BLOCK_SIZE]]
          /\ UNCHANGED <<stored, exposed>>
      BY <1>1, <1>2, <1>6, <2>2 DEF WriteDataBlock
    <3>2. [s EXCEPT !.dataBlocks[b] = x, !.offset = x.nextBlock,
                    !.left = s.left - BLOCK_SIZE] = r
      BY <2>1
    <3> QED
      BY <1>1, <3>1, <3>2
  <2>4. o \in BlockIds \cup {NIL}
    BY <1>11, <2>1 DEF BlockSet
  <2>5. bs \in [BlockIds -> BlockSet]
    BY <1>3, <1>11, <2>1
  <2>6. /\ r.pc = "block" /\ r.name = n /\ r.dataBlocks = bs
        /\ r.index = s.index /\ r.offset = o /\ r.left = s.left - BLOCK_SIZE
        /\ r.alone = s.alone /\ r \in CommandSet
    BY <1>2, <1>3, <1>5, <1>15, <2>1, <2>4, <2>5 DEF CommandSet
  <2>7. o \in BlockIds => bs[o].data = ZERO
    <3>1. o \in BlockIds => o \in FreeDataBlocks(s.dataBlocks) /\ o > b
      BY <1>10, <1>15, <2>1, Ids
    <3>2. o \in BlockIds => bs[o] = s.dataBlocks[o]
      BY <1>3, <2>1, <3>1, Ids
    <3> QED
      BY <3>1, <3>2 DEF FreeDataBlocks, isDataBlockFree
  <2>8. Place(r.name, r.left) = p + 1 /\ p + 1 \in 1..Length(n) /\ r.left > 0
    <3>1. Length(n) \in Nat
      BY <1>3, Sizes
    <3>2. Place(r.name, r.left) = p + 1 /\ p < Length(n) /\ r.left > 0
      BY <1>5, <1>15, <2>6
    <3> QED
      BY <1>3, <3>1, <3>2
  <2>9. Sensible(r)
    BY <1>3, <2>5, <2>6, <2>7, <2>8 DEF Sensible
  <2>10. Moved(c, r)
    BY <2>3, <2>6, UpdateMoves
  <2>11. /\ Moved(c, r) /\ Sensible(r)
         /\ r.pc = "block" /\ r.name = cmd[c].name
         /\ r.dataBlocks = [cmd[c].dataBlocks EXCEPT ![cmd[c].offset] = x]
         /\ r.index = cmd[c].index /\ r.offset = x.nextBlock
         /\ Place(r.name, r.left) = Reached(c) + 1
         /\ r.alone = cmd[c].alone
    BY <1>1, <1>2, <1>13, <2>1, <2>6, <2>8, <2>9, <2>10
  <2>12. /\ BlockWritten(cmd[c].offset, x)
         /\ x.data = Contents[cmd[c].name].data[Reached(c)] /\ x.data # ZERO
         /\ Reached(c) < Length(cmd[c].name)
         /\ UNCHANGED <<stored, exposed>>
         /\ \/ x.nextBlock = NIL
            \/ /\ x.nextBlock \in FreeDataBlocks(cmd[c].dataBlocks)
               /\ x.nextBlock > cmd[c].offset
    BY <1>1, <1>2, <1>5, <1>10, <1>12, <1>13, <1>15, <2>3
  <2> QED
    BY <1>1, <1>2, <1>3, <1>11, <1>13, <2>6, <2>11, <2>12
<1>16. s.left <= BLOCK_SIZE \/ s.left > BLOCK_SIZE
  BY <1>4, VfsAssumption
<1> QED
  BY <1>14, <1>15, <1>16, Zenon

\* What ClearDataBlock does
LEMMA ClearDataBlockDoes ==
  ASSUME TypeOK, NEW c \in Commands, ClearDataBlock(c)
  PROVE  /\ cmd[c].pc = "clear" /\ cmd[c].name \in Names
         /\ UNCHANGED <<stored, mess>>
         /\ cmd[c].offset \in BlockIds
         /\ DataBlock \in BlockSet
         /\ BlockWritten(cmd[c].offset, DataBlock)
         /\ exposed' = exposed \cup {n \in stored : \/ mess > 0 \/ cmd[c].stray
                                                   \/ FirstOf(disc, n) = 0}
         /\ \E r \in CommandSet :
              /\ Moved(c, r) /\ Sensible(r)
              /\ r.pc = "clear" /\ r.name = cmd[c].name
              /\ r.dataBlocks = [cmd[c].dataBlocks EXCEPT ![cmd[c].offset] = DataBlock]
              /\ r.index = cmd[c].index
              /\ r.offset = cmd[c].dataBlocks[cmd[c].offset].nextBlock
              /\ r.alone = cmd[c].alone /\ r.stray = cmd[c].stray
<1>1. PICK s, b : s = cmd[c] /\ b = s.offset
  OBVIOUS
<1>2. /\ s \in CommandSet /\ s.pc = "clear" /\ s.name \in Names
      /\ UNCHANGED <<stored, mess>> /\ b \in BlockIds
      /\ s.dataBlocks \in [BlockIds -> BlockSet]
  BY <1>1 DEF ClearDataBlock, TypeOK, Sensible
<1>3. DataBlock \in BlockSet
  BY DEF DataBlock, BlockSet
<1>4. BlockWritten(b, DataBlock)
  <2>1. disc' = [disc EXCEPT !.dataBlocks[b] = DataBlock]
    BY <1>1 DEF ClearDataBlock
  <2> QED
    BY <1>2, <1>3, <2>1, WritesBlock
<1>5. exposed' = exposed \cup {n \in stored : \/ mess > 0 \/ cmd[c].stray
                                              \/ FirstOf(disc, n) = 0}
  BY DEF ClearDataBlock, FirstOf, IndexOf
<1>6. PICK r, bs, o : /\ bs = [s.dataBlocks EXCEPT ![b] = DataBlock]
                      /\ o = s.dataBlocks[b].nextBlock
                      /\ r = [s EXCEPT !.dataBlocks = bs, !.offset = o]
  OBVIOUS
<1>7. cmd' = [cmd EXCEPT ![c] = r]
  <2>1. cmd' = [cmd EXCEPT ![c] = [@ EXCEPT !.dataBlocks = bs, !.offset = o]]
    BY <1>1, <1>6 DEF ClearDataBlock, Cleared, NextBlock
  <2> QED
    BY <1>1, <1>6, <2>1
<1>8. o \in BlockIds \cup {NIL}
  <2>1. s.dataBlocks[b] \in BlockSet
    BY <1>2
  <2> QED
    BY <1>6, <2>1 DEF BlockSet
<1>9. bs \in [BlockIds -> BlockSet]
  BY <1>2, <1>3, <1>6
<1>10. /\ r.pc = "clear" /\ r.name = s.name /\ r.dataBlocks = bs
       /\ r.index = s.index /\ r.offset = o /\ r.alone = s.alone
       /\ r.stray = s.stray /\ r \in CommandSet
  BY <1>2, <1>6, <1>8, <1>9 DEF CommandSet
<1>11. Sensible(r)
  BY <1>2, <1>9, <1>10 DEF Sensible
<1>12. Moved(c, r)
  BY <1>7, <1>10, UpdateMoves
<1>13. /\ Moved(c, r) /\ Sensible(r)
       /\ r.pc = "clear" /\ r.name = cmd[c].name
       /\ r.dataBlocks = [cmd[c].dataBlocks EXCEPT ![cmd[c].offset] = DataBlock]
       /\ r.index = cmd[c].index
       /\ r.offset = cmd[c].dataBlocks[cmd[c].offset].nextBlock
       /\ r.alone = cmd[c].alone /\ r.stray = cmd[c].stray
  BY <1>1, <1>6, <1>10, <1>11, <1>12
<1> QED
  BY <1>1, <1>2, <1>3, <1>4, <1>5, <1>10, <1>13

\* What ClearINode does
LEMMA ClearINodeDoes ==
  ASSUME TypeOK, NEW c \in Commands, ClearINode(c)
  PROVE  /\ cmd[c].pc = "clear" /\ cmd[c].offset = NIL
         /\ UNCHANGED <<stored, exposed, mess>>
         /\ cmd[c].index \in INodeIds
         /\ INodeWritten(cmd[c].index, INode)
         /\ Moved(c, Idle)
<1>1. PICK s : s = cmd[c]
  OBVIOUS
<1>2. /\ s \in CommandSet /\ s.pc = "clear" /\ s.offset = NIL
      /\ UNCHANGED <<stored, exposed, mess>>
      /\ disc' = [disc EXCEPT !.iNodes[s.index] = INode]
      /\ cmd' = [cmd EXCEPT ![c] = Idle]
  BY <1>1 DEF ClearINode, TypeOK
<1>3. s.index \in INodeIds
  BY <1>2, CommandFields
<1>4. INode \in INodeSet
  BY DEF INode, INodeSet
<1>5. INodeWritten(s.index, INode)
  BY <1>2, <1>3, <1>4, WritesINode
<1>6. Moved(c, Idle)
  BY <1>2, IdleFits, UpdateMoves
<1> QED
  BY <1>1, <1>2, <1>3, <1>5, <1>6

\* What an end that nobody planned does
LEMMA EndDoes ==
  ASSUME TypeOK, NEW c \in Commands, OutOfBounds(c) \/ Killed(c)
  PROVE  /\ cmd[c].pc \in {"inode", "block", "clear"}
         /\ Moved(c, Idle) /\ UNCHANGED stored
         /\ mess' \in Nat /\ mess' # 0
         /\ \/ UNCHANGED <<disc, exposed>>
            \/ /\ exposed' = stored /\ disc' \in DiscSet
               /\ disc'.exists = disc.exists /\ disc'.iNodes = disc.iNodes
               /\ disc'.dataBlocks = disc.dataBlocks
<1>1. cmd[c] \in CommandSet /\ mess \in Nat /\ disc \in DiscSet
  BY DEF TypeOK
<1>2. cmd[c].pc \in {"inode", "block", "clear"}
  BY <1>1, CommandFields DEF OutOfBounds, Killed
<1>3. Dies(c)
  BY DEF OutOfBounds, Killed
<1>4. cmd' = [cmd EXCEPT ![c] = Idle] /\ UNCHANGED stored
      /\ mess' = IF mess = 0 \/ mess < MaxMess THEN mess + 1 ELSE mess
  BY <1>3 DEF Dies
<1>5. Moved(c, Idle)
  BY <1>4, IdleFits, UpdateMoves
<1>6. mess' \in Nat /\ mess' # 0
  BY <1>1, <1>4
<1>7. \/ UNCHANGED <<disc, exposed>>
      \/ disc' = [disc EXCEPT !.magic = FALSE] /\ exposed' = stored
  BY DEF OutOfBounds, Killed
<1>8. ASSUME disc' = [disc EXCEPT !.magic = FALSE]
      PROVE  /\ disc' \in DiscSet
             /\ disc'.exists = disc.exists /\ disc'.iNodes = disc.iNodes
             /\ disc'.dataBlocks = disc.dataBlocks
  <2>1. PICK d, e : d = disc /\ e = [d EXCEPT !.magic = FALSE]
    OBVIOUS
  <2>2. /\ e \in DiscSet /\ e.exists = d.exists /\ e.iNodes = d.iNodes
        /\ e.dataBlocks = d.dataBlocks
    BY <1>1, <2>1 DEF DiscSet
  <2> QED
    BY <1>8, <2>1, <2>2
<1> QED
  BY <1>2, <1>5, <1>4, <1>6, <1>7, <1>8

\* An empty disc is one.
LEMMA EmptyFits ==
  /\ Empty \in DiscSet
  /\ \A b \in BOOLEAN : /\ [Empty EXCEPT !.exists = b] \in DiscSet
                        /\ [Empty EXCEPT !.exists = b].exists = b
                        /\ [Empty EXCEPT !.exists = b].dataBlocks = Empty.dataBlocks
                        /\ [Empty EXCEPT !.magic = b] \in DiscSet
                        /\ [Empty EXCEPT !.magic = b].exists = TRUE
                        /\ [Empty EXCEPT !.magic = b].dataBlocks = Empty.dataBlocks
  /\ Empty.exists
  /\ \A b \in BlockIds : /\ Empty.dataBlocks[b].data = ZERO
                         /\ Empty.dataBlocks[b].nextBlock = NIL
<1>1. PICK f, g : f = [i \in INodeIds |-> INode] /\ g = [b \in BlockIds |-> DataBlock]
  OBVIOUS
<1>2. Empty = [exists |-> TRUE, magic |-> FALSE, iNodes |-> f, dataBlocks |-> g]
  BY <1>1 DEF Empty
<1>3. f \in [INodeIds -> INodeSet]
  BY <1>1 DEF INode, INodeSet
<1>4. g \in [BlockIds -> BlockSet]
  BY <1>1 DEF DataBlock, BlockSet
<1>5. Empty \in DiscSet
  BY <1>2, <1>3, <1>4 DEF DiscSet
<1>6. \A b \in BlockIds : g[b].data = ZERO /\ g[b].nextBlock = NIL
  BY <1>1 DEF DataBlock
<1>7. ASSUME NEW b \in BOOLEAN
      PROVE  /\ [Empty EXCEPT !.exists = b] \in DiscSet
             /\ [Empty EXCEPT !.exists = b].exists = b
             /\ [Empty EXCEPT !.exists = b].dataBlocks = Empty.dataBlocks
             /\ [Empty EXCEPT !.magic = b] \in DiscSet
             /\ [Empty EXCEPT !.magic = b].exists = TRUE
             /\ [Empty EXCEPT !.magic = b].dataBlocks = Empty.dataBlocks
  <2>1. PICK e, m : e = [Empty EXCEPT !.exists = b] /\ m = [Empty EXCEPT !.magic = b]
    OBVIOUS
  <2>2. e = [exists |-> b, magic |-> FALSE, iNodes |-> f, dataBlocks |-> g]
    BY <1>2, <2>1
  <2>3. m = [exists |-> TRUE, magic |-> b, iNodes |-> f, dataBlocks |-> g]
    BY <1>2, <2>1
  <2>4. e \in DiscSet /\ m \in DiscSet
    BY <1>3, <1>4, <2>2, <2>3 DEF DiscSet
  <2>5. /\ e.exists = b /\ e.dataBlocks = g /\ m.exists = TRUE /\ m.dataBlocks = g
        /\ Empty.dataBlocks = g
    BY <1>2, <2>2, <2>3
  <2> QED
    BY <2>1, <2>4, <2>5
<1> QED
  BY <1>2, <1>5, <1>6, <1>7

\* What Create and Delete do
LEMMA CreateDeleteDo ==
  ASSUME TypeOK, Absent, Create \/ Delete
  PROVE  /\ Running = {} /\ UNCHANGED cmd
         /\ disc' \in DiscSet /\ disc'.dataBlocks = Empty.dataBlocks
         /\ stored' = {} /\ exposed' \subseteq Names /\ mess' \in Nat
<1>1. CASE Create
  <2>1. /\ Running = {} /\ ~disc.exists /\ UNCHANGED <<cmd, stored, exposed, mess>>
        /\ disc' \in {Empty, [Empty EXCEPT !.magic = TRUE]}
    BY <1>1 DEF Create
  <2>2. stored = {} /\ exposed \subseteq Names /\ mess \in Nat
    BY <2>1 DEF Absent, TypeOK
  <2>3. disc' \in DiscSet /\ disc'.dataBlocks = Empty.dataBlocks
    BY <2>1, EmptyFits
  <2> QED
    BY <2>1, <2>2, <2>3
<1>2. CASE Delete
  BY <1>2, EmptyFits DEF Delete
<1> QED
  BY <1>1, <1>2
-----------------------------------------------------------------------------
(* What a step must leave alone *)

\* Types after the step of one command
LEMMA TypesStay ==
  ASSUME TypeOK, NEW c \in Commands, NEW r, Moved(c, r), Sensible(r),
         disc' \in DiscSet, stored' \subseteq Names, exposed' \subseteq Names,
         mess' \in Nat
  PROVE  TypeOK'
<1>1. \A d \in Commands : Sensible(cmd[d])
  BY DEF TypeOK
<1>2. \A d \in Commands : Sensible(cmd'[d])
  BY <1>1 DEF Moved
<1>3. cmd' \in [Commands -> CommandSet]
  BY DEF Moved
<1>4. \A d \in Commands : Sensible(cmd[d])'
  BY <1>2 DEF Sensible
<1> QED
  BY <1>3, <1>4 DEF TypeOK

\* Where a file was stored and safe, it stays so when its inode and blocks do
\* and the command that moves spares them.
LEMMA FilesStay ==
  ASSUME TypeOK, \A n \in stored : Kept(n), \A n \in Safe : Intact(n),
         NEW c \in Commands, NEW r, Moved(c, r),
         NEW n \in stored,
         disc'.iNodes[IndexOf(disc, n)] = disc.iNodes[IndexOf(disc, n)],
         WithName(disc'.iNodes, n) = {IndexOf(disc, n)},
         SparesINode(r, n, IndexOf(disc, n), disc.iNodes[IndexOf(disc, n)])
  PROVE  /\ Kept(n)'
         /\ IndexOf(disc', n) = IndexOf(disc, n)
         /\ FirstOf(disc', n) = FirstOf(disc, n)
         /\ (\A b \in On(disc, n) : disc'.dataBlocks[b] = disc.dataBlocks[b])
              => /\ On(disc', n) = On(disc, n)
                 /\ n \in Safe /\ disc'.magic /\ SparesBlocks(r, On(disc, n))
                      => Intact(n)'
<1>1. PICK i, inode : i = IndexOf(disc, n) /\ inode = disc.iNodes[i]
  OBVIOUS
<1>2. /\ OneINode(disc, n) /\ inode.fileSize = Contents[n].size
      /\ FirstOf(disc, n) # NIL
      /\ \A d \in Commands : SparesINode(cmd[d], n, i, inode)
  BY <1>1 DEF Kept
<1>3. IndexOf(disc', n) = i /\ OneINode(disc', n)
  BY <1>1, FoundINode
<1>4. FirstOf(disc', n) = FirstOf(disc, n)
  BY <1>1, <1>3 DEF FirstOf
<1>5. \A d \in Commands : SparesINode(cmd'[d], n, i, inode)
  BY <1>1, <1>2 DEF Moved
<1>6. Kept(n)'
  <2>1. IndexOf(disc, n)' = i
    BY <1>3 DEF IndexOf
  <2>2. disc'.iNodes[i] = inode
    BY <1>1
  <2>3. \A d \in Commands :
          SparesINode(cmd[d], n, IndexOf(disc, n), disc.iNodes[IndexOf(disc, n)])'
    BY <1>5, <2>1, <2>2 DEF SparesINode
  <2>4. OneINode(disc, n)'
    BY <1>3 DEF OneINode, IndexOf
  <2>5. FirstOf(disc, n)' # NIL
    BY <1>2, <1>4 DEF FirstOf, IndexOf
  <2>6. disc'.iNodes[IndexOf(disc, n)'].fileSize = Contents[n].size
    BY <1>2, <2>1, <2>2
  <2> QED
    BY <2>3, <2>4, <2>5, <2>6 DEF Kept
<1>7. ASSUME \A b \in On(disc, n) : disc'.dataBlocks[b] = disc.dataBlocks[b]
      PROVE  /\ On(disc', n) = On(disc, n)
             /\ Whole(disc, n) => Whole(disc', n)
  <2>1. n \in Names /\ OneINode(disc, n)
    BY <1>2 DEF TypeOK
  <2>2. disc'.iNodes[IndexOf(disc, n)] = disc.iNodes[IndexOf(disc, n)]
        /\ IndexOf(disc', n) = IndexOf(disc, n)
    BY <1>1, <1>3
  <2> QED
    BY <1>3, <1>7, <2>1, <2>2, WholeStays
<1>8. ASSUME \A b \in On(disc, n) : disc'.dataBlocks[b] = disc.dataBlocks[b],
             n \in Safe, disc'.magic, SparesBlocks(r, On(disc, n))
      PROVE  Intact(n)'
  <2>1. Whole(disc, n) /\ \A d \in Commands : SparesBlocks(cmd[d], On(disc, n))
    BY <1>8 DEF Intact
  <2>2. On(disc', n) = On(disc, n) /\ Whole(disc', n)
    BY <1>7, <1>8, <2>1
  <2>3. \A d \in Commands : SparesBlocks(cmd'[d], On(disc', n))
    BY <1>8, <2>1, <2>2 DEF Moved
  <2>4. \A d \in Commands : SparesBlocks(cmd[d], On(disc, n))'
    BY <2>3 DEF SparesBlocks, On, Path, FirstOf, IndexOf
  <2>5. Whole(disc, n)'
    BY <2>2 DEF Whole, Path, FirstOf, IndexOf
  <2> QED
    BY <1>8, <2>4, <2>5 DEF Intact
<1> QED
  BY <1>1, <1>3, <1>4, <1>6, <1>7, <1>8

\* The command that moves is the only one that may be alone.
LEMMA AloneStays ==
  ASSUME TypeOK, FilesInv, NEW c \in Running, NEW r, Moved(c, r),
         r.pc # "idle" => r.alone = cmd[c].alone,
         r.pc # "idle" /\ r.alone => Lone(c)',
         mess' = 0 => mess = 0
  PROVE  /\ \A d \in Running' : cmd'[d].alone => Lone(d)'
         /\ mess' = 0 => \A d \in Running' : cmd'[d].alone
<1>1. c \in Commands
  BY DEF Running
<1>2. ASSUME NEW d \in Running', d # c
      PROVE  d \in Running /\ cmd'[d] = cmd[d] /\ ~cmd[d].alone
  <2>1. d \in Commands /\ cmd'[d].pc # "idle" /\ cmd'[d] = cmd[d]
    BY <1>2 DEF Running, Moved
  <2>2. d \in Running
    BY <2>1 DEF Running
  <2>3. cmd[d].alone => Lone(d)
    BY <2>2 DEF FilesInv
  <2>4. Lone(d) => Running = {d}
    BY DEF Lone
  <2> QED
    BY <1>2, <2>1, <2>2, <2>3, <2>4
<1>3. cmd'[c] = r
  BY DEF Moved
<1>4. \A d \in Running' : cmd'[d].alone => Lone(d)'
  <2> TAKE d \in Running'
  <2>1. CASE d = c
    <3>1. cmd'[d].pc # "idle"
      BY DEF Running
    <3> QED
      BY <1>3, <2>1, <3>1
  <2>2. CASE d # c
    BY <1>2, <2>2
  <2> QED
    BY <2>1, <2>2
<1>5. ASSUME mess' = 0, NEW d \in Running' PROVE cmd'[d].alone
  <2>1. \A e \in Running : cmd[e].alone
    BY <1>5 DEF FilesInv
  <2>2. d = c
    BY <1>2, <2>1
  <2>3. r.pc # "idle"
    BY <1>3, <2>2 DEF Running
  <2> QED
    BY <1>3, <2>1, <2>2, <2>3
<1> QED
  BY <1>4, <1>5

\* Who is alone runs alone.
LEMMA LoneRuns ==
  ASSUME TypeOK, FilesInv, NEW c \in Commands, cmd[c].pc # "idle"
  PROVE  /\ c \in Running /\ disc.exists
         /\ cmd[c].alone => Lone(c) /\ Running = {c}
         /\ mess = 0 => cmd[c].alone
<1>1. c \in Running
  BY DEF Running
<1>2. disc.exists
  BY <1>1 DEF FilesInv, Absent
<1>3. cmd[c].alone => Lone(c) /\ Running = {c}
  BY <1>1 DEF FilesInv, Lone
<1>4. mess = 0 => cmd[c].alone
  BY <1>1 DEF FilesInv
<1> QED
  BY <1>1, <1>2, <1>3, <1>4

\* The parts of FilesInv after a step on a disc that is there
LEMMA FilesParts ==
  ASSUME disc'.exists,
         \A n \in stored' : Kept(n)',
         \A n \in Safe' : Intact(n)',
         \A m, n \in Safe' : m # n => On(disc', m) \cap On(disc', n) = {},
         \A d \in Running' : cmd'[d].alone => Lone(d)',
         mess' = 0 => \A d \in Running' : cmd'[d].alone,
         \A b \in BlockIds : disc'.dataBlocks[b].data = ZERO
                                => disc'.dataBlocks[b].nextBlock = NIL
  PROVE  FilesInv'
<1>1. Apart'
  BY DEF Apart, On, Path, FirstOf, IndexOf
<1>2. \A b \in BlockIds : Free(b)' => Link(b)' = NIL
  BY DEF Free, Link, isDataBlockFree
<1>3. Absent'
  BY DEF Absent
<1> QED
  BY <1>1, <1>2, <1>3 DEF FilesInv
-----------------------------------------------------------------------------
(* The steps keep FilesInv *)

\* A command that starts
LEMMA StartKeeps ==
  ASSUME TypeOK, FilesInv, NEW c \in Commands, NEW op \in {"COPYTO", "RM"},
         NEW n \in Names, Start(c, op, n)
  PROVE  TypeOK' /\ FilesInv'
<1>1. /\ cmd[c].pc = "idle" /\ disc.exists /\ disc.magic
      /\ UNCHANGED <<disc, stored, exposed>>
      /\ cmd' \in [Commands -> CommandSet]
      /\ cmd'[c].pc = "load" /\ cmd'[c].name = n
      /\ cmd'[c].iNodes = disc.iNodes
      /\ cmd'[c].alone = (Running = {})
      /\ \A d \in Commands \ {c} : /\ Alike(cmd'[d], cmd[d])
                                   /\ d \in Running => ~cmd'[d].alone
      /\ mess' \in Nat
      /\ mess' = 0 => mess = 0 /\ Running = {}
  BY StartDoes
<1>2. TypeOK'
  <2>1. disc.iNodes \in [INodeIds -> INodeSet]
    BY DiscFields DEF TypeOK
  <2>2. Sensible(cmd'[c])
    BY <1>1, <2>1 DEF Sensible
  <2>3. ASSUME NEW d \in Commands \ {c} PROVE Sensible(cmd'[d])
    <3>1. Sensible(cmd[d]) /\ Alike(cmd'[d], cmd[d])
      BY <1>1 DEF TypeOK
    <3> QED
      BY <3>1 DEF Sensible, Alike
  <2>4. \A d \in Commands : Sensible(cmd[d])'
    BY <2>2, <2>3 DEF Sensible
  <2> QED
    BY <1>1, <2>4 DEF TypeOK
<1>3. ASSUME NEW m \in stored' PROVE Kept(m)'
  <2>1. m \in stored /\ Kept(m)
    BY <1>1 DEF FilesInv
  <2>2. PICK i, inode : i = IndexOf(disc, m) /\ inode = disc.iNodes[i]
    OBVIOUS
  <2>3. \A d \in Commands : SparesINode(cmd[d], m, i, inode)
    BY <2>1, <2>2 DEF Kept
  <2>4. SparesINode(cmd'[c], m, i, inode)
    BY <1>1, <2>2 DEF SparesINode
  <2>5. ASSUME NEW d \in Commands \ {c} PROVE SparesINode(cmd'[d], m, i, inode)
    BY <1>1, <2>3 DEF SparesINode, Alike
  <2>6. \A d \in Commands : SparesINode(cmd'[d], m, IndexOf(disc', m), disc'.iNodes[IndexOf(disc', m)])
    BY <1>1, <2>2, <2>4, <2>5
  <2>7. /\ OneINode(disc', m)
        /\ disc'.iNodes[IndexOf(disc', m)].fileSize = Contents[m].size
        /\ FirstOf(disc', m) # NIL
    BY <1>1, <2>1 DEF Kept
  <2> QED
    BY <2>6, <2>7 DEF Kept, SparesINode, OneINode, IndexOf, FirstOf
<1>4. Safe' = Safe
  BY <1>1 DEF Safe
<1>5. ASSUME NEW m \in Safe' PROVE Intact(m)'
  <2>1. m \in Safe /\ Intact(m)
    BY <1>4, <1>5 DEF FilesInv
  <2>2. \A d \in Commands : SparesBlocks(cmd[d], On(disc, m))
    BY <2>1 DEF Intact
  <2>3. SparesBlocks(cmd'[c], On(disc, m))
    BY <1>1 DEF SparesBlocks
  <2>4. ASSUME NEW d \in Commands \ {c} PROVE SparesBlocks(cmd'[d], On(disc, m))
    BY <1>1, <2>2 DEF SparesBlocks, Alike
  <2>5. \A d \in Commands : SparesBlocks(cmd'[d], On(disc', m))
    BY <1>1, <2>3, <2>4
  <2>6. disc'.magic /\ Whole(disc', m)
    BY <1>1, <2>1 DEF Intact
  <2> QED
    BY <2>5, <2>6 DEF Intact, SparesBlocks, Whole, On, Path, FirstOf, IndexOf
<1>6. \A m, k \in Safe' : m # k => On(disc', m) \cap On(disc', k) = {}
  BY <1>1, <1>4 DEF FilesInv, Apart
<1>7. Running' = Running \cup {c}
  BY <1>1 DEF Running, Alike
<1>8. \A d \in Running' : cmd'[d].alone => Lone(d)'
  <2> SUFFICES ASSUME NEW d \in Running', cmd'[d].alone PROVE Lone(d)'
    OBVIOUS
  <2>1. d = c /\ Running = {}
    <3>1. d \in Commands
      BY DEF Running
    <3> QED
      BY <1>1, <1>7, <3>1
  <2>2. Running' = {c}
    BY <1>7, <2>1
  <2> QED
    BY <1>1, <2>1, <2>2 DEF Lone
<1>9. mess' = 0 => \A d \in Running' : cmd'[d].alone
  BY <1>1, <1>7
<1>10. \A b \in BlockIds : disc'.dataBlocks[b].data = ZERO
                                => disc'.dataBlocks[b].nextBlock = NIL
  BY <1>1 DEF FilesInv, Free, Link, isDataBlockFree
<1> QED
  BY <1>1, <1>2, <1>3, <1>5, <1>6, <1>8, <1>9, <1>10, FilesParts

\* An idle command spares all.
LEMMA IdleSpares ==
  ASSUME NEW n, NEW i, NEW inode, NEW B
  PROVE  SparesINode(Idle, n, i, inode) /\ SparesBlocks(Idle, B)
BY IdleFits DEF SparesINode, SparesBlocks

\* A step that leaves the disc alone and takes nothing in
LEMMA ReadsKeep ==
  ASSUME TypeOK, FilesInv, NEW c \in Running, NEW r, Moved(c, r),
         disc' \in DiscSet, disc'.exists = disc.exists,
         disc'.iNodes = disc.iNodes, disc'.dataBlocks = disc.dataBlocks,
         stored' \subseteq stored, Safe' \subseteq Safe,
         Safe' # {} => disc' = disc,
         \A n \in stored' : SparesINode(r, n, IndexOf(disc, n), disc.iNodes[IndexOf(disc, n)]),
         \A n \in Safe' : SparesBlocks(r, On(disc, n)),
         r.pc # "idle" => r.alone = cmd[c].alone,
         r.pc # "idle" /\ r.alone => Lone(c)',
         mess' = 0 => mess = 0
  PROVE  FilesInv'
<1>1. c \in Commands /\ disc'.exists
  BY DEF FilesInv, Absent, Running
<1>2. (\A n \in stored : Kept(n)) /\ (\A n \in Safe : Intact(n)) /\ Apart
  BY DEF FilesInv
<1>3. ASSUME NEW n \in stored'
      PROVE  /\ Kept(n)' /\ On(disc', n) = On(disc, n)
             /\ n \in Safe' => Intact(n)'
  <2>1. n \in stored /\ SparesINode(r, n, IndexOf(disc, n), disc.iNodes[IndexOf(disc, n)])
    OBVIOUS
  <2>2. WithName(disc'.iNodes, n) = {IndexOf(disc, n)}
    <3>1. OneINode(disc, n)
      BY <1>2, <2>1 DEF Kept
    <3> QED
      BY <3>1 DEF OneINode
  <2>3. disc'.iNodes[IndexOf(disc, n)] = disc.iNodes[IndexOf(disc, n)]
        /\ \A b \in On(disc, n) : disc'.dataBlocks[b] = disc.dataBlocks[b]
    OBVIOUS
  <2>4. Kept(n)' /\ On(disc', n) = On(disc, n)
        /\ (n \in Safe /\ disc'.magic /\ SparesBlocks(r, On(disc, n)) => Intact(n)')
    BY <1>1, <1>2, <2>1, <2>2, <2>3, FilesStay
  <2>5. n \in Safe' => n \in Safe /\ disc'.magic /\ SparesBlocks(r, On(disc, n))
    BY <1>2 DEF Intact
  <2> QED
    BY <2>4, <2>5
<1>4. \A n \in stored' : Kept(n)'
  BY <1>3
<1>5. Safe' \subseteq stored'
  BY DEF Safe
<1>6. \A n \in Safe' : Intact(n)'
  BY <1>3, <1>5
<1>7. \A m, n \in Safe' : m # n => On(disc', m) \cap On(disc', n) = {}
  BY <1>2, <1>3, <1>5 DEF Apart
<1>8. /\ \A d \in Running' : cmd'[d].alone => Lone(d)'
      /\ mess' = 0 => \A d \in Running' : cmd'[d].alone
  BY AloneStays
<1>9. \A b \in BlockIds : disc'.dataBlocks[b].data = ZERO
                                => disc'.dataBlocks[b].nextBlock = NIL
  BY DEF FilesInv, Free, Link, isDataBlockFree
<1> QED
  BY <1>1, <1>4, <1>6, <1>7, <1>8, <1>9, FilesParts

\* An end that nobody planned
LEMMA EndKeeps ==
  ASSUME TypeOK, FilesInv, NEW c \in Commands, OutOfBounds(c) \/ Killed(c)
  PROVE  TypeOK' /\ FilesInv'
<1>1. /\ cmd[c].pc \in {"inode", "block", "clear"}
      /\ Moved(c, Idle) /\ UNCHANGED stored
      /\ mess' \in Nat /\ mess' # 0
      /\ \/ UNCHANGED <<disc, exposed>>
         \/ /\ exposed' = stored /\ disc' \in DiscSet
            /\ disc'.exists = disc.exists /\ disc'.iNodes = disc.iNodes
            /\ disc'.dataBlocks = disc.dataBlocks
  BY EndDoes
<1>2. stored \subseteq Names /\ exposed \subseteq Names /\ disc \in DiscSet
  BY DEF TypeOK
<1>3. disc' \in DiscSet /\ exposed' \subseteq Names
  BY <1>1, <1>2
<1>4. TypeOK'
  BY <1>1, <1>2, <1>3, IdleFits, TypesStay
<1>5. c \in Running
  BY <1>1 DEF Running
<1>6. Safe' \subseteq Safe /\ (Safe' # {} => disc' = disc)
  BY <1>1 DEF Safe
<1>7. disc'.exists = disc.exists /\ disc'.iNodes = disc.iNodes
      /\ disc'.dataBlocks = disc.dataBlocks
  BY <1>1
<1>8. /\ \A n \in stored' : SparesINode(Idle, n, IndexOf(disc, n), disc.iNodes[IndexOf(disc, n)])
      /\ \A n \in Safe' : SparesBlocks(Idle, On(disc, n))
  BY IdleSpares
<1>9. FilesInv'
  BY <1>1, <1>3, <1>5, <1>6, <1>7, <1>8, IdleFits, ReadsKeep
<1> QED
  BY <1>4, <1>9

\* A COPYTO that has loaded the disc
LEMMA LoadCopyToKeeps ==
  ASSUME TypeOK, FilesInv, NEW c \in Commands, LoadCopyTo(c)
  PROVE  TypeOK' /\ FilesInv'
<1>1. /\ cmd[c].pc = "load" /\ cmd[c].name \in Names
      /\ UNCHANGED <<disc, stored, exposed, mess>>
      /\ \/ Moved(c, Idle)
         \/ \E r \in CommandSet :
              /\ Moved(c, r) /\ Sensible(r)
              /\ r.pc = "inode" /\ r.name = cmd[c].name
              /\ r.alone = cmd[c].alone
              /\ r.dataBlocks = disc.dataBlocks
              /\ WithName(cmd[c].iNodes, r.name) = {}
              /\ r.index \in INodeIds /\ isINodeFree(cmd[c].iNodes[r.index])
              /\ r.offset = getFirstFreeDataBlockIndex(disc.dataBlocks)
              /\ r.offset \in FreeDataBlocks(disc.dataBlocks) \cup {-1}
  BY LoadCopyToDoes
<1>2. /\ c \in Running /\ Safe' = Safe /\ disc \in DiscSet /\ mess \in Nat
      /\ stored \subseteq Names /\ exposed \subseteq Names
  BY <1>1 DEF Running, Safe, TypeOK
<1>3. disc' \in DiscSet /\ stored' \subseteq Names /\ exposed' \subseteq Names
      /\ mess' \in Nat /\ stored' = stored
  BY <1>1, <1>2
<1>4. CASE Moved(c, Idle)
  <2>1. TypeOK'
    BY <1>3, <1>4, IdleFits, TypesStay
  <2>2. /\ \A n \in stored' : SparesINode(Idle, n, IndexOf(disc, n), disc.iNodes[IndexOf(disc, n)])
        /\ \A n \in Safe' : SparesBlocks(Idle, On(disc, n))
    BY IdleSpares
  <2>3. FilesInv'
    BY <1>1, <1>2, <1>3, <1>4, <2>2, IdleFits, ReadsKeep
  <2> QED
    BY <2>1, <2>3
<1>5. ASSUME NEW r \in CommandSet,
             Moved(c, r), Sensible(r),
             r.pc = "inode", r.name = cmd[c].name,
             r.alone = cmd[c].alone,
             r.dataBlocks = disc.dataBlocks,
             WithName(cmd[c].iNodes, r.name) = {},
             r.index \in INodeIds, isINodeFree(cmd[c].iNodes[r.index]),
             r.offset \in FreeDataBlocks(disc.dataBlocks) \cup {-1}
      PROVE  TypeOK' /\ FilesInv'
  <2>1. TypeOK'
    BY <1>3, <1>5, TypesStay
  <2>2. ASSUME NEW n \in stored
        PROVE  SparesINode(r, n, IndexOf(disc, n), disc.iNodes[IndexOf(disc, n)])
    <3>1. PICK i, inode : i = IndexOf(disc, n) /\ inode = disc.iNodes[i]
      OBVIOUS
    <3>2. Kept(n)
      BY DEF FilesInv
    <3>3. /\ i \in INodeIds /\ inode.fileName = n /\ inode.firstBlock # NIL
          /\ cmd[c].iNodes[i] = inode
      <4>1. OneINode(disc, n) /\ FirstOf(disc, n) # NIL
            /\ SparesINode(cmd[c], n, i, inode)
        BY <3>1, <3>2 DEF Kept
      <4>2. i \in INodeIds /\ i \in WithName(disc.iNodes, n)
        BY <3>1, <4>1 DEF OneINode
      <4> QED
        BY <1>1, <3>1, <4>1, <4>2 DEF WithName, FirstOf, SparesINode
    <3>4. r.name # n
      BY <1>5, <3>3 DEF WithName
    <3>5. r.index # i
      BY <1>5, <3>3 DEF isINodeFree
    <3> QED
      BY <1>5, <3>1, <3>4, <3>5 DEF SparesINode
  <2>3. ASSUME NEW n \in Safe PROVE SparesBlocks(r, On(disc, n))
    <3>1. n \in Names /\ Whole(disc, n)
      BY <1>2 DEF FilesInv, Intact, Safe
    <3>2. ASSUME NEW b \in On(disc, n) PROVE disc.dataBlocks[b].data # ZERO
      <4>1. PICK k \in 1..Length(n) : b = Path(disc, n)[k]
        BY <3>2 DEF On
      <4> QED
        BY <3>1, <4>1, Sizes DEF Whole
    <3>3. ASSUME NEW b \in On(disc, n) PROVE b # r.offset
      <4>1. b \in BlockIds
        BY <3>1, <3>3 DEF On, Whole
      <4> QED
        BY <1>5, <3>2, <3>3, <4>1, Ids DEF FreeDataBlocks, isDataBlockFree
    <3> QED
      BY <1>5, <3>2, <3>3 DEF SparesBlocks
  <2>4. r.alone => Lone(c)'
    <3> SUFFICES ASSUME r.alone PROVE Lone(c)'
      OBVIOUS
    <3>1. Lone(c)
      BY <1>1, <1>5, LoneRuns
    <3>2. Running' = Running
      BY <1>1, <1>5 DEF Running, Moved
    <3>3. cmd'[c] = r
      BY <1>5 DEF Moved
    <3>4. cmd[c].iNodes = disc.iNodes /\ disc.magic /\ Running = {c}
      BY <1>1, <3>1 DEF Lone
    <3>5. isINodeFree(disc.iNodes[r.index]) /\ WithName(disc.iNodes, r.name) = {}
      BY <1>5, <3>4
    <3> QED
      BY <1>1, <1>5, <3>2, <3>3, <3>4, <3>5 DEF Lone, Target
  <2>5. FilesInv'
    BY <1>1, <1>2, <1>3, <1>5, <2>2, <2>3, <2>4, ReadsKeep
  <2> QED
    BY <2>1, <2>5
<1> QED
  BY <1>1, <1>4, <1>5

\* An RM that has loaded the disc
LEMMA LoadRemoveKeeps ==
  ASSUME TypeOK, FilesInv, NEW c \in Commands, LoadRemove(c)
  PROVE  TypeOK' /\ FilesInv'
<1>1. /\ cmd[c].pc = "load" /\ cmd[c].name \in Names
      /\ UNCHANGED <<disc, mess>> /\ exposed' = exposed \cap stored'
      /\ \/ Moved(c, Idle) /\ UNCHANGED stored
         \/ /\ stored' = stored \ {cmd[c].name}
            /\ \E r \in CommandSet :
                 /\ Moved(c, r) /\ Sensible(r)
                 /\ r.pc = "clear" /\ r.name = cmd[c].name
                 /\ r.alone = cmd[c].alone
                 /\ r.dataBlocks = disc.dataBlocks
                 /\ r.index \in INodeIds
                 /\ r.index = getINodeIndex(cmd[c].iNodes, r.name)
                 /\ cmd[c].iNodes[r.index].fileName = r.name
                 /\ r.offset = cmd[c].iNodes[r.index].firstBlock
                 /\ ~r.stray => /\ r.name \in Safe
                                /\ cmd[c].iNodes[r.index].fileSize # 0
  BY LoadRemoveDoes
<1>2. /\ c \in Running /\ disc \in DiscSet /\ mess \in Nat
      /\ stored \subseteq Names /\ exposed \subseteq Names
  BY <1>1 DEF Running, TypeOK
<1>3. disc' \in DiscSet /\ stored' \subseteq stored /\ stored' \subseteq Names
      /\ exposed' \subseteq Names /\ mess' \in Nat
  BY <1>1, <1>2
<1>4. Safe' \subseteq Safe
  BY <1>1, <1>3 DEF Safe
<1>5. CASE Moved(c, Idle) /\ UNCHANGED stored
  <2>1. TypeOK'
    BY <1>3, <1>5, IdleFits, TypesStay
  <2>2. /\ \A n \in stored' : SparesINode(Idle, n, IndexOf(disc, n), disc.iNodes[IndexOf(disc, n)])
        /\ \A n \in Safe' : SparesBlocks(Idle, On(disc, n))
    BY IdleSpares
  <2>3. FilesInv'
    BY <1>1, <1>2, <1>3, <1>4, <1>5, <2>2, IdleFits, ReadsKeep
  <2> QED
    BY <2>1, <2>3
<1>6. ASSUME NEW r \in CommandSet,
             stored' = stored \ {cmd[c].name},
             Moved(c, r), Sensible(r),
             r.pc = "clear", r.name = cmd[c].name,
             r.alone = cmd[c].alone,
             r.dataBlocks = disc.dataBlocks,
             cmd[c].iNodes[r.index].fileName = r.name
      PROVE  TypeOK' /\ FilesInv'
  <2>1. TypeOK'
    BY <1>3, <1>6, TypesStay
  <2>2. ASSUME NEW n \in stored'
        PROVE  SparesINode(r, n, IndexOf(disc, n), disc.iNodes[IndexOf(disc, n)])
    <3>1. PICK i, inode : i = IndexOf(disc, n) /\ inode = disc.iNodes[i]
      OBVIOUS
    <3>2. n \in stored /\ n # r.name /\ Kept(n)
      BY <1>6 DEF FilesInv
    <3>3. inode.fileName = n /\ cmd[c].iNodes[i] = inode
      <4>1. OneINode(disc, n) /\ SparesINode(cmd[c], n, i, inode)
        BY <3>1, <3>2 DEF Kept
      <4>2. i \in WithName(disc.iNodes, n)
        BY <3>1, <4>1 DEF OneINode
      <4> QED
        BY <1>1, <3>1, <4>1, <4>2 DEF WithName, SparesINode
    <3>4. r.index # i
      BY <1>6, <3>2, <3>3
    <3> QED
      BY <1>6, <3>1, <3>4 DEF SparesINode
  <2>3. ASSUME NEW n \in Safe' PROVE SparesBlocks(r, On(disc, n))
    BY <1>6 DEF SparesBlocks
  <2>4. r.alone => Lone(c)'
    <3> SUFFICES ASSUME r.alone PROVE Lone(c)'
      OBVIOUS
    <3>1. Lone(c)
      BY <1>1, <1>6, LoneRuns
    <3>2. Running' = Running
      BY <1>1, <1>6 DEF Running, Moved
    <3>3. cmd'[c] = r
      BY <1>6 DEF Moved
    <3>4. disc.magic /\ Running = {c}
      BY <3>1 DEF Lone
    <3> QED
      BY <1>1, <1>6, <3>2, <3>3, <3>4 DEF Lone
  <2>5. FilesInv'
    BY <1>1, <1>2, <1>3, <1>4, <1>6, <2>2, <2>3, <2>4, ReadsKeep
  <2> QED
    BY <2>1, <2>5
<1> QED
  BY <1>1, <1>5, <1>6

\* Who is written has a name of its own.
LEMMA NamesStay ==
  ASSUME NEW n, OneINode(disc, n), NEW i \in INodeIds, NEW inode,
         INodeWritten(i, inode), i # IndexOf(disc, n), inode.fileName # n
  PROVE  /\ WithName(disc'.iNodes, n) = {IndexOf(disc, n)}
         /\ disc'.iNodes[IndexOf(disc, n)] = disc.iNodes[IndexOf(disc, n)]
<1>1. IndexOf(disc, n) \in INodeIds
      /\ WithName(disc.iNodes, n) = {IndexOf(disc, n)}
  BY DEF OneINode
<1>2. /\ disc'.iNodes[i] = inode
      /\ \A j \in INodeIds \ {i} : disc'.iNodes[j] = disc.iNodes[j]
  BY DEF INodeWritten
<1>3. \A j \in INodeIds : disc'.iNodes[j].fileName = n <=> disc.iNodes[j].fileName = n
  <2> TAKE j \in INodeIds
  <2>1. CASE j = i
    <3>1. disc.iNodes[j].fileName # n
      BY <1>1, <2>1 DEF WithName
    <3> QED
      BY <1>2, <2>1, <3>1
  <2>2. CASE j # i
    BY <1>2, <2>2
  <2> QED
    BY <2>1, <2>2
<1>4. WithName(disc'.iNodes, n) = WithName(disc.iNodes, n)
  BY <1>3 DEF WithName
<1> QED
  BY <1>1, <1>2, <1>4

\* The end of an RM
LEMMA ClearINodeKeeps ==
  ASSUME TypeOK, FilesInv, NEW c \in Commands, ClearINode(c)
  PROVE  TypeOK' /\ FilesInv'
<1>1. /\ cmd[c].pc = "clear" /\ cmd[c].offset = NIL
      /\ UNCHANGED <<stored, exposed, mess>>
      /\ cmd[c].index \in INodeIds
      /\ INodeWritten(cmd[c].index, INode)
      /\ Moved(c, Idle)
  BY ClearINodeDoes
<1>2. /\ disc' \in DiscSet /\ disc'.exists = disc.exists /\ disc'.magic = disc.magic
      /\ disc'.dataBlocks = disc.dataBlocks
  BY <1>1 DEF INodeWritten
<1>3. stored \subseteq Names /\ exposed \subseteq Names /\ mess \in Nat
  BY DEF TypeOK
<1>4. TypeOK'
  BY <1>1, <1>2, <1>3, IdleFits, TypesStay
<1>5. c \in Running /\ disc.exists
  BY <1>1, LoneRuns
<1>6. (\A n \in stored : Kept(n)) /\ (\A n \in Safe : Intact(n)) /\ Apart
  BY DEF FilesInv
<1>7. ASSUME NEW n \in stored
      PROVE  /\ Kept(n)' /\ On(disc', n) = On(disc, n)
             /\ n \in Safe => Intact(n)'
  <2>1. OneINode(disc, n) /\ cmd[c].index # IndexOf(disc, n)
    BY <1>1, <1>6 DEF Kept, SparesINode
  <2>2. INode.fileName # n
    BY <1>3, VfsAssumption DEF INode
  <2>3. /\ WithName(disc'.iNodes, n) = {IndexOf(disc, n)}
        /\ disc'.iNodes[IndexOf(disc, n)] = disc.iNodes[IndexOf(disc, n)]
    BY <1>1, <2>1, <2>2, NamesStay
  <2>4. /\ SparesINode(Idle, n, IndexOf(disc, n), disc.iNodes[IndexOf(disc, n)])
        /\ SparesBlocks(Idle, On(disc, n))
    BY IdleSpares
  <2>5. \A b \in On(disc, n) : disc'.dataBlocks[b] = disc.dataBlocks[b]
    BY <1>2
  <2>6. Kept(n)' /\ On(disc', n) = On(disc, n)
        /\ (n \in Safe /\ disc'.magic /\ SparesBlocks(Idle, On(disc, n)) => Intact(n)')
    BY <1>1, <1>6, <2>3, <2>4, <2>5, FilesStay
  <2>7. n \in Safe => disc'.magic
    BY <1>2, <1>6 DEF Intact
  <2> QED
    BY <2>4, <2>6, <2>7
<1>8. Safe' = Safe /\ Safe \subseteq stored
  BY <1>1 DEF Safe
<1>9. \A n \in stored' : Kept(n)'
  BY <1>1, <1>7
<1>10. \A n \in Safe' : Intact(n)'
  BY <1>7, <1>8
<1>11. \A m, n \in Safe' : m # n => On(disc', m) \cap On(disc', n) = {}
  BY <1>6, <1>7, <1>8 DEF Apart
<1>12. /\ \A d \in Running' : cmd'[d].alone => Lone(d)'
       /\ mess' = 0 => \A d \in Running' : cmd'[d].alone
  BY <1>1, <1>5, IdleFits, AloneStays
<1>13. \A b \in BlockIds : disc'.dataBlocks[b].data = ZERO
                                => disc'.dataBlocks[b].nextBlock = NIL
  BY <1>2 DEF FilesInv, Free, Link, isDataBlockFree
<1> QED
  BY <1>2, <1>4, <1>5, <1>9, <1>10, <1>11, <1>12, <1>13, FilesParts

\* A disc that is made or thrown away
LEMMA CreateDeleteKeep ==
  ASSUME TypeOK, FilesInv, Create \/ Delete
  PROVE  TypeOK' /\ FilesInv'
<1>1. /\ Running = {} /\ UNCHANGED cmd
      /\ disc' \in DiscSet /\ disc'.dataBlocks = Empty.dataBlocks
      /\ stored' = {} /\ exposed' \subseteq Names /\ mess' \in Nat
  BY CreateDeleteDo DEF FilesInv
<1>2. Safe' = {} /\ Running' = {}
  BY <1>1 DEF Safe, Running
<1>3. \A b \in BlockIds : Free(b)' => Link(b)' = NIL
  BY <1>1, EmptyFits DEF Free, Link, isDataBlockFree
<1>4. Absent'
  BY <1>1, <1>2 DEF Absent
<1>5. Apart'
  BY <1>2 DEF Apart
<1>6. FilesInv'
  BY <1>1, <1>2, <1>3, <1>4, <1>5 DEF FilesInv
<1>7. TypeOK'
  BY <1>1 DEF TypeOK, Sensible
<1> QED
  BY <1>6, <1>7

\* The blocks of a safe file
LEMMA OnBlocks ==
  ASSUME NEW n \in Names, Whole(disc, n)
  PROVE  /\ On(disc, n) \subseteq BlockIds
         /\ \A b \in On(disc, n) : disc.dataBlocks[b].data # ZERO
BY Sizes DEF On, Whole

\* RM clears a block.
LEMMA ClearDataBlockKeeps ==
  ASSUME TypeOK, FilesInv, HitsInv, NEW c \in Commands, ClearDataBlock(c)
  PROVE  TypeOK' /\ FilesInv'
<1>1. /\ cmd[c].pc = "clear" /\ cmd[c].name \in Names
      /\ UNCHANGED <<stored, mess>>
      /\ cmd[c].offset \in BlockIds
      /\ DataBlock \in BlockSet
      /\ BlockWritten(cmd[c].offset, DataBlock)
      /\ exposed' = exposed \cup {n \in stored : \/ mess > 0 \/ cmd[c].stray
                                                \/ FirstOf(disc, n) = 0}
  BY ClearDataBlockDoes
<1>2. PICK r \in CommandSet :
           /\ Moved(c, r) /\ Sensible(r)
           /\ r.pc = "clear" /\ r.name = cmd[c].name
           /\ r.dataBlocks = [cmd[c].dataBlocks EXCEPT ![cmd[c].offset] = DataBlock]
           /\ r.index = cmd[c].index
           /\ r.offset = cmd[c].dataBlocks[cmd[c].offset].nextBlock
           /\ r.alone = cmd[c].alone /\ r.stray = cmd[c].stray
  BY ClearDataBlockDoes
<1>3. PICK b : b = cmd[c].offset
  OBVIOUS
<1>4. /\ disc' \in DiscSet /\ disc'.exists = disc.exists /\ disc'.magic = disc.magic
      /\ disc'.iNodes = disc.iNodes
      /\ disc'.dataBlocks = [disc.dataBlocks EXCEPT ![b] = DataBlock]
  BY <1>1, <1>3 DEF BlockWritten
<1>5. /\ stored \subseteq Names /\ exposed \subseteq Names /\ mess \in Nat
      /\ disc.dataBlocks \in [BlockIds -> BlockSet]
  BY DiscFields DEF TypeOK
<1>6. TypeOK'
  BY <1>1, <1>2, <1>4, <1>5, TypesStay
<1>7. c \in Running /\ disc.exists
  BY <1>1, LoneRuns
<1>8. (\A n \in stored : Kept(n)) /\ (\A n \in Safe : Intact(n)) /\ Apart
  BY DEF FilesInv
<1>9. Safe' \subseteq Safe /\ Safe \subseteq stored
  BY <1>1 DEF Safe
<1>10. ASSUME NEW n \in Safe' PROVE b \notin On(disc, n)
  <2>1. n \in Safe /\ mess = 0 /\ ~cmd[c].stray /\ FirstOf(disc, n) # 0
    BY <1>1, <1>5, <1>9, <1>10 DEF Safe
  <2>2. PICK Y \in SUBSET BlockIds : Hits(c, Y)
    BY <1>1, <2>1 DEF HitsInv
  <2>3. b \in Y
    BY <1>1, <1>3, <2>2, Ids DEF Hits
  <2>4. Y \cap On(disc, n) = {}
    BY <2>1, <2>2 DEF Hits
  <2> QED
    BY <2>3, <2>4
<1>11. ASSUME NEW n \in stored
       PROVE  /\ Kept(n)'
              /\ n \in Safe' => Intact(n)' /\ On(disc', n) = On(disc, n)
  <2>1. PICK i, inode : i = IndexOf(disc, n) /\ inode = disc.iNodes[i]
    OBVIOUS
  <2>2. OneINode(disc, n) /\ SparesINode(cmd[c], n, i, inode)
    BY <1>8, <2>1 DEF Kept
  <2>3. SparesINode(r, n, i, inode)
    BY <1>1, <1>2, <2>2 DEF SparesINode
  <2>4. SparesBlocks(r, On(disc, n))
    BY <1>2 DEF SparesBlocks
  <2>5. WithName(disc'.iNodes, n) = {i} /\ disc'.iNodes[i] = inode
    BY <1>4, <2>1, <2>2 DEF OneINode
  <2>6. n \in Safe' => \A a \in On(disc, n) : disc'.dataBlocks[a] = disc.dataBlocks[a]
    BY <1>4, <1>5, <1>10
  <2>7. /\ Kept(n)'
        /\ (\A a \in On(disc, n) : disc'.dataBlocks[a] = disc.dataBlocks[a])
             => /\ On(disc', n) = On(disc, n)
                /\ n \in Safe /\ disc'.magic /\ SparesBlocks(r, On(disc, n))
                     => Intact(n)'
    BY <1>2, <1>8, <2>1, <2>3, <2>5, FilesStay
  <2>8. n \in Safe' => n \in Safe /\ disc'.magic
    BY <1>4, <1>8, <1>9 DEF Intact
  <2> QED
    BY <2>4, <2>6, <2>7, <2>8
<1>12. \A n \in stored' : Kept(n)'
  BY <1>1, <1>11
<1>13. \A n \in Safe' : Intact(n)'
  BY <1>9, <1>11
<1>14. \A m, n \in Safe' : m # n => On(disc', m) \cap On(disc', n) = {}
  BY <1>8, <1>9, <1>11 DEF Apart
<1>15. r.alone => Lone(c)'
  <2> SUFFICES ASSUME r.alone PROVE Lone(c)'
    OBVIOUS
  <2>1. Lone(c)
    BY <1>1, <1>2, LoneRuns
  <2>2. Running' = Running
    BY <1>1, <1>2 DEF Running, Moved
  <2>3. cmd'[c] = r
    BY <1>2 DEF Moved
  <2>4. disc.magic /\ Running = {c} /\ cmd[c].dataBlocks = disc.dataBlocks
    BY <1>1, <2>1 DEF Lone
  <2>5. r.dataBlocks = disc'.dataBlocks
    BY <1>2, <1>3, <1>4, <2>4
  <2> QED
    BY <1>2, <1>4, <2>2, <2>3, <2>4, <2>5 DEF Lone
<1>16. /\ \A d \in Running' : cmd'[d].alone => Lone(d)'
       /\ mess' = 0 => \A d \in Running' : cmd'[d].alone
  BY <1>1, <1>2, <1>7, <1>15, AloneStays
<1>17. \A a \in BlockIds : disc'.dataBlocks[a].data = ZERO
                                => disc'.dataBlocks[a].nextBlock = NIL
  <2> TAKE a \in BlockIds
  <2>1. disc.dataBlocks[a].data = ZERO => disc.dataBlocks[a].nextBlock = NIL
    BY DEF FilesInv, Free, Link, isDataBlockFree
  <2>2. disc'.dataBlocks[a] = IF a = b THEN DataBlock ELSE disc.dataBlocks[a]
    BY <1>4, <1>5
  <2> QED
    BY <2>1, <2>2 DEF DataBlock
<1>18. disc'.exists
  BY <1>4, <1>7
<1> QED
  BY <1>6, <1>12, <1>13, <1>14, <1>16, <1>17, <1>18, FilesParts

\* A file that a command alone has finished while it was the only one
LEMMA NewFile ==
  ASSUME NEW c \in Commands, Moved(c, Idle), Running = {c},
         NEW n \in Names, NEW i \in INodeIds,
         WithName(disc'.iNodes, n) = {i},
         disc'.iNodes[i].fileSize = Contents[n].size,
         disc'.iNodes[i].firstBlock # NIL
  PROVE  /\ Kept(n)'
         /\ IndexOf(disc', n) = i
         /\ FirstOf(disc', n) = disc'.iNodes[i].firstBlock
         /\ disc'.magic /\ Whole(disc', n) => Intact(n)'
<1>1. IndexOf(disc', n) = i /\ OneINode(disc', n)
  BY FoundINode
<1>2. FirstOf(disc', n) = disc'.iNodes[i].firstBlock
  BY <1>1 DEF FirstOf
<1>3. \A d \in Commands : cmd'[d].pc = "idle"
  BY IdleFits DEF Moved, Running
<1>4. \A d \in Commands :
        SparesINode(cmd'[d], n, IndexOf(disc', n), disc'.iNodes[IndexOf(disc', n)])
        /\ SparesBlocks(cmd'[d], On(disc', n))
  BY <1>3 DEF SparesINode, SparesBlocks
<1>5. Kept(n)'
  <2>1. /\ OneINode(disc', n) /\ FirstOf(disc', n) # NIL
        /\ disc'.iNodes[IndexOf(disc', n)].fileSize = Contents[n].size
    BY <1>1, <1>2
  <2> QED
    BY <1>4, <2>1 DEF Kept, SparesINode, OneINode, IndexOf, FirstOf
<1>6. disc'.magic /\ Whole(disc', n) => Intact(n)'
  BY <1>4 DEF Intact, SparesBlocks, Whole, On, Path, FirstOf, IndexOf
<1> QED
  BY <1>1, <1>2, <1>5, <1>6

\* COPYTO writes its inode.
LEMMA WriteINodeKeeps ==
  ASSUME TypeOK, FilesInv, NEW c \in Commands, WriteINode(c)
  PROVE  TypeOK' /\ FilesInv'
<1>1. PICK s, n, i : s = cmd[c] /\ n = s.name /\ i = s.index
  OBVIOUS
<1>2. /\ s.pc = "inode" /\ n \in Names /\ UNCHANGED mess
      /\ INodeWritten(i, NewINode(s))
      /\ s.left = Contents[n].size /\ s.offset # NIL
      /\ \/ /\ s.left = 0 /\ Moved(c, Idle) /\ Stores(c)
         \/ /\ s.left > 0 /\ UNCHANGED <<stored, exposed>>
            /\ \E r \in CommandSet :
                 /\ Moved(c, r) /\ Sensible(r)
                 /\ r.pc = "block" /\ r.name = n
                 /\ r.dataBlocks = s.dataBlocks
                 /\ r.index = i /\ r.offset = s.offset
                 /\ r.left = s.left /\ r.alone = s.alone
  BY <1>1, WriteINodeDoes
<1>3. /\ disc' \in DiscSet /\ disc'.exists = disc.exists /\ disc'.magic = disc.magic
      /\ disc'.dataBlocks = disc.dataBlocks
      /\ disc'.iNodes[i] = NewINode(s)
      /\ \A j \in INodeIds \ {i} : disc'.iNodes[j] = disc.iNodes[j]
  BY <1>2 DEF INodeWritten
<1>4. /\ stored \subseteq Names /\ exposed \subseteq Names /\ mess \in Nat
      /\ i \in INodeIds /\ s.alone \in BOOLEAN
  BY <1>1, CommandFields DEF TypeOK
<1>5. c \in Running /\ disc.exists /\ (s.alone => Lone(c) /\ Running = {c})
  BY <1>1, <1>2, LoneRuns
<1>6. (\A m \in stored : Kept(m)) /\ (\A m \in Safe : Intact(m)) /\ Apart
  BY DEF FilesInv
<1>7. NewINode(s).fileName = n /\ NewINode(s).fileSize = s.left
      /\ NewINode(s).firstBlock = s.offset
  BY <1>1 DEF NewINode
<1>8. ASSUME NEW r, Moved(c, r), NEW m \in stored,
             SparesINode(s, m, IndexOf(disc, m), disc.iNodes[IndexOf(disc, m)])
               => SparesINode(r, m, IndexOf(disc, m), disc.iNodes[IndexOf(disc, m)]),
             m \in Safe => SparesBlocks(r, On(disc, m))
      PROVE  /\ Kept(m)' /\ On(disc', m) = On(disc, m) /\ m # n
             /\ m \in Safe => Intact(m)'
  <2>1. OneINode(disc, m)
        /\ SparesINode(s, m, IndexOf(disc, m), disc.iNodes[IndexOf(disc, m)])
    BY <1>1, <1>6 DEF Kept
  <2>2. i # IndexOf(disc, m) /\ n # m
    BY <1>1, <1>2, <2>1 DEF SparesINode
  <2>3. /\ WithName(disc'.iNodes, m) = {IndexOf(disc, m)}
        /\ disc'.iNodes[IndexOf(disc, m)] = disc.iNodes[IndexOf(disc, m)]
    BY <1>2, <1>4, <1>7, <2>1, <2>2, NamesStay
  <2>4. SparesINode(r, m, IndexOf(disc, m), disc.iNodes[IndexOf(disc, m)])
    BY <1>8, <2>1
  <2>5. \A b \in On(disc, m) : disc'.dataBlocks[b] = disc.dataBlocks[b]
    BY <1>3
  <2>6. Kept(m)' /\ On(disc', m) = On(disc, m)
        /\ (m \in Safe /\ disc'.magic /\ SparesBlocks(r, On(disc, m)) => Intact(m)')
    BY <1>6, <1>8, <2>3, <2>4, <2>5, FilesStay
  <2>7. m \in Safe => disc'.magic
    BY <1>3, <1>6 DEF Intact
  <2> QED
    BY <1>8, <2>2, <2>6, <2>7
<1>9. \A b \in BlockIds : disc'.dataBlocks[b].data = ZERO
                                => disc'.dataBlocks[b].nextBlock = NIL
  BY <1>3 DEF FilesInv, Free, Link, isDataBlockFree
<1>10. Safe \subseteq stored
  BY DEF Safe
<1>11. CASE s.left = 0 /\ Moved(c, Idle) /\ Stores(c)
  <2>1. /\ stored' = IF s.alone THEN stored \cup {n} ELSE stored
        /\ exposed' = exposed \ {n}
    BY <1>1, <1>11 DEF Stores
  <2>2. TypeOK'
    <3>1. stored' \subseteq Names /\ exposed' \subseteq Names /\ mess' \in Nat
      BY <1>2, <1>4, <2>1
    <3> QED
      BY <1>3, <1>11, <3>1, IdleFits, TypesStay
  <2>3. ASSUME NEW m \in stored
        PROVE  /\ Kept(m)' /\ On(disc', m) = On(disc, m) /\ m # n
               /\ m \in Safe => Intact(m)'
    <3>1. /\ SparesINode(Idle, m, IndexOf(disc, m), disc.iNodes[IndexOf(disc, m)])
          /\ SparesBlocks(Idle, On(disc, m))
      BY IdleSpares
    <3> QED
      BY <1>8, <1>11, <3>1
  <2>4. \A m \in Safe' : m \in Safe \/ (m = n /\ s.alone)
    BY <2>1, <2>3 DEF Safe
  <2>5. ASSUME s.alone
        PROVE  Kept(n)' /\ On(disc', n) = {} /\ Intact(n)'
    <3>1. /\ disc.magic /\ Running = {c} /\ WithName(disc.iNodes, n) = {}
      BY <1>1, <1>2, <1>5, <2>5 DEF Lone
    <3>2. WithName(disc'.iNodes, n) = {i}
      BY <1>3, <1>4, <1>7, <3>1 DEF WithName
    <3>3. disc'.iNodes[i].fileSize = Contents[n].size /\ disc'.iNodes[i].firstBlock # NIL
      BY <1>2, <1>3, <1>7
    <3>4. Kept(n)' /\ (disc'.magic /\ Whole(disc', n) => Intact(n)')
      BY <1>2, <1>4, <1>11, <3>1, <3>2, <3>3, NewFile
    <3>5. Length(n) = 0
      BY <1>2, <1>11, Sizes
    <3>6. Whole(disc', n) /\ On(disc', n) = {}
      BY <3>5 DEF Whole, On
    <3> QED
      BY <1>3, <3>1, <3>4, <3>6
  <2>6. \A m \in stored' : Kept(m)'
    BY <2>1, <2>3, <2>5
  <2>7. \A m \in Safe' : Intact(m)'
    BY <1>10, <2>3, <2>4, <2>5
  <2>8. \A m, k \in Safe' : m # k => On(disc', m) \cap On(disc', k) = {}
    <3> TAKE m, k \in Safe'
    <3>1. CASE m \in Safe /\ k \in Safe
      BY <1>6, <1>10, <2>3, <3>1 DEF Apart
    <3>2. CASE m \notin Safe \/ k \notin Safe
      BY <2>4, <2>5, <3>2
    <3> QED
      BY <3>1, <3>2
  <2>9. /\ \A d \in Running' : cmd'[d].alone => Lone(d)'
        /\ mess' = 0 => \A d \in Running' : cmd'[d].alone
    BY <1>2, <1>5, <1>11, IdleFits, AloneStays
  <2> QED
    BY <1>3, <1>5, <1>9, <2>2, <2>6, <2>7, <2>8, <2>9, FilesParts
<1>12. ASSUME s.left > 0, UNCHANGED <<stored, exposed>>,
              NEW r \in CommandSet, Moved(c, r), Sensible(r),
              r.pc = "block", r.name = n, r.dataBlocks = s.dataBlocks,
              r.index = i, r.offset = s.offset,
              r.left = s.left, r.alone = s.alone
       PROVE  TypeOK' /\ FilesInv'
  <2>1. TypeOK'
    BY <1>2, <1>3, <1>4, <1>12, TypesStay
  <2>2. ASSUME NEW m \in stored
        PROVE  /\ Kept(m)' /\ On(disc', m) = On(disc, m) /\ m # n
               /\ m \in Safe => Intact(m)'
    <3>1. SparesINode(s, m, IndexOf(disc, m), disc.iNodes[IndexOf(disc, m)])
            => SparesINode(r, m, IndexOf(disc, m), disc.iNodes[IndexOf(disc, m)])
      BY <1>1, <1>2, <1>12 DEF SparesINode
    <3>2. m \in Safe => SparesBlocks(s, On(disc, m))
      BY <1>1, <1>6 DEF Intact
    <3>3. m \in Safe => SparesBlocks(r, On(disc, m))
      BY <1>2, <1>12, <3>2 DEF SparesBlocks
    <3> QED
      BY <1>8, <1>12, <3>1, <3>3
  <2>3. Safe' = Safe
    BY <1>12 DEF Safe
  <2>4. \A m \in stored' : Kept(m)'
    BY <1>12, <2>2
  <2>5. \A m \in Safe' : Intact(m)'
    BY <1>10, <2>2, <2>3
  <2>6. \A m, k \in Safe' : m # k => On(disc', m) \cap On(disc', k) = {}
    BY <1>6, <1>10, <2>2, <2>3 DEF Apart
  <2>7. r.alone => Lone(c)'
    <3> SUFFICES ASSUME r.alone PROVE Lone(c)'
      OBVIOUS
    <3>1. /\ disc.magic /\ Running = {c} /\ WithName(disc.iNodes, n) = {}
          /\ s.dataBlocks = disc.dataBlocks
      BY <1>1, <1>2, <1>5, <1>12 DEF Lone
    <3>2. WithName(disc'.iNodes, n) = {i}
      BY <1>3, <1>4, <1>7, <3>1 DEF WithName
    <3>3. Running' = Running
      BY <1>1, <1>2, <1>12 DEF Running, Moved
    <3>4. cmd'[c] = r
      BY <1>12 DEF Moved
    <3>5. Place(n, s.left) = 1
      BY <1>2, <1>12, Sizes
    <3>6. Chain(disc'.dataBlocks, s.offset, 1)[1] = s.offset
      BY ChainSteps
    <3>7. Target(c)' = NewINode(s) /\ Reached(c)' = 1
      BY <1>3, <1>12, <3>4, <3>5 DEF Target, Reached
    <3>8. Begun(c)'[1] = s.offset
      BY <1>7, <3>6, <3>7 DEF Begun
    <3>9. HalfDone(c)'
      <4>1. WithName(disc'.iNodes, cmd'[c].name) = {cmd'[c].index}
        BY <1>12, <3>2, <3>4
      <4>2. /\ Target(c)'.fileSize = Contents[cmd'[c].name].size
            /\ Target(c)'.firstBlock # NIL
        BY <1>2, <1>7, <1>12, <3>4, <3>7
      <4>3. Begun(c)'[Reached(c)'] = cmd'[c].offset
        BY <1>12, <3>4, <3>7, <3>8
      <4>4. 1..(Reached(c)' - 1) = {}
        BY <3>7
      <4> QED
        BY <4>1, <4>2, <4>3, <4>4 DEF HalfDone
    <3> QED
      BY <1>3, <1>12, <3>1, <3>3, <3>4, <3>9 DEF Lone
  <2>8. /\ \A d \in Running' : cmd'[d].alone => Lone(d)'
        /\ mess' = 0 => \A d \in Running' : cmd'[d].alone
    BY <1>1, <1>2, <1>5, <1>12, <2>7, AloneStays
  <2> QED
    BY <1>3, <1>5, <1>9, <2>1, <2>4, <2>5, <2>6, <2>8, FilesParts
<1> QED
  BY <1>2, <1>11, <1>12

\* A chain that is one block longer
LEMMA ChainExtends ==
  ASSUME NEW blocks, NEW first, NEW len \in Nat, len > 0
  PROVE  /\ \A k \in 1..len :
              Chain(blocks, first, len + 1)[k] = Chain(blocks, first, len)[k]
         /\ Chain(blocks, first, len + 1)[len + 1]
              = After(blocks, Chain(blocks, first, len)[len])
<1>1. PICK g, h : g = Chain(blocks, first, len + 1)
                  /\ h = [k \in 1..len |-> g[k]]
  OBVIOUS
<1>2. /\ g[1] = first
      /\ \A k \in 1..len : g[k + 1] = After(blocks, g[k])
  <2>1. len + 1 \in Nat /\ len + 1 > 0 /\ (len + 1) - 1 = len
    OBVIOUS
  <2> QED
    BY <1>1, <2>1, ChainSteps
<1>3. Lists(h, len)
  BY <1>1 DEF Lists
<1>4. h[1] = first /\ \A k \in 1..(len - 1) : h[k + 1] = After(blocks, h[k])
  <2>1. 1 \in 1..len
    OBVIOUS
  <2>2. \A k \in 1..(len - 1) : k \in 1..len /\ k + 1 \in 1..len
    OBVIOUS
  <2> QED
    BY <1>1, <1>2, <2>1, <2>2
<1>5. Chain(blocks, first, len) = h
  BY <1>3, <1>4, ChainIs
<1>6. len \in 1..len
  OBVIOUS
<1> QED
  BY <1>1, <1>2, <1>5, <1>6

\* How the chain of a COPYTO that nothing has joined grows: the block it
\* writes is none of those before.
LEMMA BegunGrows ==
  ASSUME TypeOK, NEW c \in Commands, cmd[c].pc = "block", Lone(c),
         NEW b \in BlockIds, b = cmd[c].offset, NEW x \in BlockSet,
         cmd[c].name \in Names,
         cmd[c].dataBlocks[b].data = ZERO,
         Reached(c) \in 1..Length(cmd[c].name),
         BlockWritten(b, x)
  PROVE  /\ Begun(c)[Reached(c)] = b
         /\ \A k \in 1..(Reached(c) - 1) :
              /\ Begun(c)[k] \in BlockIds /\ Begun(c)[k] # b
              /\ disc'.dataBlocks[Begun(c)[k]] = disc.dataBlocks[Begun(c)[k]]
         /\ Chain(disc'.dataBlocks, Target(c).firstBlock, Reached(c)) = Begun(c)
         /\ disc'.dataBlocks[b] = x
<1>1. PICK len : len = Reached(c)
  OBVIOUS
<1>2. len \in Nat /\ len > 0
  BY <1>1, Sizes
<1>3. HalfDone(c) /\ cmd[c].dataBlocks = disc.dataBlocks
  BY DEF Lone
<1>4. Begun(c)[len] = b
  BY <1>1, <1>3 DEF HalfDone
<1>5. disc'.dataBlocks = [disc.dataBlocks EXCEPT ![b] = x]
      /\ disc.dataBlocks \in [BlockIds -> BlockSet]
  BY DiscFields DEF BlockWritten, TypeOK
<1>6. ASSUME NEW k \in 1..(len - 1)
      PROVE  /\ Begun(c)[k] \in BlockIds /\ Begun(c)[k] # b
             /\ disc'.dataBlocks[Begun(c)[k]] = disc.dataBlocks[Begun(c)[k]]
  <2>1. /\ Begun(c)[k] \in BlockIds
        /\ disc.dataBlocks[Begun(c)[k]].data = Contents[cmd[c].name].data[k]
    BY <1>1, <1>3 DEF HalfDone
  <2>2. k \in 1..Length(cmd[c].name)
    <3>1. Length(cmd[c].name) \in Nat
      BY Sizes
    <3> QED
      BY <1>1, <3>1
  <2>3. disc.dataBlocks[Begun(c)[k]].data # ZERO
    BY <2>1, <2>2, Sizes
  <2>4. Begun(c)[k] # b
    BY <1>3, <2>3
  <2> QED
    BY <1>5, <2>1, <2>4
<1>7. Chain(disc'.dataBlocks, Target(c).firstBlock, len) = Begun(c)
  <2>1. Begun(c) = Chain(disc.dataBlocks, Target(c).firstBlock, len)
    BY <1>1 DEF Begun
  <2>2. ASSUME NEW k \in 1..(len - 1)
        PROVE  After(disc'.dataBlocks, Chain(disc.dataBlocks, Target(c).firstBlock, len)[k])
                 = After(disc.dataBlocks, Chain(disc.dataBlocks, Target(c).firstBlock, len)[k])
    BY <1>6, <2>1 DEF After
  <2> QED
    BY <1>2, <2>1, <2>2, ChainStays
<1>8. disc'.dataBlocks[b] = x
  BY <1>5
<1> QED
  BY <1>1, <1>4, <1>6, <1>7, <1>8

\* COPYTO writes a block.
LEMMA WriteDataBlockKeeps ==
  ASSUME TypeOK, FilesInv, NEW c \in Commands, WriteDataBlock(c)
  PROVE  TypeOK' /\ FilesInv'
<1>1. PICK s, n, i, b, p : s = cmd[c] /\ n = s.name /\ i = s.index /\ b = s.offset
                           /\ p = Reached(c)
  OBVIOUS
<1>2. /\ s.pc = "block" /\ n \in Names /\ UNCHANGED mess
      /\ b \in BlockIds /\ p \in 1..Length(n) /\ s.dataBlocks[b].data = ZERO
  BY <1>1, WriteDataBlockDoes
<1>3. PICK x \in BlockSet :
        /\ BlockWritten(b, x)
        /\ x.data = Contents[n].data[p] /\ x.data # ZERO
        /\ \/ /\ p = Length(n) /\ x.nextBlock = 0
              /\ Moved(c, Idle) /\ Stores(c)
           \/ /\ p < Length(n) /\ UNCHANGED <<stored, exposed>>
              /\ \/ x.nextBlock = NIL
                 \/ x.nextBlock \in FreeDataBlocks(s.dataBlocks) /\ x.nextBlock > b
              /\ \E r \in CommandSet :
                   /\ Moved(c, r) /\ Sensible(r)
                   /\ r.pc = "block" /\ r.name = n
                   /\ r.dataBlocks = [s.dataBlocks EXCEPT ![b] = x]
                   /\ r.index = i /\ r.offset = x.nextBlock
                   /\ Place(r.name, r.left) = p + 1
                   /\ r.alone = s.alone
  BY <1>1, WriteDataBlockDoes
<1>4. /\ disc' \in DiscSet /\ disc'.exists = disc.exists /\ disc'.magic = disc.magic
      /\ disc'.iNodes = disc.iNodes
      /\ disc'.dataBlocks = [disc.dataBlocks EXCEPT ![b] = x]
  BY <1>3 DEF BlockWritten
<1>5. /\ stored \subseteq Names /\ exposed \subseteq Names /\ mess \in Nat
      /\ i \in INodeIds /\ s.alone \in BOOLEAN
      /\ disc.dataBlocks \in [BlockIds -> BlockSet]
      /\ s.dataBlocks \in [BlockIds -> BlockSet]
  BY <1>1, <1>2, CommandFields, DiscFields DEF TypeOK, Sensible
<1>6. c \in Running /\ disc.exists /\ (s.alone => Lone(c) /\ Running = {c})
  BY <1>1, <1>2, LoneRuns
<1>7. (\A m \in stored : Kept(m)) /\ (\A m \in Safe : Intact(m)) /\ Apart
  BY DEF FilesInv
<1>8. Safe \subseteq stored
  BY DEF Safe
<1>9. ASSUME NEW m \in Safe
      PROVE  /\ m \in Names /\ Whole(disc, m) /\ disc.magic
             /\ \A a \in On(disc, m) : s.dataBlocks[a].data # ZERO /\ a # b
  <2>1. Intact(m) /\ m \in Names
    BY <1>5, <1>7, <1>8
  <2>2. SparesBlocks(s, On(disc, m))
    BY <1>1, <2>1 DEF Intact
  <2> QED
    BY <1>1, <1>2, <2>1, <2>2 DEF Intact, SparesBlocks
<1>10. ASSUME NEW r, Moved(c, r), NEW m \in stored,
              SparesINode(s, m, IndexOf(disc, m), disc.iNodes[IndexOf(disc, m)])
                => SparesINode(r, m, IndexOf(disc, m), disc.iNodes[IndexOf(disc, m)]),
              m \in Safe => SparesBlocks(r, On(disc, m))
      PROVE  /\ Kept(m)' /\ m # n
             /\ m \in Safe => Intact(m)' /\ On(disc', m) = On(disc, m)
  <2>1. OneINode(disc, m)
        /\ SparesINode(s, m, IndexOf(disc, m), disc.iNodes[IndexOf(disc, m)])
    BY <1>1, <1>7 DEF Kept
  <2>2. m # n
    BY <1>1, <1>2, <2>1 DEF SparesINode
  <2>3. /\ WithName(disc'.iNodes, m) = {IndexOf(disc, m)}
        /\ disc'.iNodes[IndexOf(disc, m)] = disc.iNodes[IndexOf(disc, m)]
    BY <1>4, <2>1 DEF OneINode
  <2>4. SparesINode(r, m, IndexOf(disc, m), disc.iNodes[IndexOf(disc, m)])
    BY <1>10, <2>1
  <2>5. m \in Safe => \A a \in On(disc, m) : disc'.dataBlocks[a] = disc.dataBlocks[a]
    BY <1>4, <1>5, <1>9
  <2>6. /\ Kept(m)'
        /\ (\A a \in On(disc, m) : disc'.dataBlocks[a] = disc.dataBlocks[a])
             => /\ On(disc', m) = On(disc, m)
                /\ m \in Safe /\ disc'.magic /\ SparesBlocks(r, On(disc, m))
                     => Intact(m)'
    BY <1>7, <1>10, <2>3, <2>4, FilesStay
  <2>7. m \in Safe => disc'.magic
    BY <1>4, <1>9
  <2> QED
    BY <1>10, <2>2, <2>5, <2>6, <2>7
<1>11. \A a \in BlockIds : disc'.dataBlocks[a].data = ZERO
                                => disc'.dataBlocks[a].nextBlock = NIL
  <2> TAKE a \in BlockIds
  <2>1. disc.dataBlocks[a].data = ZERO => disc.dataBlocks[a].nextBlock = NIL
    BY DEF FilesInv, Free, Link, isDataBlockFree
  <2>2. disc'.dataBlocks[a] = IF a = b THEN x ELSE disc.dataBlocks[a]
    BY <1>4, <1>5
  <2> QED
    BY <1>3, <2>1, <2>2
<1>12. s.alone =>
         /\ HalfDone(c) /\ disc.magic /\ Running = {c} /\ s.dataBlocks = disc.dataBlocks
         /\ Begun(c)[p] = b
         /\ \A k \in 1..(p - 1) :
              /\ Begun(c)[k] \in BlockIds /\ Begun(c)[k] # b
              /\ disc'.dataBlocks[Begun(c)[k]] = disc.dataBlocks[Begun(c)[k]]
         /\ Chain(disc'.dataBlocks, Target(c).firstBlock, p) = Begun(c)
         /\ disc'.dataBlocks[b] = x
  <2> SUFFICES ASSUME s.alone
        PROVE /\ HalfDone(c) /\ disc.magic /\ Running = {c} /\ s.dataBlocks = disc.dataBlocks
              /\ Begun(c)[p] = b
              /\ \A k \in 1..(p - 1) :
                   /\ Begun(c)[k] \in BlockIds /\ Begun(c)[k] # b
                   /\ disc'.dataBlocks[Begun(c)[k]] = disc.dataBlocks[Begun(c)[k]]
              /\ Chain(disc'.dataBlocks, Target(c).firstBlock, p) = Begun(c)
              /\ disc'.dataBlocks[b] = x
    OBVIOUS
  <2>1. Lone(c)
    BY <1>6
  <2>2. HalfDone(c) /\ disc.magic /\ Running = {c} /\ s.dataBlocks = disc.dataBlocks
    BY <1>1, <1>2, <2>1 DEF Lone
  <2>3. /\ cmd[c].pc = "block" /\ b = cmd[c].offset /\ cmd[c].name \in Names
        /\ cmd[c].dataBlocks[b].data = ZERO
        /\ Reached(c) \in 1..Length(cmd[c].name)
    BY <1>1, <1>2
  <2>4. /\ Begun(c)[Reached(c)] = b
        /\ \A k \in 1..(Reached(c) - 1) :
             /\ Begun(c)[k] \in BlockIds /\ Begun(c)[k] # b
             /\ disc'.dataBlocks[Begun(c)[k]] = disc.dataBlocks[Begun(c)[k]]
        /\ Chain(disc'.dataBlocks, Target(c).firstBlock, Reached(c)) = Begun(c)
        /\ disc'.dataBlocks[b] = x
    BY <1>2, <1>3, <2>1, <2>3, BegunGrows
  <2> QED
    BY <1>1, <2>2, <2>4
<1>13. s.alone =>
         /\ WithName(disc.iNodes, n) = {i}
         /\ Target(c) = disc.iNodes[i]
         /\ Target(c).fileSize = Contents[n].size /\ Target(c).firstBlock # NIL
         /\ \A k \in 1..(p - 1) :
              /\ disc.dataBlocks[Begun(c)[k]].data = Contents[n].data[k]
              /\ \A m \in Safe : Begun(c)[k] \notin On(disc, m)
  BY <1>1, <1>12 DEF HalfDone, Target
<1>14. p \in Nat /\ p > 0 /\ Length(n) \in Nat
  BY <1>2, Sizes
<1>15. CASE p = Length(n) /\ x.nextBlock = 0 /\ Moved(c, Idle) /\ Stores(c)
  <2>1. /\ stored' = IF s.alone THEN stored \cup {n} ELSE stored
        /\ exposed' = exposed \ {n}
    BY <1>1, <1>15 DEF Stores
  <2>2. TypeOK'
    <3>1. stored' \subseteq Names /\ exposed' \subseteq Names /\ mess' \in Nat
      BY <1>2, <1>5, <2>1
    <3> QED
      BY <1>4, <1>15, <3>1, IdleFits, TypesStay
  <2>3. ASSUME NEW m \in stored
        PROVE  /\ Kept(m)' /\ m # n
               /\ m \in Safe => Intact(m)' /\ On(disc', m) = On(disc, m)
    <3>1. /\ SparesINode(Idle, m, IndexOf(disc, m), disc.iNodes[IndexOf(disc, m)])
          /\ SparesBlocks(Idle, On(disc, m))
      BY IdleSpares
    <3> QED
      BY <1>10, <1>15, <3>1
  <2>4. \A m \in Safe' : m \in Safe \/ (m = n /\ s.alone)
    BY <2>1, <2>3 DEF Safe
  <2>5. ASSUME s.alone
        PROVE  /\ Kept(n)' /\ Intact(n)'
               /\ \A m \in Safe : On(disc', n) \cap On(disc, m) = {}
    <3>1. /\ WithName(disc'.iNodes, n) = {i}
          /\ disc'.iNodes[i].fileSize = Contents[n].size
          /\ disc'.iNodes[i].firstBlock # NIL
      BY <1>4, <1>13, <2>5
    <3>2. /\ Kept(n)' /\ FirstOf(disc', n) = disc'.iNodes[i].firstBlock
          /\ disc'.magic /\ Whole(disc', n) => Intact(n)'
      BY <1>2, <1>5, <1>12, <1>15, <2>5, <3>1, NewFile
    <3>3. Path(disc', n) = Begun(c)
      BY <1>4, <1>12, <1>13, <1>15, <2>5, <3>2 DEF Path
    <3>4. ASSUME NEW k \in 1..Length(n)
          PROVE  /\ Begun(c)[k] \in BlockIds
                 /\ disc'.dataBlocks[Begun(c)[k]].data = Contents[n].data[k]
                 /\ k = Length(n) => disc'.dataBlocks[Begun(c)[k]].nextBlock = 0
                 /\ \A m \in Safe : Begun(c)[k] \notin On(disc, m)
      <4>1. CASE k = Length(n)
        <5>1. Begun(c)[k] = b /\ disc'.dataBlocks[b] = x
          BY <1>12, <1>15, <2>5, <4>1
        <5> QED
          BY <1>2, <1>3, <1>9, <1>15, <4>1, <5>1
      <4>2. CASE k # Length(n)
        <5>1. k \in 1..(p - 1)
          BY <1>14, <1>15, <4>2
        <5> QED
          BY <1>12, <1>13, <2>5, <4>2, <5>1
      <4> QED
        BY <4>1, <4>2
    <3>5. Whole(disc', n)
      BY <3>3, <3>4 DEF Whole
    <3>6. \A m \in Safe : On(disc', n) \cap On(disc, m) = {}
      BY <3>3, <3>4 DEF On
    <3> QED
      BY <1>4, <1>12, <2>5, <3>2, <3>5, <3>6
  <2>6. \A m \in stored' : Kept(m)'
    BY <2>1, <2>3, <2>5
  <2>7. \A m \in Safe' : Intact(m)'
    BY <1>8, <2>3, <2>4, <2>5
  <2>8. \A m, k \in Safe' : m # k => On(disc', m) \cap On(disc', k) = {}
    <3> SUFFICES ASSUME NEW m \in Safe', NEW k \in Safe', m # k
                 PROVE  On(disc', m) \cap On(disc', k) = {}
      OBVIOUS
    <3>1. CASE m \in Safe /\ k \in Safe
      BY <1>7, <1>8, <2>3, <3>1 DEF Apart
    <3>2. CASE m \notin Safe
      <4>1. m = n /\ s.alone /\ k \in Safe
        BY <2>4, <3>2
      <4>2. On(disc', k) = On(disc, k)
        BY <1>8, <2>3, <4>1
      <4> QED
        BY <2>5, <4>1, <4>2
    <3>3. CASE k \notin Safe
      <4>1. k = n /\ s.alone /\ m \in Safe
        BY <2>4, <3>3
      <4>2. On(disc', m) = On(disc, m)
        BY <1>8, <2>3, <4>1
      <4>3. On(disc', k) \cap On(disc', m) = {}
        BY <2>5, <4>1, <4>2
      <4> QED
        BY <4>3
    <3> QED
      BY <3>1, <3>2, <3>3
  <2>9. /\ \A d \in Running' : cmd'[d].alone => Lone(d)'
        /\ mess' = 0 => \A d \in Running' : cmd'[d].alone
    BY <1>2, <1>6, <1>15, IdleFits, AloneStays
  <2> QED
    BY <1>4, <1>6, <1>11, <2>2, <2>6, <2>7, <2>8, <2>9, FilesParts
<1>16. ASSUME p < Length(n), UNCHANGED <<stored, exposed>>,
              x.nextBlock = NIL
                \/ (x.nextBlock \in FreeDataBlocks(s.dataBlocks) /\ x.nextBlock > b),
              NEW r \in CommandSet, Moved(c, r), Sensible(r),
              r.pc = "block", r.name = n,
              r.dataBlocks = [s.dataBlocks EXCEPT ![b] = x],
              r.index = i, r.offset = x.nextBlock,
              Place(r.name, r.left) = p + 1, r.alone = s.alone
       PROVE  TypeOK' /\ FilesInv'
  <2>1. TypeOK'
    BY <1>2, <1>4, <1>5, <1>16, TypesStay
  <2>2. ASSUME NEW m \in stored
        PROVE  /\ Kept(m)' /\ m # n
               /\ m \in Safe => Intact(m)' /\ On(disc', m) = On(disc, m)
    <3>1. SparesINode(s, m, IndexOf(disc, m), disc.iNodes[IndexOf(disc, m)])
            => SparesINode(r, m, IndexOf(disc, m), disc.iNodes[IndexOf(disc, m)])
      BY <1>1, <1>2, <1>16 DEF SparesINode
    <3>2. ASSUME m \in Safe, NEW a \in On(disc, m)
          PROVE  r.dataBlocks[a].data # ZERO /\ a # r.offset
      <4>1. a \in BlockIds /\ s.dataBlocks[a].data # ZERO /\ a # b
        BY <1>9, <3>2, OnBlocks
      <4>2. r.dataBlocks[a] = s.dataBlocks[a]
        BY <1>5, <1>16, <4>1
      <4>3. a # x.nextBlock
        BY <1>16, <4>1, Ids DEF FreeDataBlocks, isDataBlockFree
      <4> QED
        BY <1>16, <4>1, <4>2, <4>3
    <3>3. m \in Safe => SparesBlocks(r, On(disc, m))
      BY <3>2 DEF SparesBlocks
    <3> QED
      BY <1>10, <1>16, <3>1, <3>3
  <2>3. Safe' = Safe
    BY <1>16 DEF Safe
  <2>4. \A m \in stored' : Kept(m)'
    BY <1>16, <2>2
  <2>5. \A m \in Safe' : Intact(m)'
    BY <1>8, <2>2, <2>3
  <2>6. \A m, k \in Safe' : m # k => On(disc', m) \cap On(disc', k) = {}
    BY <1>7, <1>8, <2>2, <2>3 DEF Apart
  <2>7. r.alone => Lone(c)'
    <3> SUFFICES ASSUME r.alone PROVE Lone(c)'
      OBVIOUS
    <3>0. s.alone
      BY <1>16
    <3>1. Running' = Running
      BY <1>1, <1>2, <1>16 DEF Running, Moved
    <3>2. cmd'[c] = r
      BY <1>16 DEF Moved
    <3>3. Target(c)' = Target(c) /\ Reached(c)' = p + 1
      BY <1>1, <1>4, <1>16, <3>2 DEF Target, Reached
    <3>4. PICK g : g = Begun(c)'
      OBVIOUS
    <3>5. g = Chain(disc'.dataBlocks, Target(c).firstBlock, p + 1)
      BY <3>3, <3>4 DEF Begun
    <3>6. /\ \A k \in 1..p : g[k] = Begun(c)[k]
          /\ g[p + 1] = After(disc'.dataBlocks, b)
      <4>1. /\ \A k \in 1..p : g[k] = Chain(disc'.dataBlocks, Target(c).firstBlock, p)[k]
            /\ g[p + 1] = After(disc'.dataBlocks,
                                Chain(disc'.dataBlocks, Target(c).firstBlock, p)[p])
        BY <1>14, <3>5, ChainExtends
      <4> QED
        BY <1>12, <3>0, <4>1
    <3>7. g[p + 1] = r.offset
      BY <1>2, <1>12, <1>16, <3>0, <3>6 DEF After
    <3>8. ASSUME NEW k \in 1..p
          PROVE  /\ g[k] \in BlockIds
                 /\ disc'.dataBlocks[g[k]].data = Contents[n].data[k]
                 /\ \A m \in Safe' : g[k] \notin On(disc', m)
      <4>1. g[k] = Begun(c)[k] /\ \A m \in Safe' : m \in Safe /\ On(disc', m) = On(disc, m)
        BY <1>8, <2>2, <2>3, <3>6
      <4>2. CASE k = p
        <5>1. g[k] = b /\ disc'.dataBlocks[b] = x
          BY <1>12, <3>0, <4>1, <4>2
        <5> QED
          BY <1>2, <1>3, <1>9, <4>1, <4>2, <5>1
      <4>3. CASE k # p
        <5>1. k \in 1..(p - 1)
          BY <1>14, <4>3
        <5>2. g[k] \in BlockIds /\ disc'.dataBlocks[g[k]].data = Contents[n].data[k]
          BY <1>12, <1>13, <3>0, <4>1, <5>1
        <5>3. \A m \in Safe : g[k] \notin On(disc, m)
          BY <1>13, <3>0, <4>1, <5>1
        <5> QED
          BY <4>1, <5>2, <5>3
      <4> QED
        BY <4>2, <4>3
    <3>9. HalfDone(c)'
      <4>1. WithName(disc'.iNodes, cmd'[c].name) = {cmd'[c].index}
        BY <1>4, <1>13, <1>16, <3>0, <3>2
      <4>2. /\ Target(c)'.fileSize = Contents[cmd'[c].name].size
            /\ Target(c)'.firstBlock # NIL
        BY <1>13, <1>16, <3>0, <3>2, <3>3
      <4>3. Begun(c)'[Reached(c)'] = cmd'[c].offset
        BY <3>2, <3>3, <3>4, <3>7
      <4>4. 1..(Reached(c)' - 1) = 1..p
        BY <1>14, <3>3
      <4>5. \A k \in 1..(Reached(c)' - 1) :
              /\ Begun(c)'[k] \in BlockIds
              /\ disc'.dataBlocks[Begun(c)'[k]].data = Contents[cmd'[c].name].data[k]
              /\ \A m \in Safe' : Begun(c)'[k] \notin On(disc', m)
        BY <1>16, <3>2, <3>4, <3>8, <4>4
      <4> QED
        BY <4>1, <4>2, <4>3, <4>5 DEF HalfDone, On, Path, FirstOf, IndexOf
    <3>10. r.dataBlocks = disc'.dataBlocks
      BY <1>4, <1>12, <1>16, <3>0
    <3> QED
      BY <1>4, <1>12, <1>16, <3>0, <3>1, <3>2, <3>9, <3>10 DEF Lone
  <2>8. /\ \A d \in Running' : cmd'[d].alone => Lone(d)'
        /\ mess' = 0 => \A d \in Running' : cmd'[d].alone
    BY <1>1, <1>2, <1>6, <1>16, <2>7, AloneStays
  <2> QED
    BY <1>4, <1>6, <1>11, <2>1, <2>4, <2>5, <2>6, <2>8, FilesParts
<1> QED
  BY <1>3, <1>15, <1>16
-----------------------------------------------------------------------------
(* The steps keep RootInv and HitsInv *)

\* While commands run one after the other, only one of them runs.
LEMMA OnlyOne ==
  ASSUME TypeOK, FilesInv, mess = 0, NEW c \in Commands, cmd[c].pc # "idle"
  PROVE  /\ Lone(c) /\ cmd[c].alone
         /\ \A d \in Commands \ {c} : cmd[d].pc = "idle"
         /\ \A r : Moved(c, r) => \A d \in Commands \ {c} : cmd'[d].pc = "idle"
<1>1. Lone(c) /\ Running = {c} /\ cmd[c].alone
  BY LoneRuns
<1>2. \A d \in Commands \ {c} : cmd[d].pc = "idle"
  BY <1>1 DEF Running
<1>3. \A r : Moved(c, r) => \A d \in Commands \ {c} : cmd'[d].pc = "idle"
  BY <1>2 DEF Moved
<1> QED
  BY <1>1, <1>2, <1>3

\* The blocks from block 0 on when no command writes or clears one of them
Still(Z) ==
  /\ 0 \in Z
  /\ \A b \in Z : ~Free(b) /\ Link(b) \in Z /\ (Link(b) > b \/ Link(b) = 0)
  /\ \A n \in Safe : FirstOf(disc, n) # 0 => Z \cap On(disc, n) = {}

\* No command does: then there is no other way for those blocks.
LEMMA RootIsStill ==
  ASSUME NEW Z \in SUBSET BlockIds, Root(Z),
         \A d \in Commands :
           /\ cmd[d].pc = "block" => cmd[d].offset \notin Z /\ cmd[d].offset # NIL
           /\ cmd[d].pc = "clear" => cmd[d].offset \notin Z
  PROVE  Still(Z)
<1>1. \A b \in Z : ~Free(b)
  BY DEF Root
<1>2. \A b \in Z : Link(b) \in Z /\ (Link(b) > b \/ Link(b) = 0)
  BY <1>1 DEF Root
<1> QED
  BY <1>1, <1>2 DEF Root, Still

\* The other way round, after a step that leaves these blocks alone
LEMMA StillIsRoot ==
  ASSUME NEW Z \in SUBSET BlockIds, Still(Z),
         \A b \in Z : disc'.dataBlocks[b] = disc.dataBlocks[b],
         \A n \in Safe' : \/ Z \cap On(disc', n) = {}
                          \/ /\ n \in Safe /\ FirstOf(disc', n) = FirstOf(disc, n)
                             /\ On(disc', n) = On(disc, n),
         \A d \in Commands : cmd'[d].pc = "block" =>
           IF Target(d)'.firstBlock = 0
           THEN cmd'[d].offset \in BlockIds => cmd'[d].offset \in Z
           ELSE \A k \in 1..Reached(d)' : Begun(d)'[k] \notin Z
  PROVE  Root(Z)'
<1>1. 0 \in Z
  BY DEF Still
<1>2. \A b \in Z : Free(b)' = Free(b) /\ Link(b)' = Link(b)
  BY DEF Free, Link, isDataBlockFree
<1>3. \A b \in Z : ~Free(b)' /\ Link(b)' \in Z /\ (Link(b)' > b \/ Link(b)' = 0)
  BY <1>2 DEF Still
<1>4. \A n \in Safe' : FirstOf(disc', n) # 0 => Z \cap On(disc', n) = {}
  BY DEF Still
<1>5. \A n \in Safe' : FirstOf(disc, n)' # 0 => Z \cap On(disc, n)' = {}
  BY <1>4 DEF FirstOf, IndexOf, On, Path
<1> QED
  BY <1>1, <1>3, <1>5 DEF Root

\* A step after which no command writes a block
LEMMA RootInvIs ==
  ASSUME \A d \in Commands : cmd'[d].pc # "block",
         mess' = 0 /\ ~Free(0)' => \E Z \in SUBSET BlockIds : Root(Z)'
  PROVE  RootInv'
BY DEF RootInv

\* A step after which no command is to clear a block that is not stray
LEMMA NoHits ==
  ASSUME mess' = 0 => \A d \in Commands : cmd'[d].pc # "clear"
  PROVE  HitsInv'
BY DEF HitsInv

\* What is on the disc of a safe file, when neither its inode nor a block of
\* it is written
LEMMA PathStays ==
  ASSUME TypeOK, FilesInv, NEW n \in stored,
         WithName(disc'.iNodes, n) = {IndexOf(disc, n)},
         disc'.iNodes[IndexOf(disc, n)] = disc.iNodes[IndexOf(disc, n)]
  PROVE  /\ IndexOf(disc', n) = IndexOf(disc, n)
         /\ FirstOf(disc', n) = FirstOf(disc, n)
         /\ (\A b \in On(disc, n) : disc'.dataBlocks[b] = disc.dataBlocks[b])
              => On(disc', n) = On(disc, n)
<1>1. OneINode(disc, n) /\ n \in Names
  BY DEF FilesInv, Kept, TypeOK
<1>2. IndexOf(disc', n) = IndexOf(disc, n) /\ OneINode(disc', n)
  BY FoundINode
<1>3. FirstOf(disc', n) = FirstOf(disc, n)
  BY <1>2 DEF FirstOf
<1> QED
  BY <1>1, <1>2, <1>3, WholeStays

\* A command that starts
LEMMA StartRoots ==
  ASSUME TypeOK, FilesInv, RootInv, NEW c \in Commands,
         NEW op \in {"COPYTO", "RM"}, NEW n \in Names, Start(c, op, n)
  PROVE  RootInv' /\ HitsInv'
<1>1. /\ UNCHANGED <<disc, stored, exposed>>
      /\ cmd'[c].pc = "load"
      /\ \A d \in Commands \ {c} : Alike(cmd'[d], cmd[d])
      /\ mess' = 0 => mess = 0 /\ Running = {}
  BY StartDoes
<1>2. mess' = 0 => \A d \in Commands : cmd[d].pc = "idle"
  BY <1>1 DEF Running
<1>3. mess' = 0 => \A d \in Commands : cmd'[d].pc \notin {"block", "clear"}
  BY <1>1, <1>2 DEF Alike
<1>4. HitsInv'
  BY <1>3, NoHits
<1>5. ASSUME mess' = 0, ~Free(0)' PROVE \E Z \in SUBSET BlockIds : Root(Z)'
  <2>1. mess = 0 /\ ~Free(0)
    BY <1>1, <1>5 DEF Free
  <2>2. PICK Z \in SUBSET BlockIds : Root(Z)
    BY <2>1 DEF RootInv
  <2>3. Still(Z)
    BY <1>2, <1>5, <2>2, RootIsStill
  <2>4. /\ \A b \in Z : disc'.dataBlocks[b] = disc.dataBlocks[b]
        /\ \A m \in Safe' : /\ m \in Safe /\ FirstOf(disc', m) = FirstOf(disc, m)
                            /\ On(disc', m) = On(disc, m)
    BY <1>1 DEF Safe
  <2>5. Root(Z)'
    BY <1>3, <1>5, <2>3, <2>4, StillIsRoot
  <2> QED
    BY <2>5
<1>6. RootInv'
  BY <1>3, <1>5 DEF RootInv
<1> QED
  BY <1>4, <1>6

\* An end that nobody planned
LEMMA EndRoots ==
  ASSUME TypeOK, NEW c \in Commands, OutOfBounds(c) \/ Killed(c)
  PROVE  RootInv' /\ HitsInv'
<1>1. mess' # 0
  BY EndDoes
<1> QED
  BY <1>1 DEF RootInv, HitsInv

\* A disc that is made or thrown away
LEMMA CreateDeleteRoots ==
  ASSUME TypeOK, FilesInv, Create \/ Delete
  PROVE  RootInv' /\ HitsInv'
<1>1. Running = {} /\ UNCHANGED cmd /\ disc'.dataBlocks = Empty.dataBlocks
  BY CreateDeleteDo DEF FilesInv
<1>2. \A d \in Commands : cmd'[d].pc = "idle"
  BY <1>1 DEF Running
<1>3. Free(0)'
  BY <1>1, EmptyFits, Ids DEF Free, isDataBlockFree
<1> QED
  BY <1>2, <1>3, RootInvIs, NoHits

\* A COPYTO that has loaded the disc
LEMMA LoadCopyToRoots ==
  ASSUME TypeOK, FilesInv, RootInv, NEW c \in Commands, LoadCopyTo(c)
  PROVE  RootInv' /\ HitsInv'
<1>1. /\ cmd[c].pc = "load" /\ UNCHANGED <<disc, stored, exposed, mess>>
      /\ \E r : Moved(c, r) /\ r.pc \in {"idle", "inode"}
  BY LoadCopyToDoes, IdleFits
<1>2. PICK r : Moved(c, r) /\ r.pc \in {"idle", "inode"}
  BY <1>1
<1>3. mess = 0 => /\ \A d \in Commands \ {c} : cmd[d].pc = "idle"
                  /\ \A d \in Commands \ {c} : cmd'[d].pc = "idle"
  BY <1>1, <1>2, OnlyOne
<1>4. mess' = 0 => \A d \in Commands : cmd'[d].pc \notin {"block", "clear"}
  BY <1>1, <1>2, <1>3 DEF Moved
<1>5. ASSUME mess' = 0, ~Free(0)' PROVE \E Z \in SUBSET BlockIds : Root(Z)'
  <2>1. mess = 0 /\ ~Free(0)
    BY <1>1, <1>5 DEF Free
  <2>2. PICK Z \in SUBSET BlockIds : Root(Z)
    BY <2>1 DEF RootInv
  <2>3. Still(Z)
    BY <1>1, <1>3, <2>1, <2>2, RootIsStill
  <2>4. /\ \A b \in Z : disc'.dataBlocks[b] = disc.dataBlocks[b]
        /\ \A m \in Safe' : /\ m \in Safe /\ FirstOf(disc', m) = FirstOf(disc, m)
                            /\ On(disc', m) = On(disc, m)
    BY <1>1 DEF Safe
  <2>5. Root(Z)'
    BY <1>4, <1>5, <2>3, <2>4, StillIsRoot
  <2> QED
    BY <2>5
<1>6. RootInv'
  BY <1>4, <1>5 DEF RootInv
<1> QED
  BY <1>4, <1>6, NoHits

\* The end of an RM
LEMMA ClearINodeRoots ==
  ASSUME TypeOK, FilesInv, RootInv, NEW c \in Commands, ClearINode(c)
  PROVE  RootInv' /\ HitsInv'
<1>1. /\ cmd[c].pc = "clear" /\ cmd[c].offset = NIL
      /\ UNCHANGED <<stored, exposed, mess>>
      /\ cmd[c].index \in INodeIds
      /\ INodeWritten(cmd[c].index, INode)
      /\ Moved(c, Idle)
  BY ClearINodeDoes
<1>2. mess = 0 => /\ \A d \in Commands \ {c} : cmd[d].pc = "idle"
                  /\ \A d \in Commands \ {c} : cmd'[d].pc = "idle"
  BY <1>1, OnlyOne
<1>3. mess' = 0 => \A d \in Commands : cmd'[d].pc \notin {"block", "clear"}
  BY <1>1, <1>2, IdleFits DEF Moved
<1>4. disc'.dataBlocks = disc.dataBlocks
  BY <1>1 DEF INodeWritten
<1>5. ASSUME NEW n \in Safe'
      PROVE  /\ n \in Safe /\ FirstOf(disc', n) = FirstOf(disc, n)
             /\ On(disc', n) = On(disc, n)
  <2>1. n \in Safe /\ n \in stored /\ n \in Names
    BY <1>1 DEF Safe, TypeOK
  <2>2. Kept(n)
    BY <2>1 DEF FilesInv
  <2>3. OneINode(disc, n) /\ cmd[c].index # IndexOf(disc, n)
    BY <1>1, <2>2 DEF Kept, SparesINode
  <2>4. INode.fileName # n
    BY <2>1, VfsAssumption DEF INode
  <2>5. /\ WithName(disc'.iNodes, n) = {IndexOf(disc, n)}
        /\ disc'.iNodes[IndexOf(disc, n)] = disc.iNodes[IndexOf(disc, n)]
    BY <1>1, <2>3, <2>4, NamesStay
  <2> QED
    BY <1>4, <2>1, <2>5, PathStays
<1>6. ASSUME mess' = 0, ~Free(0)' PROVE \E Z \in SUBSET BlockIds : Root(Z)'
  <2>1. mess = 0 /\ ~Free(0)
    BY <1>1, <1>4, <1>6 DEF Free
  <2>2. PICK Z \in SUBSET BlockIds : Root(Z)
    BY <2>1 DEF RootInv
  <2>3. Still(Z)
    BY <1>1, <1>2, <2>1, <2>2, Ids, RootIsStill
  <2>4. Root(Z)'
    BY <1>3, <1>4, <1>5, <1>6, <2>3, StillIsRoot
  <2> QED
    BY <2>4
<1>7. RootInv'
  BY <1>3, <1>6 DEF RootInv
<1> QED
  BY <1>3, <1>7, NoHits

\* An RM that has loaded the disc
LEMMA LoadRemoveRoots ==
  ASSUME TypeOK, FilesInv, RootInv, NEW c \in Commands, LoadRemove(c)
  PROVE  RootInv' /\ HitsInv'
<1>1. /\ cmd[c].pc = "load" /\ cmd[c].name \in Names
      /\ UNCHANGED <<disc, mess>> /\ exposed' = exposed \cap stored'
      /\ \/ Moved(c, Idle) /\ UNCHANGED stored
         \/ /\ stored' = stored \ {cmd[c].name}
            /\ \E r \in CommandSet :
                 /\ Moved(c, r) /\ r.pc = "clear" /\ r.name = cmd[c].name
                 /\ r.index = getINodeIndex(cmd[c].iNodes, r.name)
                 /\ r.offset = cmd[c].iNodes[r.index].firstBlock
                 /\ ~r.stray => /\ r.name \in Safe
                                /\ cmd[c].iNodes[r.index].fileSize # 0
  BY LoadRemoveDoes
<1>2. PICK r : Moved(c, r) /\ r.pc \in {"idle", "clear"}
  BY <1>1, IdleFits
<1>3. mess = 0 => /\ \A d \in Commands \ {c} : cmd[d].pc = "idle"
                  /\ \A d \in Commands \ {c} : cmd'[d].pc = "idle"
                  /\ Lone(c)
  BY <1>1, <1>2, OnlyOne
<1>4. mess' = 0 => \A d \in Commands : cmd'[d].pc # "block"
  BY <1>1, <1>2, <1>3 DEF Moved
<1>5. Safe' \subseteq Safe
  BY <1>1 DEF Safe
<1>6. ASSUME mess = 0, ~Free(0) PROVE \E Z \in SUBSET BlockIds : Still(Z)
  <2>1. PICK Z \in SUBSET BlockIds : Root(Z)
    BY <1>6 DEF RootInv
  <2>2. Still(Z)
    BY <1>1, <1>3, <1>6, <2>1, RootIsStill
  <2> QED
    BY <2>2
<1>7. ASSUME mess' = 0, ~Free(0)' PROVE \E Z \in SUBSET BlockIds : Root(Z)'
  <2>1. mess = 0 /\ ~Free(0)
    BY <1>1, <1>7 DEF Free
  <2>2. PICK Z \in SUBSET BlockIds : Still(Z)
    BY <1>6, <2>1
  <2>3. /\ \A b \in Z : disc'.dataBlocks[b] = disc.dataBlocks[b]
        /\ \A m \in Safe' : /\ m \in Safe /\ FirstOf(disc', m) = FirstOf(disc, m)
                            /\ On(disc', m) = On(disc, m)
    BY <1>1, <1>5
  <2>4. Root(Z)'
    BY <1>4, <1>7, <2>2, <2>3, StillIsRoot
  <2> QED
    BY <2>4
<1>8. RootInv'
  BY <1>4, <1>7 DEF RootInv
<1>9. ASSUME mess' = 0, NEW d \in Commands, cmd'[d].pc = "clear", ~cmd'[d].stray
      PROVE  \E Y \in SUBSET BlockIds : Hits(d, Y)'
  <2>1. mess = 0 /\ d = c
    BY <1>1, <1>3, <1>9
  <2>2. ~Moved(c, Idle)
    BY <1>9, <2>1, IdleFits DEF Moved
  <2>3. PICK s \in CommandSet :
             /\ Moved(c, s) /\ s.pc = "clear" /\ s.name = cmd[c].name
             /\ s.index = getINodeIndex(cmd[c].iNodes, s.name)
             /\ s.offset = cmd[c].iNodes[s.index].firstBlock
             /\ ~s.stray => /\ s.name \in Safe
                            /\ cmd[c].iNodes[s.index].fileSize # 0
    BY <1>1, <2>2
  <2>4. cmd'[c] = s /\ ~s.stray /\ stored' = stored \ {s.name}
    BY <1>1, <1>9, <2>1, <2>2, <2>3 DEF Moved
  <2>5. PICK n : n = s.name
    OBVIOUS
  <2>6. n \in Safe /\ n \in Names /\ cmd[c].iNodes = disc.iNodes
    BY <1>1, <1>3, <2>1, <2>3, <2>4, <2>5 DEF Lone
  <2>7. s.index = IndexOf(disc, n) /\ s.offset = FirstOf(disc, n)
        /\ disc.iNodes[IndexOf(disc, n)].fileSize # 0
    BY <2>3, <2>4, <2>5, <2>6 DEF IndexOf, FirstOf
  <2>8. Kept(n) /\ Whole(disc, n)
    BY <2>6 DEF FilesInv, Intact, Safe
  <2>9. Length(n) \in Nat /\ Length(n) > 0
    BY <2>6, <2>7, <2>8, Sizes DEF Kept
  <2>10. /\ On(disc, n) \subseteq BlockIds /\ FirstOf(disc, n) \in On(disc, n)
         /\ \A b \in On(disc, n) : Link(b) \in On(disc, n) \cup {0}
    <3>1. /\ Path(disc, n)[1] = FirstOf(disc, n)
          /\ \A k \in 1..(Length(n) - 1) :
               Path(disc, n)[k + 1] = After(disc.dataBlocks, Path(disc, n)[k])
      BY <2>9, ChainSteps DEF Path
    <3>2. On(disc, n) \subseteq BlockIds
      BY <2>6, <2>8, OnBlocks
    <3>3. 1 \in 1..Length(n)
      BY <2>9
    <3>4. FirstOf(disc, n) \in On(disc, n)
      BY <3>1, <3>3 DEF On
    <3>5. ASSUME NEW b \in On(disc, n) PROVE Link(b) \in On(disc, n) \cup {0}
      <4>1. PICK k \in 1..Length(n) : b = Path(disc, n)[k]
        BY <3>5 DEF On
      <4>2. b \in BlockIds
        BY <3>2, <3>5
      <4>3. CASE k = Length(n)
        BY <2>8, <4>1, <4>3 DEF Whole, Link
      <4>4. CASE k # Length(n)
        <5>1. k \in 1..(Length(n) - 1) /\ k + 1 \in 1..Length(n)
          BY <2>9, <4>4
        <5>2. Path(disc, n)[k + 1] = Link(b)
          BY <3>1, <4>1, <4>2, <5>1 DEF After, Link
        <5> QED
          BY <5>1, <5>2 DEF On
      <4> QED
        BY <4>3, <4>4
    <3> QED
      BY <3>2, <3>4, <3>5
  <2>11. PICK Z \in SUBSET BlockIds :
           /\ 0 \in Z /\ \A b \in Z : Link(b) \in Z \cup {NIL}
           /\ \A m \in Safe : FirstOf(disc, m) # 0 => Z \cap On(disc, m) = {}
    <3>1. CASE Free(0)
      <4>1. Link(0) = NIL
        BY <3>1, Ids DEF FilesInv
      <4>2. ASSUME NEW m \in Safe PROVE 0 \notin On(disc, m)
        <5>1. m \in Names /\ Whole(disc, m)
          BY DEF FilesInv, Intact, Safe, TypeOK
        <5> QED
          BY <3>1, <5>1, OnBlocks DEF Free, isDataBlockFree
      <4>3. {0} \in SUBSET BlockIds
        BY Ids
      <4> QED
        BY <4>1, <4>2, <4>3
    <3>2. CASE ~Free(0)
      BY <1>6, <2>1, <3>2 DEF Still
    <3> QED
      BY <3>1, <3>2
  <2>12. PICK Y : Y = On(disc, n) \cup Z
    OBVIOUS
  <2>13. Y \in SUBSET BlockIds /\ s.offset \in Y
    BY <2>7, <2>10, <2>12
  <2>14. \A b \in Y : Link(b) \in Y \cup {NIL}
    BY <2>10, <2>11, <2>12
  <2>15. ASSUME NEW m \in Safe', FirstOf(disc, m) # 0 PROVE Y \cap On(disc, m) = {}
    <3>1. m \in Safe /\ m # n
      BY <1>5, <2>4, <2>5, <2>15 DEF Safe
    <3>2. On(disc, n) \cap On(disc, m) = {}
      BY <2>6, <3>1 DEF FilesInv, Apart
    <3> QED
      BY <2>11, <2>12, <2>15, <3>1, <3>2
  <2>16. Hits(c, Y)'
    BY <1>1, <2>4, <2>13, <2>14, <2>15 DEF Hits, Link, FirstOf, On, Path, IndexOf
  <2> QED
    BY <2>1, <2>13, <2>16
<1>10. HitsInv'
  BY <1>9 DEF HitsInv
<1> QED
  BY <1>8, <1>10

\* RM clears a block: of those from block 0 on, the next is a later one, until
\* block 0 is cleared.
LEMMA ClearDataBlockRoots ==
  ASSUME TypeOK, FilesInv, RootInv, HitsInv, NEW c \in Commands, ClearDataBlock(c)
  PROVE  RootInv' /\ HitsInv'
<1>1. /\ cmd[c].pc = "clear" /\ UNCHANGED <<stored, mess>>
      /\ cmd[c].offset \in BlockIds
      /\ BlockWritten(cmd[c].offset, DataBlock)
      /\ exposed' = exposed \cup {n \in stored : \/ mess > 0 \/ cmd[c].stray
                                                \/ FirstOf(disc, n) = 0}
  BY ClearDataBlockDoes
<1>2. PICK r \in CommandSet :
           /\ Moved(c, r) /\ r.pc = "clear"
           /\ r.offset = cmd[c].dataBlocks[cmd[c].offset].nextBlock
           /\ r.stray = cmd[c].stray
  BY ClearDataBlockDoes
<1>3. PICK b : b = cmd[c].offset
  OBVIOUS
<1>4. /\ disc'.iNodes = disc.iNodes /\ b \in BlockIds
      /\ disc'.dataBlocks = [disc.dataBlocks EXCEPT ![b] = DataBlock]
      /\ disc.dataBlocks \in [BlockIds -> BlockSet]
  BY <1>1, <1>3, DiscFields DEF BlockWritten, TypeOK
<1>5. /\ Free(b)' /\ Link(b)' = NIL
      /\ \A a \in BlockIds \ {b} : disc'.dataBlocks[a] = disc.dataBlocks[a]
  BY <1>4 DEF Free, Link, isDataBlockFree, DataBlock
<1>6. mess = 0 => /\ \A d \in Commands \ {c} : cmd[d].pc = "idle"
                  /\ \A d \in Commands \ {c} : cmd'[d].pc = "idle"
                  /\ Lone(c)
  BY <1>1, <1>2, OnlyOne
<1>7. mess = 0 => r.offset = Link(b)
  BY <1>1, <1>2, <1>3, <1>6 DEF Lone, Link
<1>8. cmd'[c] = r
  BY <1>2 DEF Moved
<1>9. mess' = 0 => \A d \in Commands : cmd'[d].pc # "block"
  BY <1>1, <1>2, <1>6, <1>8
<1>10. ASSUME NEW n \in Safe'
       PROVE  /\ n \in Safe /\ FirstOf(disc', n) = FirstOf(disc, n)
              /\ On(disc', n) = On(disc, n)
  <2>1. n \in Safe /\ n \in stored
    BY <1>1, <1>10 DEF Safe
  <2>2. mess = 0 /\ ~cmd[c].stray /\ FirstOf(disc, n) # 0
    <3>1. mess \in Nat
      BY DEF TypeOK
    <3> QED
      BY <1>1, <1>10, <2>1, <3>1 DEF Safe
  <2>3. PICK Y \in SUBSET BlockIds : Hits(c, Y)
    BY <1>1, <2>2 DEF HitsInv
  <2>4. b \notin On(disc, n)
    BY <1>3, <1>4, <2>1, <2>2, <2>3, Ids DEF Hits
  <2>5. n \in Names /\ Whole(disc, n) /\ OneINode(disc, n)
    BY <2>1 DEF FilesInv, Intact, Kept, TypeOK
  <2>6. On(disc, n) \subseteq BlockIds
    BY <2>5, OnBlocks
  <2>7. \A a \in On(disc, n) : disc'.dataBlocks[a] = disc.dataBlocks[a]
    BY <1>5, <2>4, <2>6
  <2>8. /\ WithName(disc'.iNodes, n) = {IndexOf(disc, n)}
        /\ disc'.iNodes[IndexOf(disc, n)] = disc.iNodes[IndexOf(disc, n)]
    BY <1>4, <2>5 DEF OneINode
  <2> QED
    BY <2>1, <2>7, <2>8, PathStays
<1>11. ASSUME mess' = 0, ~Free(0)' PROVE \E Z \in SUBSET BlockIds : Root(Z)'
  <2>1. b # 0 /\ mess = 0 /\ Free(0)' = Free(0)
    BY <1>1, <1>5, <1>11, Ids DEF Free
  <2>2. PICK Z \in SUBSET BlockIds : Root(Z)
    BY <1>11, <2>1 DEF RootInv
  <2>3. CASE b \notin Z
    <3>1. \A d \in Commands : /\ cmd[d].pc # "block"
                              /\ cmd[d].pc = "clear" => cmd[d].offset \notin Z
      BY <1>1, <1>3, <1>6, <2>1, <2>3
    <3>2. Still(Z)
      BY <2>2, <3>1, RootIsStill
    <3>3. \A a \in Z : disc'.dataBlocks[a] = disc.dataBlocks[a]
      BY <1>5, <2>3
    <3>4. Root(Z)'
      BY <1>9, <1>10, <1>11, <3>2, <3>3, StillIsRoot
    <3> QED
      BY <3>4
  <2>4. CASE b \in Z
    <3>1. \A a \in Z : ~Free(a) => Link(a) \in Z /\ (Link(a) > a \/ Link(a) = 0)
      BY <1>1, <1>6, <2>1, <2>2 DEF Root
    <3>2. \A a \in Z : Free(a) => a < b
      <4>1. \A a \in Z : Free(a) => a < b \/ b = 0
        BY <1>1, <1>3, <1>6, <2>1, <2>2 DEF Root
      <4> QED
        BY <2>1, <4>1
    <3>3. ~Free(b)
      <4>1. ~(b < b)
        BY <1>4, Ids
      <4> QED
        BY <2>4, <3>2, <4>1
    <3>4. r.offset \in Z /\ (r.offset > b \/ r.offset = 0)
      BY <1>7, <2>1, <2>4, <3>1, <3>3
    <3>5. ASSUME NEW a \in Z
          PROVE  /\ ~Free(a)' => Link(a)' \in Z /\ (Link(a)' > a \/ Link(a)' = 0)
                 /\ Free(a)' => a < r.offset \/ r.offset = 0
      <4>1. CASE a = b
        BY <1>5, <3>4, <4>1, Ids
      <4>2. CASE a # b
        <5>1. Free(a)' = Free(a) /\ Link(a)' = Link(a)
          BY <1>5, <4>2 DEF Free, Link, isDataBlockFree
        <5>2. Free(a) => a < r.offset \/ r.offset = 0
          <6>1. a \in Int /\ b \in Int /\ r.offset \in Int
            BY <2>4, <3>4, Ids
          <6> QED
            BY <3>2, <3>4, <6>1
        <5> QED
          BY <3>1, <5>1, <5>2
      <4> QED
        BY <4>1, <4>2
    <3>6. 0 \in Z
      BY <2>2 DEF Root
    <3>7. \A n \in Safe' : FirstOf(disc', n) # 0 => Z \cap On(disc', n) = {}
      BY <1>10, <2>2 DEF Root
    <3>8. \A n \in Safe' : FirstOf(disc, n)' # 0 => Z \cap On(disc, n)' = {}
      BY <3>7 DEF FirstOf, IndexOf, On, Path
    <3>9. Root(Z)'
      BY <1>2, <1>8, <1>9, <1>11, <3>4, <3>5, <3>6, <3>8 DEF Root
    <3> QED
      BY <3>9
  <2> QED
    BY <2>3, <2>4
<1>12. RootInv'
  BY <1>9, <1>11 DEF RootInv
<1>13. ASSUME mess' = 0, NEW d \in Commands, cmd'[d].pc = "clear", ~cmd'[d].stray
       PROVE  \E Y \in SUBSET BlockIds : Hits(d, Y)'
  <2>1. mess = 0 /\ d = c /\ ~cmd[c].stray
    BY <1>1, <1>2, <1>6, <1>8, <1>13
  <2>2. PICK Y \in SUBSET BlockIds : Hits(c, Y)
    BY <1>1, <2>1 DEF HitsInv
  <2>3. b \in Y
    BY <1>3, <1>4, <2>2, Ids DEF Hits
  <2>4. r.offset \in Y \cup {NIL}
    BY <1>7, <2>1, <2>2, <2>3 DEF Hits
  <2>5. ASSUME NEW a \in Y PROVE Link(a)' \in Y \cup {NIL}
    <3>1. CASE a = b
      BY <1>5, <3>1
    <3>2. CASE a # b
      <4>1. Link(a)' = Link(a)
        BY <1>5, <3>2 DEF Link
      <4> QED
        BY <2>2, <4>1 DEF Hits
    <3> QED
      BY <3>1, <3>2
  <2>6. \A n \in Safe' : FirstOf(disc', n) # 0 => Y \cap On(disc', n) = {}
    BY <1>10, <2>2 DEF Hits
  <2>7. \A n \in Safe' : FirstOf(disc, n)' # 0 => Y \cap On(disc, n)' = {}
    BY <2>6 DEF FirstOf, IndexOf, On, Path
  <2>8. Hits(c, Y)'
    BY <1>8, <2>4, <2>5, <2>7 DEF Hits
  <2> QED
    BY <2>1, <2>8
<1>14. HitsInv'
  BY <1>13 DEF HitsInv
<1> QED
  BY <1>12, <1>14

\* A command that runs alone, and the only one, that writes an inode or a
\* block: the safe files before stay what they are, and the one it finishes
\* is the only new one.
LEMMA SafeGrows ==
  ASSUME NEW c \in Commands,
         Stores(c) \/ UNCHANGED <<stored, exposed>>
  PROVE  Safe' \subseteq Safe \cup {cmd[c].name}
BY DEF Safe, Stores

\* COPYTO writes its inode: it begins with a free block, none of those from
\* block 0 on.
LEMMA WriteINodeRoots ==
  ASSUME TypeOK, FilesInv, RootInv, NEW c \in Commands, WriteINode(c)
  PROVE  RootInv' /\ HitsInv'
<1>1. PICK s, n, i : s = cmd[c] /\ n = s.name /\ i = s.index
  OBVIOUS
<1>2. /\ s.pc = "inode" /\ n \in Names /\ UNCHANGED mess
      /\ INodeWritten(i, NewINode(s))
      /\ s.left = Contents[n].size /\ s.offset # NIL
      /\ \/ /\ s.left = 0 /\ Moved(c, Idle) /\ Stores(c)
         \/ /\ s.left > 0 /\ UNCHANGED <<stored, exposed>>
            /\ \E r \in CommandSet :
                 /\ Moved(c, r) /\ Sensible(r)
                 /\ r.pc = "block" /\ r.name = n
                 /\ r.dataBlocks = s.dataBlocks
                 /\ r.index = i /\ r.offset = s.offset
                 /\ r.left = s.left /\ r.alone = s.alone
  BY <1>1, WriteINodeDoes
<1>3. PICK r : /\ Moved(c, r)
               /\ \/ r.pc = "idle" /\ Stores(c) /\ s.left = 0
                  \/ /\ r.pc = "block" /\ s.left > 0 /\ UNCHANGED <<stored, exposed>>
                     /\ r.name = n /\ r.index = i /\ r.offset = s.offset
                     /\ r.left = s.left
  BY <1>2, IdleFits
<1>4. mess = 0 => /\ \A d \in Commands \ {c} : cmd[d].pc = "idle"
                  /\ \A d \in Commands \ {c} : cmd'[d].pc = "idle"
                  /\ Lone(c)
  BY <1>1, <1>2, <1>3, OnlyOne
<1>5. cmd'[c] = r
  BY <1>3 DEF Moved
<1>6. mess' = 0 => \A d \in Commands : cmd'[d].pc # "clear"
  BY <1>2, <1>3, <1>4, <1>5
<1>7. /\ i \in INodeIds /\ s.offset \in BlockIds \cup {NIL, -1}
      /\ s.offset \in BlockIds => s.dataBlocks[s.offset].data = ZERO
  BY <1>1, <1>2, CommandFields DEF TypeOK, Sensible
<1>8. disc'.dataBlocks = disc.dataBlocks
      /\ disc'.iNodes[i].firstBlock = s.offset
  BY <1>2 DEF INodeWritten, NewINode
<1>9. mess = 0 /\ s.offset \in BlockIds => Free(s.offset)
  BY <1>1, <1>2, <1>4, <1>7 DEF Lone, Free, isDataBlockFree
<1>10. ASSUME r.pc = "block", NEW d \in Commands, d = c
       PROVE  /\ Target(d)'.firstBlock = s.offset
              /\ Reached(d)' = 1 /\ Begun(d)'[1] = s.offset
  <2>1. Target(d)'.firstBlock = s.offset
    BY <1>3, <1>5, <1>8, <1>10 DEF Target
  <2>2. Reached(d)' = 1
    BY <1>2, <1>3, <1>5, <1>10, Sizes DEF Reached
  <2>3. Begun(d)' = Chain(disc'.dataBlocks, s.offset, 1)
    BY <2>1, <2>2 DEF Begun
  <2>4. Chain(disc'.dataBlocks, s.offset, 1)[1] = s.offset
    <3>1. 1 \in Nat /\ 1 > 0
      OBVIOUS
    <3> QED
      BY <3>1, ChainSteps
  <2> QED
    BY <2>1, <2>2, <2>3, <2>4
<1>11. ASSUME mess' = 0, ~Free(0)' PROVE \E Z \in SUBSET BlockIds : Root(Z)'
  <2>1. mess = 0 /\ ~Free(0)
    BY <1>2, <1>8, <1>11 DEF Free
  <2>2. PICK Z \in SUBSET BlockIds : Root(Z)
    BY <2>1 DEF RootInv
  <2>3. Still(Z)
    BY <1>1, <1>2, <1>4, <2>1, <2>2, RootIsStill
  <2>4. s.offset \notin Z /\ s.offset # 0
    BY <1>9, <2>1, <2>3, Ids DEF Still
  <2>5. ASSUME NEW m \in Safe'
        PROVE  \/ Z \cap On(disc', m) = {}
               \/ /\ m \in Safe /\ FirstOf(disc', m) = FirstOf(disc, m)
                  /\ On(disc', m) = On(disc, m)
    <3>1. CASE m \in Safe
      <4>1. m \in stored
        BY <3>1 DEF Safe
      <4>2. OneINode(disc, m) /\ SparesINode(s, m, IndexOf(disc, m), disc.iNodes[IndexOf(disc, m)])
        BY <1>1, <4>1 DEF FilesInv, Kept
      <4>3. i # IndexOf(disc, m) /\ n # m
        BY <1>1, <1>2, <4>2 DEF SparesINode
      <4>4. NewINode(s).fileName # m
        BY <1>1, <4>3 DEF NewINode
      <4>5. /\ WithName(disc'.iNodes, m) = {IndexOf(disc, m)}
            /\ disc'.iNodes[IndexOf(disc, m)] = disc.iNodes[IndexOf(disc, m)]
        BY <1>2, <1>7, <4>2, <4>3, <4>4, NamesStay
      <4> QED
        BY <1>8, <3>1, <4>1, <4>5, PathStays
    <3>2. CASE m \notin Safe
      <4>1. Stores(c) /\ m = n /\ s.left = 0
        <5>1. Stores(c) /\ s.left = 0
          BY <1>3, <2>5, <3>2 DEF Safe
        <5>2. Safe' \subseteq Safe \cup {n}
          BY <1>1, <5>1, SafeGrows
        <5> QED
          BY <2>5, <3>2, <5>1, <5>2
      <4>2. Length(m) = 0
        BY <1>2, <4>1, Sizes
      <4>3. On(disc', m) = {}
        BY <4>2 DEF On
      <4> QED
        BY <4>3
    <3> QED
      BY <3>1, <3>2
  <2>6. ASSUME NEW d \in Commands, cmd'[d].pc = "block"
        PROVE  IF Target(d)'.firstBlock = 0
               THEN cmd'[d].offset \in BlockIds => cmd'[d].offset \in Z
               ELSE \A k \in 1..Reached(d)' : Begun(d)'[k] \notin Z
    <3>1. d = c /\ r.pc = "block"
      BY <1>4, <1>5, <2>1, <2>6
    <3>2. Target(d)'.firstBlock # 0 /\ \A k \in 1..Reached(d)' : k = 1
      BY <1>10, <2>4, <3>1
    <3> QED
      BY <1>10, <2>4, <3>1, <3>2
  <2>7. \A a \in Z : disc'.dataBlocks[a] = disc.dataBlocks[a]
    BY <1>8
  <2>8. Root(Z)'
    BY <2>3, <2>5, <2>6, <2>7, StillIsRoot
  <2> QED
    BY <2>8
<1>12. ASSUME mess' = 0, NEW d \in Commands, cmd'[d].pc = "block", cmd'[d].offset = 0
       PROVE  Target(d)'.firstBlock = 0
  <2>1. d = c /\ r.pc = "block" /\ r.offset = 0
    BY <1>2, <1>4, <1>5, <1>12
  <2> QED
    BY <1>3, <1>10, <2>1
<1>13. RootInv'
  BY <1>11, <1>12 DEF RootInv
<1> QED
  BY <1>6, <1>13, NoHits

\* COPYTO writes a block.  When it began with block 0 its blocks are those from
\* there on, and the next one is theirs too; otherwise none of its is.
LEMMA WriteDataBlockRoots ==
  ASSUME TypeOK, FilesInv, RootInv, NEW c \in Commands, WriteDataBlock(c)
  PROVE  RootInv' /\ HitsInv'
<1>1. PICK n, i, b, p, first :
        /\ n = cmd[c].name /\ i = cmd[c].index /\ b = cmd[c].offset
        /\ p = Reached(c) /\ first = Target(c).firstBlock
  OBVIOUS
<1>2. /\ cmd[c].pc = "block" /\ n \in Names /\ UNCHANGED mess
      /\ b \in BlockIds /\ p \in 1..Length(n) /\ cmd[c].dataBlocks[b].data = ZERO
  BY <1>1, WriteDataBlockDoes
<1>3. PICK x \in BlockSet :
        /\ BlockWritten(b, x)
        /\ x.data # ZERO
        /\ \/ /\ p = Length(n) /\ x.nextBlock = 0
              /\ Moved(c, Idle) /\ Stores(c)
           \/ /\ p < Length(n) /\ UNCHANGED <<stored, exposed>>
              /\ \/ x.nextBlock = NIL
                 \/ /\ x.nextBlock \in FreeDataBlocks(cmd[c].dataBlocks)
                    /\ x.nextBlock > b
              /\ \E r \in CommandSet :
                   /\ Moved(c, r) /\ r.pc = "block" /\ r.name = n
                   /\ r.index = i /\ r.offset = x.nextBlock
                   /\ Place(r.name, r.left) = p + 1
  BY <1>1, WriteDataBlockDoes
<1>4. PICK o, r : /\ o = x.nextBlock /\ Moved(c, r)
                  /\ \/ r.pc = "idle" /\ p = Length(n) /\ o = 0 /\ Stores(c)
                     \/ /\ r.pc = "block" /\ UNCHANGED <<stored, exposed>>
                        /\ r.index = i /\ r.offset = o
                        /\ Place(r.name, r.left) = p + 1
                        /\ \/ o = NIL
                           \/ /\ o \in FreeDataBlocks(cmd[c].dataBlocks)
                              /\ o > b
  BY <1>3, IdleFits
<1>5. /\ disc'.iNodes = disc.iNodes
      /\ disc'.dataBlocks[b] = x
      /\ \A a \in BlockIds \ {b} : disc'.dataBlocks[a] = disc.dataBlocks[a]
  BY <1>2, <1>3, DiscFields DEF BlockWritten, TypeOK
<1>6. ~Free(b)' /\ Link(b)' = o
      /\ \A a \in BlockIds \ {b} : Free(a)' = Free(a) /\ Link(a)' = Link(a)
  BY <1>3, <1>4, <1>5 DEF Free, Link, isDataBlockFree
<1>7. cmd'[c] = r
  BY <1>4 DEF Moved
<1>8. p \in Nat /\ p > 0 /\ Length(n) \in Nat
  BY <1>2, Sizes
<1>9. mess = 0 => /\ \A d \in Commands \ {c} : cmd[d].pc = "idle"
                  /\ \A d \in Commands \ {c} : cmd'[d].pc = "idle"
                  /\ Lone(c)
  BY <1>1, <1>2, <1>4, OnlyOne
<1>10. ASSUME mess = 0
       PROVE  /\ Free(b)
              /\ o \in BlockIds \cup {NIL}
              /\ r.pc = "block" /\ o # NIL => Free(o) /\ o > b
              /\ Begun(c)[p] = b
              /\ Chain(disc'.dataBlocks, first, p) = Begun(c)
              /\ WithName(disc.iNodes, n) = {i}
              /\ disc.iNodes[i].firstBlock = first
  <2>1. HalfDone(c) /\ cmd[c].dataBlocks = disc.dataBlocks
    BY <1>2, <1>9, <1>10 DEF Lone
  <2>2. Free(b)
    BY <1>2, <2>1 DEF Free, isDataBlockFree
  <2>3. o \in BlockIds \cup {NIL}
    BY <1>3, <1>4 DEF BlockSet
  <2>4. r.pc = "block" /\ o # NIL => Free(o) /\ o > b
    BY <1>4, <2>1 DEF FreeDataBlocks, Free
  <2>5. WithName(disc.iNodes, n) = {i} /\ disc.iNodes[i].firstBlock = first
    BY <1>1, <2>1 DEF HalfDone, Target
  <2>6. /\ cmd[c].pc = "block" /\ Lone(c) /\ b = cmd[c].offset
        /\ cmd[c].name \in Names
        /\ cmd[c].dataBlocks[b].data = ZERO
        /\ Reached(c) \in 1..Length(cmd[c].name)
    BY <1>1, <1>2, <1>9, <1>10
  <2>7. /\ Begun(c)[Reached(c)] = b
        /\ Chain(disc'.dataBlocks, Target(c).firstBlock, Reached(c)) = Begun(c)
    BY <1>2, <1>3, <2>6, BegunGrows
  <2> QED
    BY <1>1, <2>2, <2>3, <2>4, <2>5, <2>7
<1>11. ASSUME NEW m \in Safe
       PROVE  /\ FirstOf(disc', m) = FirstOf(disc, m)
              /\ On(disc', m) = On(disc, m)
              /\ \A a \in On(disc, m) : a \in BlockIds /\ ~Free(a)
  <2>1. m \in stored /\ m \in Names
    BY DEF Safe, TypeOK
  <2>2. Intact(m) /\ OneINode(disc, m)
    BY <2>1 DEF FilesInv, Kept
  <2>3. /\ On(disc, m) \subseteq BlockIds
        /\ \A a \in On(disc, m) : disc.dataBlocks[a].data # ZERO
    BY <2>1, <2>2, OnBlocks DEF Intact
  <2>4. \A a \in On(disc, m) : a # b
    BY <1>1, <1>2, <2>2 DEF Intact, SparesBlocks
  <2>5. \A a \in On(disc, m) : disc'.dataBlocks[a] = disc.dataBlocks[a]
    BY <1>5, <2>3, <2>4
  <2>6. /\ WithName(disc'.iNodes, m) = {IndexOf(disc, m)}
        /\ disc'.iNodes[IndexOf(disc, m)] = disc.iNodes[IndexOf(disc, m)]
    BY <1>5, <2>2 DEF OneINode
  <2>7. FirstOf(disc', m) = FirstOf(disc, m) /\ On(disc', m) = On(disc, m)
    BY <2>1, <2>5, <2>6, PathStays
  <2>8. \A a \in On(disc, m) : a \in BlockIds /\ ~Free(a)
    BY <2>3 DEF Free, isDataBlockFree
  <2> QED
    BY <2>7, <2>8
<1>12. ASSUME mess = 0, NEW m \in Safe', m \notin Safe
       PROVE  /\ r.pc = "idle"
              /\ FirstOf(disc', m) = first
              /\ On(disc', m) = {Begun(c)[k] : k \in 1..p}
  <2>1. Stores(c) /\ p = Length(n) /\ r.pc = "idle"
    BY <1>4, <1>12 DEF Safe
  <2>2. Safe' \subseteq Safe \cup {n}
    BY <1>1, <2>1, SafeGrows
  <2>3. m = n
    BY <1>12, <2>2
  <2>4. WithName(disc'.iNodes, n) = {i}
    BY <1>5, <1>10, <1>12
  <2>5. IndexOf(disc', n) = i
    BY <2>4, FoundINode
  <2>6. FirstOf(disc', n) = first
    BY <1>5, <1>10, <1>12, <2>5 DEF FirstOf
  <2>7. Path(disc', n) = Begun(c)
    BY <1>10, <1>12, <2>1, <2>6 DEF Path
  <2>8. On(disc', n) = {Begun(c)[k] : k \in 1..p}
    BY <2>1, <2>7 DEF On
  <2> QED
    BY <2>1, <2>3, <2>6, <2>8
<1>13. ASSUME mess = 0, NEW d \in Commands, cmd'[d].pc = "block"
       PROVE  /\ d = c /\ r.pc = "block" /\ cmd'[d].offset = o
              /\ Target(d)'.firstBlock = first
              /\ Reached(d)' = p + 1
              /\ \A k \in 1..p : Begun(d)'[k] = Begun(c)[k]
              /\ Begun(d)'[p + 1] = o
  <2>1. d = c /\ r.pc = "block" /\ cmd'[d].offset = o /\ cmd'[d] = r
    BY <1>4, <1>7, <1>9, <1>13, IdleFits
  <2>2. r.pc # "idle" /\ r.index = i /\ Place(r.name, r.left) = p + 1
    BY <1>4, <2>1
  <2>3. Target(d)'.firstBlock = first
    BY <1>5, <1>10, <1>13, <2>1, <2>2 DEF Target
  <2>4. Reached(d)' = p + 1
    BY <2>1, <2>2 DEF Reached
  <2>5. Begun(d)' = Chain(disc'.dataBlocks, first, p + 1)
    BY <2>3, <2>4 DEF Begun
  <2>6. PICK g : g = Begun(d)'
    OBVIOUS
  <2>7. /\ \A k \in 1..p : g[k] = Chain(disc'.dataBlocks, first, p)[k]
        /\ g[p + 1] = After(disc'.dataBlocks, Chain(disc'.dataBlocks, first, p)[p])
    BY <1>8, <2>5, <2>6, ChainExtends
  <2>8. /\ \A k \in 1..p : g[k] = Begun(c)[k]
        /\ g[p + 1] = After(disc'.dataBlocks, b)
    BY <1>10, <1>13, <2>7
  <2>9. After(disc'.dataBlocks, b) = o
    BY <1>2, <1>4, <1>5 DEF After
  <2> QED
    BY <2>1, <2>3, <2>4, <2>6, <2>8, <2>9
<1>14. ASSUME mess = 0, first = 0, ~Free(0)'
       PROVE  \E Z \in SUBSET BlockIds : Root(Z)'
  <2>1. PICK W \in SUBSET BlockIds :
          /\ 0 \in W /\ b \in W
          /\ \A a \in W \ {b} : ~Free(a) /\ Link(a) \in W /\ (Link(a) > a \/ Link(a) = 0)
          /\ \A m \in Safe : FirstOf(disc, m) # 0 => W \cap On(disc, m) = {}
    <3>1. CASE Free(0)
      <4>1. b = 0
        BY <1>6, <1>14, <3>1, Ids
      <4>2. \A m \in Safe : {0} \cap On(disc, m) = {}
        BY <1>11, <3>1
      <4>3. {0} \in SUBSET BlockIds
        BY Ids
      <4> QED
        BY <4>1, <4>2, <4>3
    <3>2. CASE ~Free(0)
      <4>1. PICK Z \in SUBSET BlockIds : Root(Z)
        BY <1>14, <3>2 DEF RootInv
      <4>2. b \in Z
        BY <1>1, <1>2, <1>14, <4>1 DEF Root
      <4>3. \A d \in Commands : /\ cmd[d].pc = "block" => cmd[d].offset = b
                                /\ cmd[d].pc # "clear"
        BY <1>1, <1>2, <1>9, <1>14
      <4>4. \A a \in Z \ {b} : ~Free(a)
        BY <4>1, <4>3 DEF Root
      <4>5. \A a \in Z \ {b} : Link(a) \in Z /\ (Link(a) > a \/ Link(a) = 0)
        BY <1>2, <4>1, <4>3, <4>4, Ids DEF Root
      <4>6. 0 \in Z /\ \A m \in Safe : FirstOf(disc, m) # 0 => Z \cap On(disc, m) = {}
        BY <4>1 DEF Root
      <4> QED
        BY <4>2, <4>4, <4>5, <4>6
    <3> QED
      BY <3>1, <3>2
  <2>2. PICK Z : Z = W \cup ({o} \cap BlockIds)
    OBVIOUS
  <2>3. Z \in SUBSET BlockIds /\ 0 \in Z
    BY <2>1, <2>2
  <2>4. o \in BlockIds => o \in Z
    BY <2>2
  <2>5. ASSUME NEW a \in Z, ~Free(a)'
        PROVE  \/ Link(a)' \in Z /\ (Link(a)' > a \/ Link(a)' = 0)
               \/ \E d \in Commands : cmd'[d].pc = "block" /\ cmd'[d].offset = NIL
    <3>1. CASE a = b
      <4>1. CASE o = NIL
        <5>1. r.pc = "block" /\ r.offset = NIL
          BY <1>4, <4>1, Ids
        <5> QED
          BY <1>7, <5>1
      <4>2. CASE o # NIL
        <5>1. o \in Z /\ (o > b \/ o = 0)
          BY <1>4, <1>10, <1>14, <2>4, <4>2
        <5> QED
          BY <1>6, <3>1, <5>1
      <4> QED
        BY <4>1, <4>2
    <3>2. CASE a # b
      <4>1. Free(a)' = Free(a) /\ Link(a)' = Link(a)
        BY <1>6, <2>3, <3>2
      <4>2. a \in W
        <5>1. a # o \/ r.pc = "idle"
          BY <1>4, <1>10, <1>14, <2>3, <2>5, <4>1, Ids
        <5>2. r.pc = "idle" => o = 0
          BY <1>4
        <5> QED
          BY <2>1, <2>2, <5>1, <5>2
      <4> QED
        BY <2>1, <2>2, <3>2, <4>1, <4>2
    <3> QED
      BY <3>1, <3>2
  <2>6. ASSUME NEW a \in Z, Free(a)'
        PROVE  \E d \in Commands : cmd'[d].pc = "block" /\ cmd'[d].offset = a
    <3>1. a # b
      BY <1>6, <2>6
    <3>2. Free(a)
      BY <1>6, <2>3, <2>6, <3>1
    <3>3. a = o /\ a # 0
      <4>1. a \notin W
        BY <2>1, <3>1, <3>2
      <4> QED
        BY <2>1, <2>2, <4>1
    <3>4. r.pc = "block" /\ r.offset = o
      BY <1>4, <3>3
    <3> QED
      BY <1>7, <3>3, <3>4
  <2>7. ASSUME NEW m \in Safe', FirstOf(disc', m) # 0 PROVE Z \cap On(disc', m) = {}
    <3>1. m \in Safe
      BY <1>12, <1>14, <2>7
    <3>2. On(disc', m) = On(disc, m) /\ W \cap On(disc, m) = {}
      BY <1>11, <2>1, <2>7, <3>1
    <3>3. o \in BlockIds => o \notin On(disc, m)
      <4>1. o = 0 \/ o = NIL \/ Free(o)
        BY <1>4, <1>10, <1>14
      <4> QED
        BY <1>11, <2>1, <3>1, <3>2, <4>1, Ids
    <3> QED
      BY <2>2, <3>2, <3>3
  <2>8. \A m \in Safe' : FirstOf(disc, m)' # 0 => Z \cap On(disc, m)' = {}
    BY <2>7 DEF FirstOf, IndexOf, On, Path
  <2>9. \A d \in Commands : cmd'[d].pc = "block" =>
          /\ Target(d)'.firstBlock = 0
          /\ cmd'[d].offset \in BlockIds => cmd'[d].offset \in Z
    BY <1>13, <1>14, <2>4
  <2>10. Root(Z)'
    BY <2>3, <2>5, <2>6, <2>8, <2>9 DEF Root
  <2> QED
    BY <2>3, <2>10
<1>15. ASSUME mess = 0, first # 0, ~Free(0)'
       PROVE  \E Z \in SUBSET BlockIds : Root(Z)'
  <2>1. b # 0
    BY <1>1, <1>2, <1>15 DEF RootInv
  <2>2. ~Free(0)
    BY <1>6, <1>15, <2>1, Ids
  <2>3. PICK Z \in SUBSET BlockIds : Root(Z)
    BY <1>15, <2>2 DEF RootInv
  <2>4. \A k \in 1..p : Begun(c)[k] \notin Z
    BY <1>1, <1>2, <1>15, <2>3 DEF Root
  <2>5. b \notin Z
    <3>1. p \in 1..p
      BY <1>8
    <3> QED
      BY <1>10, <1>15, <2>4, <3>1
  <2>6. Still(Z)
    <3>1. \A d \in Commands :
            /\ cmd[d].pc = "block" => cmd[d].offset \notin Z /\ cmd[d].offset # NIL
            /\ cmd[d].pc = "clear" => cmd[d].offset \notin Z
      BY <1>1, <1>2, <1>9, <1>15, <2>5, Ids
    <3> QED
      BY <2>3, <3>1, RootIsStill
  <2>7. \A a \in Z : disc'.dataBlocks[a] = disc.dataBlocks[a]
    BY <1>5, <2>5
  <2>8. ASSUME NEW m \in Safe'
        PROVE  \/ Z \cap On(disc', m) = {}
               \/ /\ m \in Safe /\ FirstOf(disc', m) = FirstOf(disc, m)
                  /\ On(disc', m) = On(disc, m)
    <3>1. m \in Safe \/ Z \cap On(disc', m) = {}
      BY <1>12, <1>15, <2>4
    <3> QED
      BY <1>11, <3>1
  <2>9. ASSUME NEW d \in Commands, cmd'[d].pc = "block"
        PROVE  IF Target(d)'.firstBlock = 0
               THEN cmd'[d].offset \in BlockIds => cmd'[d].offset \in Z
               ELSE \A k \in 1..Reached(d)' : Begun(d)'[k] \notin Z
    <3>1. /\ r.pc = "block" /\ Target(d)'.firstBlock # 0 /\ Reached(d)' = p + 1
          /\ \A k \in 1..p : Begun(d)'[k] = Begun(c)[k]
          /\ Begun(d)'[p + 1] = o
      BY <1>13, <1>15, <2>9
    <3>2. o \notin Z
      BY <1>10, <1>15, <2>6, <3>1, Ids DEF Still
    <3>3. \A k \in 1..(p + 1) : k \in 1..p \/ k = p + 1
      BY <1>8
    <3>4. \A k \in 1..(p + 1) : Begun(d)'[k] \notin Z
      BY <2>4, <3>1, <3>2, <3>3
    <3> QED
      BY <3>1, <3>4
  <2>10. Root(Z)'
    BY <2>6, <2>7, <2>8, <2>9, StillIsRoot
  <2> QED
    BY <2>10
<1>16. ASSUME mess = 0, NEW d \in Commands, cmd'[d].pc = "block", cmd'[d].offset = 0
       PROVE  Target(d)'.firstBlock = 0
  <2>1. r.pc = "block" /\ o = 0
    BY <1>13, <1>16
  <2>2. 0 > b
    BY <1>10, <1>16, <2>1, Ids
  <2> QED
    BY <1>2, <2>2, VfsAssumption DEF BlockIds
<1>17. RootInv'
  BY <1>2, <1>14, <1>15, <1>16 DEF RootInv
<1>18. mess' = 0 => \A d \in Commands : cmd'[d].pc # "clear"
  BY <1>2, <1>4, <1>7, <1>9
<1> QED
  BY <1>17, <1>18, NoHits
-----------------------------------------------------------------------------
(* The theorems about the files *)

\* A disc file that is not there, and no command
LEMMA InitFits == Init => Inv
<1> SUFFICES ASSUME Init PROVE Inv
  OBVIOUS
<1>1. /\ disc = [Empty EXCEPT !.exists = FALSE]
      /\ cmd = [c \in Commands |-> Idle]
      /\ stored = {} /\ exposed = {} /\ mess = 0
  BY DEF Init
<1>2. /\ disc \in DiscSet /\ disc.exists = FALSE
      /\ disc.dataBlocks = Empty.dataBlocks
  BY <1>1, EmptyFits
<1>3. \A c \in Commands : cmd[c] = Idle /\ cmd[c].pc = "idle"
  BY <1>1, IdleFits
<1>4. TypeOK
  <2>1. cmd \in [Commands -> CommandSet]
    BY <1>1, IdleFits
  <2>2. \A c \in Commands : Sensible(cmd[c])
    BY <1>3, IdleFits
  <2> QED
    BY <1>1, <1>2, <2>1, <2>2 DEF TypeOK
<1>5. Running = {} /\ Safe = {}
  BY <1>1, <1>3 DEF Running, Safe
<1>6. \A b \in BlockIds : Free(b) /\ Link(b) = NIL
  BY <1>2, EmptyFits DEF Free, Link, isDataBlockFree
<1>7. FilesInv
  BY <1>1, <1>2, <1>5, <1>6 DEF FilesInv, Apart, Absent
<1>8. RootInv
  BY <1>3, <1>6, Ids DEF RootInv
<1>9. HitsInv
  BY <1>3 DEF HitsInv
<1> QED
  BY <1>4, <1>7, <1>8, <1>9 DEF Inv

\* Every step keeps the invariant.
LEMMA NextKeeps == Inv /\ [Next]_vars => Inv'
<1> SUFFICES ASSUME Inv, [Next]_vars PROVE Inv'
  OBVIOUS
<1>1. TypeOK /\ FilesInv /\ RootInv /\ HitsInv
  BY DEF Inv
<1>2. ASSUME NEW c \in Commands, NEW op \in {"COPYTO", "RM"}, NEW n \in Names,
             Start(c, op, n)
      PROVE  Inv'
  BY <1>1, <1>2, StartKeeps, StartRoots DEF Inv
<1>3. ASSUME NEW c \in Commands, LoadCopyTo(c) PROVE Inv'
  BY <1>1, <1>3, LoadCopyToKeeps, LoadCopyToRoots DEF Inv
<1>4. ASSUME NEW c \in Commands, WriteINode(c) PROVE Inv'
  BY <1>1, <1>4, WriteINodeKeeps, WriteINodeRoots DEF Inv
<1>5. ASSUME NEW c \in Commands, WriteDataBlock(c) PROVE Inv'
  BY <1>1, <1>5, WriteDataBlockKeeps, WriteDataBlockRoots DEF Inv
<1>6. ASSUME NEW c \in Commands, LoadRemove(c) PROVE Inv'
  BY <1>1, <1>6, LoadRemoveKeeps, LoadRemoveRoots DEF Inv
<1>7. ASSUME NEW c \in Commands, ClearDataBlock(c) PROVE Inv'
  BY <1>1, <1>7, ClearDataBlockKeeps, ClearDataBlockRoots DEF Inv
<1>8. ASSUME NEW c \in Commands, ClearINode(c) PROVE Inv'
  BY <1>1, <1>8, ClearINodeKeeps, ClearINodeRoots DEF Inv
<1>9. ASSUME NEW c \in Commands, OutOfBounds(c) \/ Killed(c) PROVE Inv'
  BY <1>1, <1>9, EndKeeps, EndRoots DEF Inv
<1>10. ASSUME Create \/ Delete PROVE Inv'
  BY <1>1, <1>10, CreateDeleteKeep, CreateDeleteRoots DEF Inv
<1>11. CASE UNCHANGED vars
  <2>1. /\ disc' = disc /\ cmd' = cmd /\ stored' = stored
        /\ exposed' = exposed /\ mess' = mess
    BY <1>11 DEF vars
  <2>2. TypeOK'
    BY <1>1, <2>1 DEF TypeOK, Sensible
  <2>3. Running' = Running /\ Safe' = Safe
    BY <2>1 DEF Running, Safe
  <2>4. FilesInv'
    <3>1. (\A n \in stored : Kept(n)) /\ (\A n \in Safe : Intact(n))
      BY <1>1 DEF FilesInv
    <3>2. \A n \in stored' : Kept(n)'
      BY <2>1, <3>1 DEF Kept, OneINode, IndexOf, FirstOf, SparesINode
    <3>3. \A n \in Safe' : Intact(n)'
      BY <2>1, <2>3, <3>1 DEF Intact
    <3>4. \A c \in Commands : Lone(c)' <=> Lone(c)
      <4> TAKE c \in Commands
      <4>1. HalfDone(c)' <=> HalfDone(c)
        BY <2>1, <2>3 DEF HalfDone, Target, Begun, Reached, Safe, On, Path, FirstOf, IndexOf
      <4>2. Target(c)' = Target(c)
        BY <2>1 DEF Target
      <4> QED
        BY <2>1, <2>3, <4>1, <4>2 DEF Lone
    <3>5. \A d \in Running' : cmd'[d].alone => Lone(d)'
      BY <1>1, <2>1, <2>3, <3>4 DEF FilesInv, Running
    <3>6. mess' = 0 => \A d \in Running' : cmd'[d].alone
      BY <1>1, <2>1, <2>3 DEF FilesInv
    <3>7. Apart'
      BY <1>1, <2>1, <2>3 DEF FilesInv, Apart, On, Path, FirstOf, IndexOf
    <3>8. \A b \in BlockIds : Free(b)' => Link(b)' = NIL
      BY <1>1, <2>1 DEF FilesInv, Free, Link
    <3>9. Absent'
      BY <1>1, <2>1, <2>3 DEF FilesInv, Absent
    <3> QED
      BY <3>2, <3>3, <3>5, <3>6, <3>7, <3>8, <3>9 DEF FilesInv
  <2>5. \A Z : Root(Z)' <=> Root(Z)
    BY <2>1, <2>3 DEF Root, Free, Link, Target, Begun, Reached, On, Path, FirstOf, IndexOf
  <2>6. RootInv'
    BY <1>1, <2>1, <2>5 DEF RootInv, Free, Target
  <2>7. \A c, Y : Hits(c, Y)' <=> Hits(c, Y)
    BY <2>1, <2>3 DEF Hits, Link, On, Path, FirstOf, IndexOf
  <2>8. HitsInv'
    BY <1>1, <2>1, <2>7 DEF HitsInv
  <2> QED
    BY <2>2, <2>4, <2>6, <2>8 DEF Inv
<1> QED
  BY <1>2, <1>3, <1>4, <1>5, <1>6, <1>7, <1>8, <1>9, <1>10, <1>11 DEF Next, Writes

\* The invariant: stored files have one inode of their own, which every command
\* spares; the blocks of those that nothing has hit are complete, apart, and no
\* COPYTO takes one; a command that nothing has joined knows the disc.
THEOREM DiscInvariant == Spec => []Inv
<1>1. Init => Inv
  BY InitFits
<1>2. Inv /\ [Next]_vars => Inv'
  BY NextKeeps
<1> QED
  BY <1>1, <1>2, PTL DEF Spec

\* A file that is stored and that nothing has hit reads back.
LEMMA ReadBack ==
  ASSUME TypeOK, FilesInv, NEW n \in Safe
  PROVE  ReadsBack(n)
<1>1. n \in stored /\ n \in Names
  BY DEF Safe, TypeOK
<1>2. Kept(n) /\ Intact(n)
  BY <1>1 DEF FilesInv
<1>3. PICK inode, len, data :
        /\ inode = disc.iNodes[IndexOf(disc, n)] /\ len = Length(n)
        /\ data = [k \in 1..len |-> Contents[n].data[k]]
  OBVIOUS
<1>4. /\ inode.fileSize = Contents[n].size
      /\ len = (inode.fileSize + BLOCK_SIZE - 1) \div BLOCK_SIZE
      /\ Contents[n] = [size |-> inode.fileSize, data |-> data]
  <2>1. inode.fileSize = Contents[n].size
    BY <1>2, <1>3 DEF Kept
  <2>2. /\ len = (Contents[n].size + BLOCK_SIZE - 1) \div BLOCK_SIZE
        /\ Contents[n] = [size |-> Contents[n].size,
                          data |-> [k \in 1..len |-> Contents[n].data[k]]]
    BY <1>1, <1>3, VfsAssumption DEF Length
  <2> QED
    BY <1>3, <2>1, <2>2
<1>5. PICK chain : chain = Chain(disc.dataBlocks, inode.firstBlock, len)
  OBVIOUS
<1>6. chain = Path(disc, n)
  BY <1>3, <1>5 DEF Path, FirstOf
<1>7. \A k \in 1..len : DataAt(disc.dataBlocks, chain[k]) = Contents[n].data[k]
  BY <1>2, <1>3, <1>6 DEF Intact, Whole, DataAt
<1>8. [k \in 1..len |-> DataAt(disc.dataBlocks, chain[k])] = data
  BY <1>3, <1>7
<1>9. copyFileFromSystem(disc.iNodes, disc.dataBlocks, n)
        = [size |-> inode.fileSize,
           data |-> [k \in 1..len |-> DataAt(disc.dataBlocks, chain[k])]]
  BY <1>3, <1>4, <1>5 DEF copyFileFromSystem, IndexOf
<1>10. WithName(disc.iNodes, n) # {}
  BY <1>2 DEF Kept, OneINode
<1>11. disc.magic
  BY <1>2 DEF Intact
<1> QED
  BY <1>4, <1>8, <1>9, <1>10, <1>11 DEF ReadsBack

\* COPYFROM returns what COPYTO was given (main.cpp 264-384), whatever other
\* commands did since, killed and overlapping ones included, as long as no RM
\* follows a stray link and no COPYTO runs out of blocks.
THEOREM FilesAlwaysSurvive == Spec => []FilesSurvive
<1>1. Inv => FilesSurvive
  BY ReadBack DEF Inv, FilesSurvive, Safe
<1> QED
  BY <1>1, DiscInvariant, PTL
-----------------------------------------------------------------------------
(* No block is lost *)

\* S holds what an RM can come upon: the first blocks of inodes, the block an
\* RM clears next, and what a block in S is linked to.
Reaches(S) ==
  /\ \A b \in S : Link(b) \in BlockIds => Link(b) \in S
  /\ \A i \in INodeIds : disc.iNodes[i].firstBlock \in BlockIds
                           => disc.iNodes[i].firstBlock \in S
  /\ \A c \in Commands : cmd[c].pc = "clear" /\ cmd[c].offset \in BlockIds
                           => cmd[c].offset \in S

\* Such a set holds all blocks in use, and the one a COPYTO writes next.
HoldsAll(S) ==
  /\ \A b \in BlockIds : ~Free(b) => b \in S
  /\ \A c \in Commands : cmd[c].pc = "block" /\ cmd[c].offset \in BlockIds
                           => cmd[c].offset \in S

\* While commands run one after the other it does, and an RM that has left the
\* first block of its file behind has cleared it.
LeakInv ==
  mess = 0 =>
    /\ \A S \in SUBSET BlockIds : Reaches(S) => HoldsAll(S)
    /\ \A c \in Commands :
         cmd[c].pc = "clear" /\ Target(c).firstBlock \in BlockIds =>
           cmd[c].offset = Target(c).firstBlock \/ Free(Target(c).firstBlock)

\* A step that only reads the disc
LEMMA ReadsLeak ==
  ASSUME LeakInv, UNCHANGED disc, mess' = 0 => mess = 0,
         mess' = 0 => \A d \in Commands :
           /\ cmd[d].pc # "clear" /\ cmd'[d].pc # "block"
           /\ cmd'[d].pc = "clear"
                => disc.iNodes[cmd'[d].index].firstBlock = cmd'[d].offset
  PROVE  LeakInv'
<1> SUFFICES ASSUME mess' = 0
             PROVE  /\ \A S \in SUBSET BlockIds : Reaches(S)' => HoldsAll(S)'
                    /\ \A d \in Commands :
                         cmd'[d].pc = "clear" => cmd'[d].offset = Target(d)'.firstBlock
  BY DEF LeakInv
<1>1. ASSUME NEW S \in SUBSET BlockIds, Reaches(S)' PROVE HoldsAll(S)'
  <2>1. Reaches(S)
    BY <1>1 DEF Reaches, Link
  <2>2. HoldsAll(S)
    BY <2>1 DEF LeakInv
  <2> QED
    BY <2>2 DEF HoldsAll, Free
<1>2. \A d \in Commands :
        cmd'[d].pc = "clear" => cmd'[d].offset = Target(d)'.firstBlock
  BY DEF Target
<1> QED
  BY <1>1, <1>2

\* A command that starts
LEMMA StartLeaks ==
  ASSUME TypeOK, FilesInv, LeakInv, NEW c \in Commands,
         NEW op \in {"COPYTO", "RM"}, NEW n \in Names, Start(c, op, n)
  PROVE  LeakInv'
<1>1. /\ UNCHANGED disc /\ cmd'[c].pc = "load"
      /\ \A d \in Commands \ {c} : Alike(cmd'[d], cmd[d])
      /\ mess' = 0 => mess = 0 /\ Running = {}
  BY StartDoes
<1>2. mess' = 0 => \A d \in Commands : cmd[d].pc = "idle"
  BY <1>1 DEF Running
<1>3. mess' = 0 => \A d \in Commands : cmd'[d].pc \in {"idle", "load"}
  BY <1>1, <1>2 DEF Alike
<1> QED
  BY <1>1, <1>2, <1>3, ReadsLeak

\* A COPYTO that has loaded the disc
LEMMA LoadCopyToLeaks ==
  ASSUME TypeOK, FilesInv, LeakInv, NEW c \in Commands, LoadCopyTo(c)
  PROVE  LeakInv'
<1>1. /\ cmd[c].pc = "load" /\ UNCHANGED <<disc, mess>>
      /\ \E r : Moved(c, r) /\ r.pc \in {"idle", "inode"}
  BY LoadCopyToDoes, IdleFits
<1>2. PICK r : Moved(c, r) /\ r.pc \in {"idle", "inode"}
  BY <1>1
<1>3. mess = 0 => /\ \A d \in Commands \ {c} : cmd[d].pc = "idle"
                  /\ \A d \in Commands \ {c} : cmd'[d].pc = "idle"
  BY <1>1, <1>2, OnlyOne
<1>4. mess' = 0 => \A d \in Commands : /\ cmd[d].pc # "clear"
                                       /\ cmd'[d].pc \in {"idle", "inode"}
  BY <1>1, <1>2, <1>3 DEF Moved
<1> QED
  BY <1>1, <1>4, ReadsLeak

\* An RM that has loaded the disc
LEMMA LoadRemoveLeaks ==
  ASSUME TypeOK, FilesInv, LeakInv, NEW c \in Commands, LoadRemove(c)
  PROVE  LeakInv'
<1>1. /\ cmd[c].pc = "load" /\ UNCHANGED <<disc, mess>>
      /\ \/ Moved(c, Idle)
         \/ \E r \in CommandSet :
              /\ Moved(c, r) /\ r.pc = "clear"
              /\ r.offset = cmd[c].iNodes[r.index].firstBlock
  BY LoadRemoveDoes
<1>2. PICK r : /\ Moved(c, r)
               /\ \/ r.pc = "idle"
                  \/ /\ r.pc = "clear"
                     /\ r.offset = cmd[c].iNodes[r.index].firstBlock
  BY <1>1, IdleFits
<1>3. mess = 0 => /\ \A d \in Commands \ {c} : cmd[d].pc = "idle"
                  /\ \A d \in Commands \ {c} : cmd'[d].pc = "idle"
                  /\ cmd[c].iNodes = disc.iNodes
  BY <1>1, <1>2, OnlyOne DEF Lone
<1>4. mess' = 0 => \A d \in Commands :
         /\ cmd[d].pc # "clear" /\ cmd'[d].pc # "block"
         /\ cmd'[d].pc = "clear"
              => disc.iNodes[cmd'[d].index].firstBlock = cmd'[d].offset
  BY <1>1, <1>2, <1>3 DEF Moved
<1> QED
  BY <1>1, <1>4, ReadsLeak

\* COPYTO writes a free inode.
LEMMA WriteINodeLeaks ==
  ASSUME TypeOK, FilesInv, LeakInv, NEW c \in Commands, WriteINode(c)
  PROVE  LeakInv'
<1>1. PICK i, o : i = cmd[c].index /\ o = cmd[c].offset
  OBVIOUS
<1>2. /\ cmd[c].pc = "inode" /\ UNCHANGED mess
      /\ INodeWritten(i, NewINode(cmd[c]))
  BY <1>1, WriteINodeDoes
<1>3. PICK r : /\ Moved(c, r)
               /\ r.pc = "idle" \/ (r.pc = "block" /\ r.offset = o)
  BY <1>1, WriteINodeDoes, IdleFits
<1>4. /\ disc'.dataBlocks = disc.dataBlocks
      /\ disc'.iNodes[i].firstBlock = o
      /\ \A j \in INodeIds \ {i} : disc'.iNodes[j] = disc.iNodes[j]
      /\ i \in INodeIds
  BY <1>1, <1>2, CommandFields DEF INodeWritten, NewINode, TypeOK
<1> SUFFICES ASSUME mess' = 0 PROVE LeakInv'
  BY DEF LeakInv
<1>5. /\ \A d \in Commands \ {c} : cmd[d].pc = "idle"
      /\ \A d \in Commands \ {c} : cmd'[d].pc = "idle"
      /\ disc.iNodes[i].firstBlock = NIL
  BY <1>1, <1>2, <1>3, OnlyOne DEF Lone, Target, isINodeFree
<1>6. cmd'[c] = r
  BY <1>3 DEF Moved
<1>7. ASSUME NEW S \in SUBSET BlockIds, Reaches(S)' PROVE HoldsAll(S)'
  <2>1. \A b \in BlockIds : Link(b)' = Link(b) /\ Free(b)' = Free(b)
    BY <1>4 DEF Link, Free
  <2>2. o \in BlockIds => o \in S
    BY <1>4, <1>7 DEF Reaches
  <2>3. ASSUME NEW j \in INodeIds, disc.iNodes[j].firstBlock \in BlockIds
        PROVE  disc.iNodes[j].firstBlock \in S
    <3>1. j # i
      BY <1>5, <2>3, Ids
    <3> QED
      BY <1>4, <1>7, <2>3, <3>1 DEF Reaches
  <2>4. \A b \in S : Link(b) \in BlockIds => Link(b) \in S
    BY <1>7, <2>1 DEF Reaches
  <2>5. \A d \in Commands : cmd[d].pc # "clear"
    BY <1>2, <1>5
  <2>6. HoldsAll(S)
    BY <1>2, <2>3, <2>4, <2>5 DEF LeakInv, Reaches
  <2>7. \A d \in Commands : cmd'[d].pc = "block" => cmd'[d].offset = o
    BY <1>3, <1>5, <1>6
  <2> QED
    BY <2>1, <2>2, <2>6, <2>7 DEF HoldsAll
<1>8. \A d \in Commands : cmd'[d].pc # "clear"
  BY <1>3, <1>5, <1>6
<1> QED
  BY <1>7, <1>8 DEF LeakInv

\* COPYTO writes a free block, which its chain has led to.
LEMMA WriteDataBlockLeaks ==
  ASSUME TypeOK, FilesInv, LeakInv, NEW c \in Commands, WriteDataBlock(c)
  PROVE  LeakInv'
<1>1. PICK b : b = cmd[c].offset
  OBVIOUS
<1>2. /\ cmd[c].pc = "block" /\ UNCHANGED mess /\ b \in BlockIds
      /\ cmd[c].dataBlocks[b].data = ZERO
  BY <1>1, WriteDataBlockDoes
<1>3. PICK x \in BlockSet :
        /\ BlockWritten(b, x)
        /\ \/ Moved(c, Idle)
           \/ \E r : Moved(c, r) /\ r.pc = "block" /\ r.offset = x.nextBlock
  BY <1>1, WriteDataBlockDoes
<1>4. PICK r : /\ Moved(c, r)
               /\ r.pc = "idle" \/ (r.pc = "block" /\ r.offset = x.nextBlock)
  BY <1>3, IdleFits
<1>5. /\ disc'.iNodes = disc.iNodes
      /\ disc'.dataBlocks[b] = x
      /\ \A a \in BlockIds \ {b} : disc'.dataBlocks[a] = disc.dataBlocks[a]
  BY <1>2, <1>3, DiscFields DEF BlockWritten, TypeOK
<1> SUFFICES ASSUME mess' = 0 PROVE LeakInv'
  BY DEF LeakInv
<1>6. /\ \A d \in Commands \ {c} : cmd[d].pc = "idle"
      /\ \A d \in Commands \ {c} : cmd'[d].pc = "idle"
      /\ cmd[c].dataBlocks = disc.dataBlocks
  BY <1>2, <1>4, OnlyOne DEF Lone
<1>7. cmd'[c] = r
  BY <1>4 DEF Moved
<1>8. Free(b) /\ Link(b) = NIL
  BY <1>2, <1>6 DEF FilesInv, Free, isDataBlockFree
<1>9. ASSUME NEW S \in SUBSET BlockIds, Reaches(S)' PROVE HoldsAll(S)'
  <2>1. \A a \in BlockIds \ {b} : Link(a)' = Link(a) /\ Free(a)' = Free(a)
    BY <1>5 DEF Link, Free
  <2>2. \A a \in S : Link(a) \in BlockIds => Link(a) \in S
    BY <1>8, <1>9, <2>1, Ids DEF Reaches
  <2>3. \A d \in Commands : cmd[d].pc # "clear"
    BY <1>2, <1>6
  <2>4. Reaches(S)
    BY <1>5, <1>9, <2>2, <2>3 DEF Reaches
  <2>5. HoldsAll(S)
    BY <1>2, <2>4 DEF LeakInv
  <2>6. b \in S
    BY <1>1, <1>2, <2>5 DEF HoldsAll
  <2>7. x.nextBlock \in BlockIds => x.nextBlock \in S
    <3>1. Link(b)' = x.nextBlock
      BY <1>5 DEF Link
    <3> QED
      BY <1>9, <2>6, <3>1 DEF Reaches
  <2>8. \A a \in BlockIds : ~Free(a)' => a \in S
    BY <2>1, <2>5, <2>6 DEF HoldsAll
  <2>9. \A d \in Commands : cmd'[d].pc = "block" => cmd'[d].offset = x.nextBlock
    BY <1>4, <1>6, <1>7
  <2> QED
    BY <2>7, <2>8, <2>9 DEF HoldsAll
<1>10. \A d \in Commands : cmd'[d].pc # "clear"
  BY <1>4, <1>6, <1>7
<1> QED
  BY <1>9, <1>10 DEF LeakInv

\* RM clears a block after it has read where the chain goes on.
LEMMA ClearDataBlockLeaks ==
  ASSUME TypeOK, FilesInv, LeakInv, NEW c \in Commands, ClearDataBlock(c)
  PROVE  LeakInv'
<1>1. PICK b : b = cmd[c].offset
  OBVIOUS
<1>2. /\ cmd[c].pc = "clear" /\ UNCHANGED mess /\ b \in BlockIds
      /\ BlockWritten(b, DataBlock)
  BY <1>1, ClearDataBlockDoes
<1>3. PICK r : /\ Moved(c, r) /\ r.pc = "clear"
               /\ r.offset = cmd[c].dataBlocks[b].nextBlock
               /\ r.index = cmd[c].index
  BY <1>1, ClearDataBlockDoes
<1>4. /\ disc'.iNodes = disc.iNodes
      /\ disc'.dataBlocks[b] = DataBlock
      /\ \A a \in BlockIds \ {b} : disc'.dataBlocks[a] = disc.dataBlocks[a]
  BY <1>2, DiscFields DEF BlockWritten, TypeOK
<1>5. /\ Free(b)'
      /\ \A a \in BlockIds \ {b} : Link(a)' = Link(a) /\ Free(a)' = Free(a)
  BY <1>4 DEF Link, Free, isDataBlockFree, DataBlock
<1> SUFFICES ASSUME mess' = 0 PROVE LeakInv'
  BY DEF LeakInv
<1>6. /\ \A d \in Commands \ {c} : cmd[d].pc = "idle"
      /\ \A d \in Commands \ {c} : cmd'[d].pc = "idle"
      /\ r.offset = Link(b)
  BY <1>2, <1>3, OnlyOne DEF Lone, Link
<1>7. cmd'[c] = r
  BY <1>3 DEF Moved
<1>8. ASSUME NEW S \in SUBSET BlockIds, Reaches(S)' PROVE HoldsAll(S)'
  <2>1. PICK T : T = S \cup {b}
    OBVIOUS
  <2>2. Link(b) \in BlockIds => Link(b) \in S
    BY <1>3, <1>6, <1>7, <1>8 DEF Reaches
  <2>3. \A a \in T : Link(a) \in BlockIds => Link(a) \in T
    BY <1>5, <1>8, <2>1, <2>2 DEF Reaches
  <2>4. \A d \in Commands : cmd[d].pc = "clear" => cmd[d].offset \in T
    BY <1>1, <1>6, <2>1
  <2>5. \A i \in INodeIds : disc.iNodes[i].firstBlock \in BlockIds
                              => disc.iNodes[i].firstBlock \in T
    BY <1>4, <1>8, <2>1 DEF Reaches
  <2>6. Reaches(T) /\ T \in SUBSET BlockIds
    BY <1>2, <2>1, <2>3, <2>4, <2>5 DEF Reaches
  <2>7. HoldsAll(T)
    BY <1>2, <2>6 DEF LeakInv
  <2>8. \A a \in BlockIds : ~Free(a)' => a \in S
    BY <1>5, <2>1, <2>7 DEF HoldsAll
  <2>9. \A d \in Commands : cmd'[d].pc # "block"
    BY <1>3, <1>6, <1>7
  <2> QED
    BY <2>8, <2>9 DEF HoldsAll
<1>9. ASSUME NEW d \in Commands, cmd'[d].pc = "clear",
             Target(d)'.firstBlock \in BlockIds
      PROVE  Free(Target(d).firstBlock)'
  <2>1. d = c
    BY <1>6, <1>9
  <2>2. PICK f : f = Target(c).firstBlock
    OBVIOUS
  <2>3. Target(d)'.firstBlock = f
    BY <1>3, <1>4, <1>7, <2>1, <2>2 DEF Target
  <2>4. f = b \/ Free(f)
    BY <1>1, <1>2, <1>9, <2>2, <2>3 DEF LeakInv
  <2>5. Free(f)'
    BY <1>5, <1>9, <2>3, <2>4
  <2>6. isDataBlockFree(disc'.dataBlocks[f])
    BY <2>5 DEF Free
  <2>7. disc'.iNodes[cmd'[d].index].firstBlock = f
    BY <2>3 DEF Target
  <2> QED
    BY <2>6, <2>7 DEF Free, Target
<1> QED
  BY <1>8, <1>9 DEF LeakInv

\* RM clears the inode when the chain is cleared.
LEMMA ClearINodeLeaks ==
  ASSUME TypeOK, FilesInv, LeakInv, NEW c \in Commands, ClearINode(c)
  PROVE  LeakInv'
<1>1. PICK i, f : i = cmd[c].index /\ f = disc.iNodes[i].firstBlock
  OBVIOUS
<1>2. /\ cmd[c].pc = "clear" /\ cmd[c].offset = NIL /\ UNCHANGED mess
      /\ i \in INodeIds /\ INodeWritten(i, INode) /\ Moved(c, Idle)
  BY <1>1, ClearINodeDoes
<1>3. /\ disc'.dataBlocks = disc.dataBlocks
      /\ \A j \in INodeIds \ {i} : disc'.iNodes[j] = disc.iNodes[j]
  BY <1>2 DEF INodeWritten
<1> SUFFICES ASSUME mess' = 0 PROVE LeakInv'
  BY DEF LeakInv
<1>4. /\ \A d \in Commands \ {c} : cmd[d].pc = "idle"
      /\ \A d \in Commands \ {c} : cmd'[d].pc = "idle"
  BY <1>2, OnlyOne
<1>5. \A d \in Commands : cmd'[d].pc = "idle"
  BY <1>2, <1>4, IdleFits DEF Moved
<1>6. f \in BlockIds => Free(f) /\ Link(f) = NIL
  <2>1. f \in BlockIds => Free(f)
    BY <1>1, <1>2, Ids DEF LeakInv, Target
  <2> QED
    BY <2>1 DEF FilesInv
<1>7. ASSUME NEW S \in SUBSET BlockIds, Reaches(S)' PROVE HoldsAll(S)'
  <2>1. PICK T : T = S \cup ({f} \cap BlockIds)
    OBVIOUS
  <2>2. \A a \in BlockIds : Link(a)' = Link(a) /\ Free(a)' = Free(a)
    BY <1>3 DEF Link, Free
  <2>3. \A a \in T : Link(a) \in BlockIds => Link(a) \in T
    BY <1>6, <1>7, <2>1, <2>2, Ids DEF Reaches
  <2>4. \A j \in INodeIds : disc.iNodes[j].firstBlock \in BlockIds
                              => disc.iNodes[j].firstBlock \in T
    BY <1>1, <1>3, <1>7, <2>1 DEF Reaches
  <2>5. \A d \in Commands : cmd[d].pc = "clear" => cmd[d].offset \notin BlockIds
    BY <1>2, <1>4, Ids
  <2>6. Reaches(T) /\ T \in SUBSET BlockIds
    BY <2>1, <2>3, <2>4, <2>5 DEF Reaches
  <2>7. HoldsAll(T)
    BY <1>2, <2>6 DEF LeakInv
  <2>8. \A a \in BlockIds : ~Free(a)' => a \in S
    BY <1>6, <2>1, <2>2, <2>7 DEF HoldsAll
  <2> QED
    BY <1>5, <2>8 DEF HoldsAll
<1> QED
  BY <1>5, <1>7 DEF LeakInv

\* Where all blocks are free none is lost.
LEMMA NoneInUse ==
  ASSUME \A d \in Commands : cmd[d].pc = "idle", \A b \in BlockIds : Free(b)
  PROVE  LeakInv
BY DEF LeakInv, HoldsAll

\* A disc that is made or thrown away
LEMMA CreateDeleteLeaks ==
  ASSUME TypeOK, FilesInv, Create \/ Delete
  PROVE  LeakInv'
<1>1. Running = {} /\ UNCHANGED cmd /\ disc'.dataBlocks = Empty.dataBlocks
  BY CreateDeleteDo DEF FilesInv
<1>2. \A d \in Commands : cmd'[d].pc = "idle"
  BY <1>1 DEF Running
<1>3. \A b \in BlockIds : Free(b)'
  BY <1>1, EmptyFits DEF Free, isDataBlockFree
<1> QED
  BY <1>2, <1>3 DEF LeakInv, HoldsAll

\* Every step keeps it.
LEMMA NextLeaks == Inv /\ LeakInv /\ [Next]_vars => LeakInv'
<1> SUFFICES ASSUME Inv, LeakInv, [Next]_vars PROVE LeakInv'
  OBVIOUS
<1>1. TypeOK /\ FilesInv
  BY DEF Inv
<1>2. ASSUME NEW c \in Commands, NEW op \in {"COPYTO", "RM"}, NEW n \in Names,
             Start(c, op, n)
      PROVE  LeakInv'
  BY <1>1, <1>2, StartLeaks
<1>3. ASSUME NEW c \in Commands, Writes(c) PROVE LeakInv'
  <2>1. CASE LoadCopyTo(c)
    BY <1>1, <2>1, LoadCopyToLeaks
  <2>2. CASE WriteINode(c)
    BY <1>1, <2>2, WriteINodeLeaks
  <2>3. CASE WriteDataBlock(c)
    BY <1>1, <2>3, WriteDataBlockLeaks
  <2>4. CASE LoadRemove(c)
    BY <1>1, <2>4, LoadRemoveLeaks
  <2>5. CASE ClearDataBlock(c)
    BY <1>1, <2>5, ClearDataBlockLeaks
  <2>6. CASE ClearINode(c)
    BY <1>1, <2>6, ClearINodeLeaks
  <2>7. CASE OutOfBounds(c)
    BY <1>1, <2>7, EndDoes DEF LeakInv
  <2> QED
    BY <1>3, <2>1, <2>2, <2>3, <2>4, <2>5, <2>6, <2>7 DEF Writes
<1>4. ASSUME NEW c \in Commands, Killed(c) PROVE LeakInv'
  BY <1>1, <1>4, EndDoes DEF LeakInv
<1>5. ASSUME Create \/ Delete PROVE LeakInv'
  BY <1>1, <1>5, CreateDeleteLeaks
<1>6. CASE UNCHANGED vars
  <2>1. /\ disc' = disc /\ cmd' = cmd /\ mess' = mess
    BY <1>6 DEF vars
  <2>2. \A S : /\ Reaches(S)' <=> Reaches(S)
               /\ HoldsAll(S)' <=> HoldsAll(S)
    BY <2>1 DEF Reaches, HoldsAll, Link, Free
  <2>3. \A d \in Commands : Target(d)' = Target(d)
    BY <2>1 DEF Target
  <2>4. \A b : Free(b)' <=> Free(b)
    BY <2>1 DEF Free
  <2>5. ASSUME NEW d \in Commands
        PROVE  Free(Target(d).firstBlock)' <=> Free(Target(d).firstBlock)
    BY <2>1 DEF Free, Target
  <2> QED
    BY <2>1, <2>2, <2>3, <2>5 DEF LeakInv
<1> QED
  BY <1>2, <1>3, <1>4, <1>5, <1>6 DEF Next

\* The first len places of g follow the links.
Follows(g, blocks, len) == \A k \in 1..(len - 1) : g[k + 1] = After(blocks, g[k])

\* A chain that comes back to a block goes round from there.
LEMMA ChainRounds ==
  ASSUME NEW blocks, NEW len \in Nat, NEW g, Follows(g, blocks, len),
         NEW u \in 1..len, NEW v \in 1..len, u < v, g[u] = g[v]
  PROVE  \E k \in 1..(len - 1) : g[k] = g[len]
<1>1. PICK N : N = len - v
  OBVIOUS
<1>2. N \in Nat
  BY <1>1
<1>3. PICK P : P = {t \in 0..N : g[u + t] = g[v + t]}
  OBVIOUS
<1>4. 0 \in P
  BY <1>2, <1>3
<1>5. ASSUME NEW t \in 1..N, t - 1 \in P PROVE t \in P
  <2>1. PICK i, j : i = u + (t - 1) /\ j = v + (t - 1)
    OBVIOUS
  <2>2. i \in 1..(len - 1) /\ j \in 1..(len - 1) /\ u + t = i + 1 /\ v + t = j + 1
    BY <1>1, <2>1
  <2>3. g[i] = g[j]
    BY <1>3, <1>5, <2>1
  <2>4. g[i + 1] = g[j + 1]
    BY <2>2, <2>3 DEF Follows
  <2>5. t \in 0..N
    BY <1>2
  <2> QED
    BY <1>3, <2>2, <2>4, <2>5
<1>6. N \in P
  BY <1>2, <1>4, <1>5, Upward
<1>7. g[u + N] = g[len] /\ u + N \in 1..(len - 1)
  <2>1. v + N = len /\ u + N \in 1..(len - 1)
    BY <1>1
  <2> QED
    BY <1>3, <1>6, <2>1
<1> QED
  BY <1>7

\* As many steps as there are blocks come by every block that any number does:
\* what such a chain leads to next it has come by.
LEMMA ChainComesBack ==
  ASSUME NEW blocks, NEW first, NEW k \in 1..Blocks,
         After(blocks, Chain(blocks, first, Blocks)[k]) \in BlockIds
  PROVE  \E j \in 1..Blocks :
           Chain(blocks, first, Blocks)[j]
             = After(blocks, Chain(blocks, first, Blocks)[k])
<1>1. Blocks \in Nat /\ Blocks > 0
  BY VfsAssumption
<1>2. PICK g, h : g = Chain(blocks, first, Blocks)
                  /\ h = Chain(blocks, first, Blocks + 1)
  OBVIOUS
<1>3. \A i \in 1..Blocks : h[i] = g[i]
  BY <1>1, <1>2, ChainExtends
<1>4. \A i \in 1..Blocks : h[i + 1] = After(blocks, h[i])
  <2>1. Blocks + 1 \in Nat /\ (Blocks + 1) - 1 = Blocks
    BY <1>1
  <2> QED
    BY <1>2, <2>1, ChainSteps
<1>5. h[k + 1] = After(blocks, g[k])
  BY <1>3, <1>4
<1>6. CASE k < Blocks
  <2>1. k + 1 \in 1..Blocks
    BY <1>1, <1>6
  <2> QED
    BY <1>2, <1>3, <1>5, <2>1
<1>7. CASE k = Blocks
  <2>1. h[Blocks + 1] \in BlockIds
    BY <1>2, <1>5, <1>7
  <2>2. \A i \in 1..(Blocks + 1) : h[i] \in BlockIds
    <3>1. PICK P : P = {t \in 0..Blocks : h[Blocks + 1 - t] \in BlockIds}
      OBVIOUS
    <3>2. 0 \in P
      BY <1>1, <2>1, <3>1
    <3>3. ASSUME NEW t \in 1..Blocks, t - 1 \in P PROVE t \in P
      <4>1. PICK i : i = Blocks + 1 - t
        OBVIOUS
      <4>2. i \in 1..Blocks /\ Blocks + 1 - (t - 1) = i + 1 /\ t \in 0..Blocks
        BY <1>1, <4>1
      <4>3. h[i + 1] \in BlockIds
        BY <3>1, <3>3, <4>2
      <4>4. After(blocks, h[i]) \in BlockIds
        BY <1>4, <4>2, <4>3
      <4>5. h[i] \in BlockIds
        BY <4>4, Ids DEF After
      <4> QED
        BY <3>1, <4>1, <4>2, <4>5
    <3>4. 0..Blocks \subseteq P
      BY <1>1, <3>2, <3>3, Upward
    <3>5. ASSUME NEW i \in 1..(Blocks + 1) PROVE h[i] \in BlockIds
      <4>1. PICK t : t = Blocks + 1 - i
        OBVIOUS
      <4>2. t \in 0..Blocks /\ Blocks + 1 - t = i
        BY <1>1, <4>1
      <4> QED
        BY <3>1, <3>4, <4>2
    <3> QED
      BY <3>5
  <2>3. \E u, v \in 1..(Blocks + 1) : u # v /\ h[u] = h[v]
    <3>1. PICK f : f = [i \in 1..(Blocks + 1) |-> h[i]]
      OBVIOUS
    <3>2. f \in [1..(Blocks + 1) -> BlockIds]
      BY <2>2, <3>1
    <3>3. IsFiniteSet(1..(Blocks + 1)) /\ Cardinality(1..(Blocks + 1)) = Blocks + 1
      <4>1. 1 \in Int /\ Blocks + 1 \in Int /\ ~(1 > Blocks + 1)
            /\ (Blocks + 1) - 1 + 1 = Blocks + 1
        BY <1>1
      <4> QED
        BY <4>1, FS_Interval
    <3>4. IsFiniteSet(BlockIds) /\ Cardinality(BlockIds) = Blocks
      <4>1. 0 \in Int /\ Blocks - 1 \in Int /\ ~(0 > Blocks - 1)
            /\ (Blocks - 1) - 0 + 1 = Blocks
        BY <1>1
      <4> QED
        BY <4>1, FS_Interval DEF BlockIds
    <3>5. Blocks < Blocks + 1
      BY <1>1
    <3>6. PICK S, T : S = 1..(Blocks + 1) /\ T = BlockIds
      OBVIOUS
    <3>7. /\ IsFiniteSet(S) /\ IsFiniteSet(T) /\ Cardinality(T) < Cardinality(S)
          /\ f \in [S -> T]
      BY <3>2, <3>3, <3>4, <3>5, <3>6
    <3>8. \E u, v \in S : u # v /\ f[u] = f[v]
      BY <3>7, FS_PigeonHole
    <3> QED
      BY <3>1, <3>6, <3>8
  <2>4. PICK u, v \in 1..(Blocks + 1) : u < v /\ h[u] = h[v]
    <3>1. PICK u, v \in 1..(Blocks + 1) : u # v /\ h[u] = h[v]
      BY <2>3
    <3>2. u < v \/ v < u
      BY <3>1
    <3> QED
      BY <3>1, <3>2
  <2>5. PICK len : len = Blocks + 1
    OBVIOUS
  <2>6. len \in Nat /\ len - 1 = Blocks
    BY <1>1, <2>5
  <2>7. \E j \in 1..(len - 1) : h[j] = h[len]
    <3>1. Follows(h, blocks, len)
      BY <1>4, <2>6 DEF Follows
    <3>2. u \in 1..len /\ v \in 1..len /\ u < v /\ h[u] = h[v] /\ len \in Nat
      BY <2>4, <2>5, <2>6
    <3> QED
      BY <3>1, <3>2, ChainRounds
  <2> QED
    BY <1>2, <1>3, <1>5, <1>7, <2>5, <2>6, <2>7
<1> QED
  BY <1>1, <1>6, <1>7

\* When no command runs, what the chains come by is all there is.
LEMMA ChainsHoldAll ==
  ASSUME LeakInv, mess = 0, Running = {},
         NEW b \in BlockIds, ~isDataBlockFree(disc.dataBlocks[b])
  PROVE  \E i \in INodeIds : b \in ChainBlocks(i)
<1>1. Blocks \in Nat /\ Blocks > 0
  BY VfsAssumption
<1>2. PICK S : S = {a \in BlockIds : \E i \in INodeIds : a \in ChainBlocks(i)}
  OBVIOUS
<1>3. ASSUME NEW i \in INodeIds
      PROVE  \A a : a \in ChainBlocks(i) <=>
               \E k \in 1..Blocks :
                 a = Chain(disc.dataBlocks, disc.iNodes[i].firstBlock, Blocks)[k]
  <2>1. PICK ch : ch = Chain(disc.dataBlocks, disc.iNodes[i].firstBlock, Blocks)
    OBVIOUS
  <2>2. Lists(ch, Blocks)
    BY <1>1, <2>1, ChainSteps
  <2>3. DOMAIN ch = 1..Blocks
    BY <2>2 DEF Lists
  <2>4. ChainBlocks(i) = {ch[j] : j \in DOMAIN ch}
    BY <2>1 DEF ChainBlocks
  <2> QED
    BY <2>1, <2>3, <2>4
<1>4. ASSUME NEW a \in S, Link(a) \in BlockIds PROVE Link(a) \in S
  <2>1. PICK i \in INodeIds : a \in ChainBlocks(i)
    BY <1>2
  <2>2. PICK k \in 1..Blocks :
           a = Chain(disc.dataBlocks, disc.iNodes[i].firstBlock, Blocks)[k]
    BY <1>3, <2>1
  <2>3. After(disc.dataBlocks, a) = Link(a)
    BY <1>2 DEF After, Link
  <2>4. \E j \in 1..Blocks :
          Chain(disc.dataBlocks, disc.iNodes[i].firstBlock, Blocks)[j] = Link(a)
    BY <1>4, <2>2, <2>3, ChainComesBack
  <2> QED
    BY <1>2, <1>3, <1>4, <2>4
<1>5. ASSUME NEW i \in INodeIds, disc.iNodes[i].firstBlock \in BlockIds
      PROVE  disc.iNodes[i].firstBlock \in S
  <2>1. Chain(disc.dataBlocks, disc.iNodes[i].firstBlock, Blocks)[1]
          = disc.iNodes[i].firstBlock
    BY <1>1, ChainSteps
  <2>2. 1 \in 1..Blocks
    BY <1>1
  <2> QED
    BY <1>2, <1>3, <1>5, <2>1, <2>2
<1>6. \A c \in Commands : cmd[c].pc = "idle"
  BY DEF Running
<1>7. Reaches(S) /\ S \in SUBSET BlockIds
  BY <1>2, <1>4, <1>5, <1>6 DEF Reaches
<1>8. HoldsAll(S)
  BY <1>7 DEF LeakInv
<1>9. b \in S
  BY <1>8 DEF HoldsAll, Free
<1> QED
  BY <1>2, <1>9

\* While commands run one after the other to their ends, every block in use is
\* on the chain of an inode, from where an RM (deleteFile, main.cpp 243-253)
\* reaches it, though it may belong to the chains of several.
THEOREM NothingEverLeaks == Spec => []NothingLeaks
<1>1. Init => Inv /\ LeakInv
  <2> SUFFICES ASSUME Init PROVE Inv /\ LeakInv
    OBVIOUS
  <2>1. Inv
    BY InitFits
  <2>2. \A d \in Commands : cmd[d].pc = "idle"
    BY IdleFits DEF Init
  <2>3. disc.dataBlocks = Empty.dataBlocks
    BY EmptyFits DEF Init
  <2>4. \A b \in BlockIds : Free(b)
    BY <2>3, EmptyFits DEF Free, isDataBlockFree
  <2> QED
    BY <2>1, <2>2, <2>4, NoneInUse
<1>2. (Inv /\ LeakInv) /\ [Next]_vars => (Inv /\ LeakInv)'
  <2> SUFFICES ASSUME Inv, LeakInv, [Next]_vars PROVE Inv' /\ LeakInv'
    OBVIOUS
  <2>1. Inv'
    BY NextKeeps
  <2>2. LeakInv'
    BY NextLeaks
  <2> QED
    BY <2>1, <2>2
<1>3. Inv /\ LeakInv => NothingLeaks
  BY ChainsHoldAll DEF NothingLeaks
<1> QED
  BY <1>1, <1>2, <1>3, PTL DEF Spec
=============================================================================
