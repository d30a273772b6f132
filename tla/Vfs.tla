--------------------------------- MODULE Vfs ---------------------------------
(***************************************************************************)
(* The file system in a file of exercise 6 (main.cpp).  Every command is a *)
(* process of its own: it loads the whole system (inodes, then blocks),    *)
(* decides on its copy what to do, and changes the disc file by a sequence *)
(* of writes.  It may be killed between two of them, and nothing locks the *)
(* disc against other commands.                                            *)
(*                                                                         *)
(* An offset in the disc file is the index of the block that begins there; *)
(* NIL is offset 0.  COPYFROM, LS and MAP write nothing to the disc: what  *)
(* COPYFROM returns is an operator.                                        *)
(*                                                                         *)
(* CREATE and DELETE run while no other command does.  Names fit in 511    *)
(* bytes, so that the name looked up is the name stored.                   *)
(***************************************************************************)
EXTENDS Integers, Sequences, FiniteSets

CONSTANTS
  Names,       \* the names of the files outside
  Contents,    \* their contents: name -> [size, data], data a block each
  INodes,      \* iNodeAmount
  Blocks,      \* blockAmount
  BLOCK_SIZE,  \* bytes of data in a block
  LINK_SIZE,   \* bytes of nextBlock: sizeof(DataBlock) - BLOCK_SIZE
  Commands,    \* command lines that may run at the same time
  MaxMess,     \* bound: kills and overlapping commands until DELETE
  ZERO,        \* a block full of zero bytes
  NoName       \* the empty name of a cleared inode

ASSUME VfsAssumption ==
  /\ {INodes, Blocks, BLOCK_SIZE} \subseteq Nat \ {0}
  /\ {LINK_SIZE, MaxMess} \subseteq Nat
  /\ NoName \notin Names
  /\ \A n \in Names : LET len == Len(Contents[n].data) IN
       /\ Contents[n].size \in Nat
       /\ len = (Contents[n].size + BLOCK_SIZE - 1) \div BLOCK_SIZE
       /\ Contents[n] = [size |-> Contents[n].size,
                         data |-> [k \in 1..len |-> Contents[n].data[k]]]
       /\ \A k \in 1..len : Contents[n].data[k] # ZERO

VARIABLES
  disc,    \* the disc file
  cmd,     \* the commands that run
  stored,  \* history: names copied in, by a command alone, and not removed
  exposed, \* history: of these, those an RM of another file may have hit:
           \* it follows the last link of a chain to block 0, and the chain
           \* of an empty or damaged file into the blocks of any other;
           \* or all, when a COPYTO has written over the superblock
  mess     \* history: how often a command died or one joined another

vars == <<disc, cmd, stored, exposed, mess>>

NIL == -2
INodeIds == 0..(INodes - 1)
BlockIds == 0..(Blocks - 1)
Least(S) == CHOOSE x \in S : \A y \in S : x <= y

INode == [fileName |-> NoName, fileSize |-> 0, firstBlock |-> NIL]
DataBlock == [data |-> ZERO, nextBlock |-> NIL]
Empty == [exists |-> TRUE, magic |-> FALSE,
          iNodes |-> [i \in INodeIds |-> INode],
          dataBlocks |-> [b \in BlockIds |-> DataBlock]]

Idle == [op |-> "none", pc |-> "idle", name |-> NoName, iNodes |-> << >>,
         dataBlocks |-> << >>, index |-> 0, offset |-> NIL, left |-> 0,
         alone |-> TRUE, stray |-> FALSE]

Init ==
  /\ disc = [Empty EXCEPT !.exists = FALSE]
  /\ cmd = [c \in Commands |-> Idle]
  /\ stored = {} /\ exposed = {} /\ mess = 0
-----------------------------------------------------------------------------
(* What the functions of the class find in inodes and blocks *)

isINodeFree(inode) == inode.fileSize = 0 /\ inode.firstBlock = NIL
FreeINodes(inodes) == {i \in INodeIds : isINodeFree(inodes[i])}

\* A block is free when all its data is zero, whatever refers to it.
isDataBlockFree(block) == block.data = ZERO
FreeDataBlocks(blocks) == {b \in BlockIds : isDataBlockFree(blocks[b])}

\* -1 when there is none
getFirstFreeDataBlockIndex(blocks) ==
  IF FreeDataBlocks(blocks) = {} THEN -1 ELSE Least(FreeDataBlocks(blocks))

getNextFreeDataBlockIndex(blocks, b) ==
  LET rest == {a \in FreeDataBlocks(blocks) : a > b}
  IN IF rest = {} THEN -1 ELSE Least(rest)

\* Empty when getINodeIndex returns -1
WithName(inodes, n) == {i \in INodeIds : inodes[i].fileName = n}
getINodeIndex(inodes, n) == Least(WithName(inodes, n))

\* The offsets a chain of blocks goes through, as far as it makes sense
Chain(blocks, first, len) ==
  LET at[i \in 0..len] == IF i = 0 THEN first
                          ELSE IF at[i - 1] \in BlockIds
                          THEN blocks[at[i - 1]].nextBlock ELSE NIL
  IN [i \in 1..len |-> at[i - 1]]

DataAt(blocks, offset) ==
  IF offset \in BlockIds THEN blocks[offset].data ELSE NoName

\* The blocks copyFileFromSystem writes to the file outside.  NoName stands
\* for a read outside of the vector dataBlocks.
copyFileFromSystem(inodes, blocks, n) ==
  LET inode == inodes[getINodeIndex(inodes, n)]
      len == (inode.fileSize + BLOCK_SIZE - 1) \div BLOCK_SIZE
      chain == Chain(blocks, inode.firstBlock, len)
  IN [size |-> inode.fileSize,
      data |-> [i \in 1..len |-> DataAt(blocks, chain[i])]]
-----------------------------------------------------------------------------
Running == {c \in Commands : cmd[c].pc # "idle"}

\* loadSystem of a writing command, first half.  It throws when there is no
\* system or its superblock is not valid.
Start(c, op, n) ==
  /\ cmd[c].pc = "idle" /\ disc.exists /\ disc.magic
  /\ cmd' = [d \in Commands |->
               IF d = c
               THEN [Idle EXCEPT !.op = op, !.pc = "load", !.name = n,
                                 !.iNodes = disc.iNodes,
                                 !.alone = Running = {}]
               ELSE IF d \in Running THEN [cmd[d] EXCEPT !.alone = FALSE]
               ELSE cmd[d]]
  /\ Running # {} => mess < MaxMess
  /\ mess' = IF Running = {} THEN mess ELSE mess + 1
  /\ UNCHANGED <<disc, stored, exposed>>

\* copyFileToSystem after loadSystem, up to its first write
Admitted(c) ==
  /\ WithName(cmd[c].iNodes, cmd[c].name) = {}
  /\ FreeINodes(cmd[c].iNodes) # {}
  /\ Contents[cmd[c].name].size <=
       Cardinality(FreeDataBlocks(disc.dataBlocks)) * (BLOCK_SIZE + LINK_SIZE)

LoadCopyTo(c) ==
  /\ cmd[c].pc = "load" /\ cmd[c].op = "COPYTO"
  /\ cmd' = [cmd EXCEPT ![c] =
       IF Admitted(c)
       THEN [@ EXCEPT !.pc = "inode", !.iNodes = << >>,
                      !.dataBlocks = disc.dataBlocks,
                      !.index = Least(FreeINodes(cmd[c].iNodes)),
                      !.offset = getFirstFreeDataBlockIndex(disc.dataBlocks),
                      !.left = Contents[cmd[c].name].size]
       ELSE Idle]
  /\ UNCHANGED <<disc, stored, exposed, mess>>

\* deleteFile after loadSystem, up to its first write
LoadRemove(c) ==
  /\ cmd[c].pc = "load" /\ cmd[c].op = "RM"
  /\ IF WithName(cmd[c].iNodes, cmd[c].name) = {}
     THEN /\ cmd' = [cmd EXCEPT ![c] = Idle]
          /\ UNCHANGED stored
     ELSE LET i == getINodeIndex(cmd[c].iNodes, cmd[c].name)
          IN /\ cmd' = [cmd EXCEPT ![c] =
                  [@ EXCEPT !.pc = "clear", !.iNodes = << >>,
                            !.dataBlocks = disc.dataBlocks, !.index = i,
                            !.stray = \/ cmd[c].name \notin stored \ exposed
                                      \/ cmd[c].iNodes[i].fileSize = 0,
                            !.offset = cmd[c].iNodes[i].firstBlock]]
             /\ stored' = stored \ {cmd[c].name}
  /\ exposed' = exposed \cap stored'
  /\ UNCHANGED <<disc, mess>>
-----------------------------------------------------------------------------
(* COPYTO: the inode, then block after block *)

\* When all is written the command reports success.
Finished(c) ==
  /\ cmd' = [cmd EXCEPT ![c] = Idle]
  /\ stored' = IF cmd[c].alone THEN stored \cup {cmd[c].name} ELSE stored
  /\ exposed' = exposed \ {cmd[c].name}

WriteINode(c) ==
  /\ cmd[c].pc = "inode"
  /\ disc' = [disc EXCEPT !.iNodes[cmd[c].index] =
                [fileName |-> cmd[c].name, fileSize |-> cmd[c].left,
                 firstBlock |-> cmd[c].offset]]
  /\ IF cmd[c].left = 0 THEN Finished(c)
     ELSE /\ cmd' = [cmd EXCEPT ![c].pc = "block"]
          /\ UNCHANGED <<stored, exposed>>
  /\ UNCHANGED mess

\* The data of the block that is written when left bytes remain
NextData(n, left) ==
  Contents[n].data[Len(Contents[n].data) - (left - 1) \div BLOCK_SIZE]

NewBlock_free(blocks, b, n, left) ==    \* Mutant: it may choose b again
  [data |-> NextData(n, left),
   nextBlock |-> IF left <= BLOCK_SIZE THEN 0
                 ELSE getFirstFreeDataBlockIndex(blocks)]

\* The last block is linked to block 0.  With no free block left the link is
\* offset 0.
NewBlock(blocks, b, n, left) ==
  [data |-> NextData(n, left),
   nextBlock |-> IF left <= BLOCK_SIZE THEN 0
                 ELSE IF getNextFreeDataBlockIndex(blocks, b) = -1 THEN NIL
                 ELSE getNextFreeDataBlockIndex(blocks, b)]

WriteDataBlock(c) ==
  /\ cmd[c].pc = "block" /\ cmd[c].offset \in BlockIds
  /\ LET b == cmd[c].offset
         left == cmd[c].left
         block == NewBlock(cmd[c].dataBlocks, b, cmd[c].name, left)
     IN /\ disc' = [disc EXCEPT !.dataBlocks[b] = block]
        /\ IF left <= BLOCK_SIZE THEN Finished(c)
           ELSE /\ cmd' = [cmd EXCEPT ![c] =
                     [@ EXCEPT !.dataBlocks[b] = block,
                               !.offset = block.nextBlock,
                               !.left = left - BLOCK_SIZE]]
                /\ UNCHANGED <<stored, exposed>>
  /\ UNCHANGED mess
-----------------------------------------------------------------------------
(* RM: block after block, then the inode *)

Cleared_disc(blocks, b) == blocks    \* Mutant: only the disc is cleared

\* dataBlocks[b] = DataBlock()
Cleared(blocks, b) == [blocks EXCEPT ![b] = DataBlock]

NextBlock_cleared(blocks, b) ==      \* Mutant: read when b is cleared
  Cleared(blocks, b)[b].nextBlock

NextBlock(blocks, b) == blocks[b].nextBlock

ClearDataBlock(c) ==
  /\ cmd[c].pc = "clear" /\ cmd[c].offset \in BlockIds
  /\ LET b == cmd[c].offset
     IN /\ disc' = [disc EXCEPT !.dataBlocks[b] = DataBlock]
        /\ cmd' = [cmd EXCEPT ![c] =
             [@ EXCEPT !.dataBlocks = Cleared(cmd[c].dataBlocks, b),
                       !.offset = NextBlock(cmd[c].dataBlocks, b)]]
  /\ exposed' = exposed \cup
       {n \in stored : \/ mess > 0 \/ cmd[c].stray
                       \/ disc.iNodes[getINodeIndex(disc.iNodes, n)].firstBlock = 0}
  /\ UNCHANGED <<stored, mess>>

ClearINode(c) ==
  /\ cmd[c].pc = "clear" /\ cmd[c].offset = NIL
  /\ disc' = [disc EXCEPT !.iNodes[cmd[c].index] = INode]
  /\ cmd' = [cmd EXCEPT ![c] = Idle]
  /\ UNCHANGED <<stored, exposed, mess>>
-----------------------------------------------------------------------------
(* Ends that nobody planned *)

Dies(c) ==
  /\ cmd' = [cmd EXCEPT ![c] = Idle]
  /\ mess' = IF mess = 0 \/ mess < MaxMess THEN mess + 1 ELSE mess
  /\ UNCHANGED stored

\* An offset that is no block's makes an index far outside of the vector
\* dataBlocks, and the program crashes.  COPYTO writes its block to offset 0
\* before: over the superblock, unless the stream still holds it in a buffer.
OutOfBounds(c) ==
  /\ cmd[c].pc \in {"block", "clear"} /\ cmd[c].offset \notin BlockIds
  /\ cmd[c].pc = "clear" => cmd[c].offset # NIL
  /\ \/ UNCHANGED <<disc, exposed>>
     \/ /\ cmd[c].pc = "block"
        /\ disc' = [disc EXCEPT !.magic = FALSE]
        /\ exposed' = stored
  /\ Dies(c)

\* The command is killed, or the machine stops.  Before its first write that
\* is as if it had never been started.
Killed(c) ==
  /\ cmd[c].pc \notin {"idle", "load"} /\ mess < MaxMess
  /\ Dies(c)
  /\ UNCHANGED <<disc, exposed>>
-----------------------------------------------------------------------------
(* CREATE and DELETE, while no other command runs.  CREATE opens the file   *)
(* and writes the superblock; the zeros it writes then are what the missing *)
(* end of the file would be read as.                                        *)

Create ==
  /\ Running = {} /\ ~disc.exists
  /\ disc' \in {Empty, [Empty EXCEPT !.magic = TRUE]}
  /\ UNCHANGED <<cmd, stored, exposed, mess>>

\* deleteSystem loads the system first: one without a superblock stays.
Delete ==
  /\ Running = {} /\ disc.exists /\ disc.magic
  /\ disc' = [Empty EXCEPT !.exists = FALSE]
  /\ stored' = {} /\ exposed' = {} /\ mess' = 0
  /\ UNCHANGED cmd

Writes(c) ==
  \/ LoadCopyTo(c) \/ WriteINode(c) \/ WriteDataBlock(c)
  \/ LoadRemove(c) \/ ClearDataBlock(c) \/ ClearINode(c)
  \/ OutOfBounds(c)

Next ==
  \/ \E c \in Commands :
       \/ \E op \in {"COPYTO", "RM"}, n \in Names : Start(c, op, n)
       \/ Writes(c)
       \/ Killed(c)
  \/ Create \/ Delete

\* A command that runs goes on, or is killed.
Spec == Init /\ [][Next]_vars /\ \A c \in Commands : WF_vars(Writes(c))
-----------------------------------------------------------------------------
(* Properties *)

ReadsBack(n) ==
  /\ disc.magic
  /\ WithName(disc.iNodes, n) # {}
  /\ copyFileFromSystem(disc.iNodes, disc.dataBlocks, n) = Contents[n]

\* COPYFROM returns what COPYTO was given (main.cpp 264-384), whatever other
\* commands did since, interrupted and overlapping ones too: no COPYTO takes
\* an inode or a block of a stored file.  Only an RM that follows a stray link
\* and a COPYTO that runs out of blocks destroy what is not theirs.
FilesSurvive == \A n \in stored \ exposed : ReadsBack(n)

\* What its user expects of a file system (test_upload.sh removes a file and
\* test_download.sh reads others): only an RM of the file itself hurts it.
FilesReadBack == \A n \in stored : ReadsBack(n)

ChainBlocks(i) ==
  LET chain == Chain(disc.dataBlocks, disc.iNodes[i].firstBlock, Blocks)
  IN {chain[j] : j \in DOMAIN chain}

\* Commands that ran to their end one after the other leave every block that
\* is in use on the chain of an inode, from where RM (deleteFile 243-253)
\* reaches it: removals that damage other files lose no block for good.
NothingLeaks ==
  mess = 0 /\ Running = {} =>
    \A b \in BlockIds : ~isDataBlockFree(disc.dataBlocks[b]) =>
      \E i \in INodeIds : b \in ChainBlocks(i)

\* The loop of deleteFile (243-253) ends, although the last block of a file
\* is linked to block 0 and chains that lead into each other form rings: it
\* clears each block in memory before it goes on.
RemoveEnds ==
  \A c \in Commands : cmd[c].op = "RM" ~> cmd[c].op # "RM"
=============================================================================
