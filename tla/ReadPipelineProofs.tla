------------------------- MODULE ReadPipelineProofs -------------------------
(***************************************************************************)
(* What readImage and readImageFull promise, for every number of blocks    *)
(* and threads, every set of wanted blocks and every state of the file.    *)
(*                                                                         *)
(* The properties of ReadPipeline speak of the moment the call returns.    *)
(* They hold because the shared counter gives every wanted block to one    *)
(* thread, which holds it until it has pasted it, because a thread that    *)
(* got as far as to claim goes on until the counter is past the last       *)
(* block, and because an error, once it is in errFlag, stays there unless  *)
(* zlib decompresses a later block.  IInv says so of every moment: a block *)
(* that is in its place and wrong is excused, or some thread that got at   *)
(* least as far has an error, or a later block makes it forgotten.         *)
(***************************************************************************)
EXTENDS ReadPipeline, WellFoundedInduction, TLAPS

-----------------------------------------------------------------------------
(* The inductive invariant.                                                *)

\* A thread has claimed a wanted block and not pasted it yet; a thread has the file
\* open and is in its loop.
Holding == {"read", "uncompress", "paste"}
Looping == {"claim"} \cup Holding

\* The block a thread holds was claimed from the counter, is wanted and not pasted, ...
HeldInv ==
    \A t \in Workers :
        pc[t] \in Holding => /\ blk[t] < blockId
                             /\ blk[t] \in wanted
                             /\ image[blk[t]] = Unset

\* ... no other thread holds it, ...
DistinctInv ==
    \A t, u \in Workers :
        pc[t] \in Holding /\ pc[u] \in Holding /\ t # u => blk[t] # blk[u]

\* ... and a wanted block below the counter is pasted or held.
CoverInv ==
    \A b \in wanted :
        b < blockId => \/ image[b] # Unset
                       \/ \E t \in Workers : pc[t] \in Holding /\ blk[t] = b

\* What was not claimed was not pasted.
FreshInv == \A b \in Blocks : b >= blockId => image[b] = Unset

\* Once a block is claimed, some thread stays until the counter is past the last;
\* a thread that stops before that has an error.
LoopInv ==
    /\ blockId > 0 /\ blockId < NumBlocks => \E t \in Workers : pc[t] \in Looping
    /\ \A t \in Workers :
          pc[t] = "done" /\ errFlag[t] = NoError => blockId >= NumBlocks

\* The caller: before the threads, nothing is claimed; after them, all are done.
CallerInv ==
    /\ pcMain = "call" => blockId = 0 /\ \A t \in Workers : pc[t] = "off"
    /\ pcMain # "returned" => result = Running
    /\ pcMain = "returned" =>
          \/ result # NoError /\ blockId = 0 /\ \A t \in Workers : pc[t] = "off"
          \/ result = FirstError /\ \A t \in Workers : pc[t] = "done"

\* fread brought the block, when it is there to be read, and part of it, when it is
\* cut; what the type says of the blocks of a file stays true.
FetchedInv ==
    /\ StorableAs(compressionType)
    /\ \A t \in Workers :
          pc[t] = "uncompress" => /\ file[blk[t]] = "whole" => bufferFile[t] = blk[t]
                                  /\ file[blk[t]] = "cut" => bufferFile[t] = Mixed

\* What bufferFile holds is a whole block the thread read, this one or an earlier.
BufferInv ==
    \A t \in Workers :
        bufferFile[t] # Mixed =>
            /\ bufferFile[t] \in wanted
            /\ file[bufferFile[t]] = "whole"
            /\ bufferFile[t] < blockId
            /\ pc[t] \in Holding => bufferFile[t] <= blk[t]

\* No thread is ahead of the counter.
BehindInv == \A t \in Workers : blk[t] <= blockId

\* What may be in the place of b though no thread has, or had, an error.
Excused(b, content) ==
    \/ content = b
    \/ compressionType = "NONE" /\ file[b] \in {"cut", "missing"}
    \/ /\ compressionType \in {"BZIP2", "ZLIB"} /\ file[b] = "missing"
       /\ content \in wanted /\ content < b

\* A thread that decompressed a block and has no error has what may be in its place.
PastingInv ==
    \A t \in Workers :
        pc[t] = "paste" /\ errFlag[t] = NoError =>
            /\ Excused(blk[t], bufferIn[t])
            /\ compressionType = "ZLIB" => bufferIn[t] \in Blocks

\* A wrong block is known to a thread that was there, or forgotten, or about to be.
Accounted(b) ==
    \/ image[b] = Unset
    \/ Excused(b, image[b])
    \/ \E t \in Workers : errFlag[t] # NoError /\ blk[t] >= b
    \/ /\ compressionType = "ZLIB"
       /\ \E t \in Workers : pc[t] = "paste" /\ errFlag[t] = NoError /\ blk[t] > b
    \/ Forgotten(b)
ErrorInv == \A b \in wanted : Accounted(b)

\* Without compression there is no error that matters.
PlainInv ==
    Unimpaired => \A t \in Workers : pc[t] = "paste" => bufferIn[t] = blk[t]

IInv == /\ TypeOK
        /\ HeldInv
        /\ DistinctInv
        /\ CoverInv
        /\ FreshInv
        /\ LoopInv
        /\ CallerInv
        /\ FetchedInv
        /\ BufferInv
        /\ BehindInv
        /\ PastingInv
        /\ ErrorInv
        /\ PlainInv

-----------------------------------------------------------------------------
(* Facts every proof below starts from.                                    *)

\* There is a block and a thread, and no mark is a block.
LEMMA NumberFacts ==
    /\ NumBlocks \in Nat \ {0}
    /\ NumThreads \in Nat \ {0}
    /\ Blocks \subseteq Nat
    /\ Workers \subseteq Nat
    /\ 0 \in Workers /\ 0 \in Blocks
    /\ Unset \notin Blocks /\ Unset \notin Contents /\ Mixed \notin Blocks
    /\ Running \notin ErrorCodes /\ NoError \in ErrorCodes
BY ReadPipelineAssumption
   DEF NumThreads, Workers, Blocks, Contents, Unset, Mixed, Running, ErrorCodes, NoError

\* A call wants blocks of the image.
LEMMA WantedBlocks ==
    ASSUME TypeOK
    PROVE  wanted \subseteq Blocks
BY ReadPipelineAssumption DEF TypeOK

\* A set of numbers that is not empty has a smallest element.
LEMMA SmallestElement ==
    ASSUME NEW T, T \subseteq Nat, T # {}
    PROVE  \E x \in T : \A y \in T : x <= y
<1> DEFINE R == {ss \in Nat \X Nat : ss[1] < ss[2]}
<1>1. IsWellFoundedOn(R, Nat)
  BY Zenon, NatLessThanWellFounded DEF OpToRel
<1>2. \E x \in T : \A y \in T : ~ (<<y, x>> \in R)
  <2> HIDE DEF R
  <2> QED
    BY <1>1, WFMin
<1>3. ASSUME NEW x \in T, NEW y \in T, ~ (<<y, x>> \in R)
      PROVE  x <= y
  <2>1. x \in Nat /\ y \in Nat
    OBVIOUS
  <2>2. ~ (y < x)
    BY <1>3, <2>1
  <2> QED
    BY <2>1, <2>2
<1> QED
  BY <1>2, <1>3

\* FirstError is the error of some thread, and NoError only if no thread has one.
LEMMA FirstErrorFacts ==
    ASSUME TypeOK
    PROVE  /\ FirstError \in ErrorCodes
           /\ FirstError = NoError => \A t \in Workers : errFlag[t] = NoError
<1> DEFINE failing == {t \in Workers : errFlag[t] # NoError}
           IsFirst(t) == /\ errFlag[t] # NoError
                         /\ \A s \in Workers : s < t => errFlag[s] = NoError
<1>1. errFlag \in [Workers -> ErrorCodes] /\ NoError \in ErrorCodes
  BY NumberFacts DEF TypeOK
<1>2. CASE failing = {}
  BY <1>1, <1>2 DEF FirstError
<1>3. CASE failing # {}
  <2>1. failing \subseteq Nat
    BY NumberFacts
  <2>2. PICK t \in failing : \A u \in failing : t <= u
    BY <1>3, <2>1, SmallestElement
  <2>3. t \in Workers /\ IsFirst(t)
    <3>1. ASSUME NEW s \in Workers, s < t, errFlag[s] # NoError
          PROVE  FALSE
      <4>1. t <= s /\ s \in Nat /\ t \in Nat
        BY <2>1, <2>2, <3>1
      <4> QED
        BY <3>1, <4>1
    <3> QED
      BY <3>1
  <2>4. (CHOOSE u \in Workers : IsFirst(u)) \in Workers
        /\ IsFirst(CHOOSE u \in Workers : IsFirst(u))
    BY <2>3
  <2>5. FirstError = errFlag[CHOOSE u \in Workers : IsFirst(u)]
    BY <1>3 DEF FirstError
  <2> QED
    BY <1>1, <2>4, <2>5
<1> QED
  BY <1>2, <1>3

-----------------------------------------------------------------------------
(* Type correctness.                                                       *)

\* What decompression leaves is some buffer's content and an error code.
LEMMA OutcomesType ==
    ASSUME NEW b \in Blocks, NEW c \in Contents, NEW before \in Contents,
           NEW flag \in ErrorCodes, NEW o \in Outcomes(b, c, before, flag),
           compressionType \in {"NONE", "BZIP2", "ZLIB", "OTHER"}
    PROVE  o.out \in Contents /\ o.flag \in ErrorCodes
<1>1. Mixed \in Contents /\ {NoError, 2, 3, 5} \subseteq ErrorCodes
  BY DEF Contents, ErrorCodes
<1>2. CASE compressionType = "NONE"
  BY <1>2 DEF Outcomes
<1>3. CASE compressionType = "BZIP2"
  BY <1>1, <1>3 DEF Outcomes, Decoded, Failed
<1>4. CASE compressionType = "ZLIB"
  BY <1>1, <1>4 DEF Outcomes, Decoded, Failed
<1>5. CASE compressionType = "OTHER"
  BY <1>1, <1>5 DEF Outcomes
<1> QED
  BY <1>2, <1>3, <1>4, <1>5

\* What a thread fetches of a block, whatever the file holds and the buffer held
\* before, is something a buffer may hold.
LEMMA FetchedType ==
    ASSUME TypeOK, NEW b \in Blocks, NEW before \in Contents
    PROVE  Fetched(b, before) \in Contents
<1>1. file[b] \in Kinds
  BY ReadPipelineAssumption DEF TypeOK
<1> QED
  BY <1>1 DEF Fetched, Kinds, Contents

\* The type invariant is inductive on its own.
LEMMA TypeStep ==
    ASSUME TypeOK, [Next]_vars
    PROVE  TypeOK'
<1> USE NumberFacts
<1>1. CASE UNCHANGED vars
  BY <1>1 DEF TypeOK, vars, mainVars, callVars, workerVars
<1>2. CASE Main
  <2>1. NoFilename \/ HeaderFails => TypeOK'
    BY DEF TypeOK, NoFilename, HeaderFails, callVars, workerVars, ErrorCodes
  <2>2. StartThreads => TypeOK'
    BY DEF TypeOK, StartThreads, callVars
  <2>3. JoinAll => TypeOK'
    BY FirstErrorFacts DEF TypeOK, JoinAll, callVars, workerVars
  <2> QED
    BY <1>2, <2>1, <2>2, <2>3 DEF Main
<1>3. ASSUME NEW t \in Workers, Uncompressor(t)
      PROVE  TypeOK'
  <2>1. OpenFile(t) => TypeOK'
    BY DEF TypeOK, OpenFile, mainVars, callVars
  <2>2. OpenFails(t) => TypeOK'
    BY DEF TypeOK, OpenFails, mainVars, callVars, ErrorCodes
  <2>3. ClaimBlock(t) => TypeOK'
    BY DEF TypeOK, ClaimBlock, mainVars, callVars, Blocks
  <2>4. ReadBlock(t) => TypeOK'
    <3>1. Fetched(blk[t], bufferFile[t]) \in Contents
      BY FetchedType DEF TypeOK
    <3> QED
      BY <3>1 DEF TypeOK, ReadBlock, mainVars, callVars
  <2>5. ASSUME Uncompress(t)
        PROVE  TypeOK'
    <3>1. PICK o \in Outcomes(blk[t], bufferFile[t], bufferIn[t], errFlag[t]) :
              /\ bufferIn' = [bufferIn EXCEPT ![t] = o.out]
              /\ errFlag' = [errFlag EXCEPT ![t] = o.flag]
      BY <2>5 DEF Uncompress
    <3>2. o.out \in Contents /\ o.flag \in ErrorCodes
      <4>1. compressionType \in {"NONE", "BZIP2", "ZLIB", "OTHER"}
        BY ReadPipelineAssumption DEF TypeOK
      <4>2. /\ blk[t] \in Blocks /\ bufferFile[t] \in Contents
            /\ bufferIn[t] \in Contents /\ errFlag[t] \in ErrorCodes
        BY DEF TypeOK
      <4> QED
        BY <4>1, <4>2, OutcomesType
    <3> QED
      BY <2>5, <3>1, <3>2 DEF TypeOK, Uncompress, mainVars, callVars
  <2>6. PasteBlock(t) => TypeOK'
    BY DEF TypeOK, PasteBlock, mainVars, callVars
  <2> QED
    BY <1>3, <2>1, <2>2, <2>3, <2>4, <2>5, <2>6 DEF Uncompressor
<1>4. CASE Finished
  BY <1>4 DEF Finished, TypeOK, vars, mainVars, callVars, workerVars
<1> QED
  BY <1>1, <1>2, <1>3, <1>4 DEF Next

\* Every variable keeps its type.
THEOREM TypeCorrect == Spec => []TypeOK
<1>1. Init => TypeOK
  BY NumberFacts DEF Init, TypeOK, Contents
<1>2. TypeOK /\ [Next]_vars => TypeOK'
  BY TypeStep
<1> QED
  BY <1>1, <1>2, PTL DEF Spec

-----------------------------------------------------------------------------
(* The steps keep the rest of the invariant.                               *)

\* A block stays accounted for while the image does not change, no error is taken
\* back and every thread about to paste stays.
LEMMA StaysAccounted ==
    ASSUME NEW b, Accounted(b), UNCHANGED <<callVars, image>>,
           \A t \in Workers :
               errFlag[t] # NoError /\ blk[t] >= b => errFlag'[t] # NoError /\ blk'[t] >= b,
           \A t \in Workers :
               pc[t] = "paste" /\ errFlag[t] = NoError /\ blk[t] > b =>
                   pc'[t] = "paste" /\ errFlag'[t] = NoError /\ blk'[t] > b
    PROVE  Accounted(b)'
<1>1. image[b] = Unset \/ Excused(b, image[b]) \/ Forgotten(b)
          => Accounted(b)'
  BY DEF Accounted, Excused, Forgotten, callVars
<1>2. (\E t \in Workers : errFlag[t] # NoError /\ blk[t] >= b)
          => \E t \in Workers : errFlag'[t] # NoError /\ blk'[t] >= b
  OBVIOUS
<1>3. (\E t \in Workers : pc[t] = "paste" /\ errFlag[t] = NoError /\ blk[t] > b)
          => \E t \in Workers : pc'[t] = "paste" /\ errFlag'[t] = NoError /\ blk'[t] > b
  OBVIOUS
<1> QED
  BY <1>1, <1>2, <1>3 DEF Accounted, callVars

\* The caller's steps.

\* A call that is refused: nothing was claimed, nothing will be.
LEMMA RefuseStep ==
    ASSUME IInv, NoFilename \/ HeaderFails
    PROVE  IInv'
<1>1. TypeOK'
  BY TypeStep DEF IInv, Next, Main
<1>2. /\ pcMain = "call" /\ pcMain' = "returned" /\ result' # NoError
      /\ UNCHANGED <<callVars, blockId, image, workerVars>>
  BY DEF NoFilename, HeaderFails, NoError
<1>3. CallerInv'
  BY <1>2 DEF IInv, CallerInv, workerVars
<1>4. ErrorInv'
  BY <1>2, StaysAccounted DEF IInv, ErrorInv, callVars, workerVars
<1> QED
  BY <1>1, <1>2, <1>3, <1>4
     DEF IInv, HeldInv, DistinctInv, CoverInv, FreshInv, LoopInv, FetchedInv, BufferInv, BehindInv,
         PastingInv, Excused, PlainInv, StorableAs, Unimpaired, callVars, workerVars

\* The threads start: none holds a block.
LEMMA StartStep ==
    ASSUME IInv, StartThreads
    PROVE  IInv'
<1>1. TypeOK'
  BY TypeStep DEF IInv, Next, Main
<1>2. /\ \A t \in Workers : pc'[t] = "open"
      /\ blockId = 0 /\ pcMain' = "join" /\ pcMain # "returned"
      /\ UNCHANGED <<result, callVars, blockId, image, blk, bufferFile, bufferIn, errFlag>>
  BY DEF StartThreads, IInv, CallerInv
<1>3. HeldInv' /\ DistinctInv'
  BY <1>2 DEF HeldInv, DistinctInv, Holding
<1>4. CoverInv' /\ FreshInv'
  <2>1. \A b \in wanted : ~ (b < 0)
    <3>1. wanted \subseteq Nat
      BY WantedBlocks, NumberFacts DEF IInv
    <3> QED
      BY <3>1
  <2> QED
    BY <1>2, <2>1 DEF IInv, CoverInv, FreshInv, callVars
<1>5. LoopInv' /\ CallerInv'
  BY <1>2 DEF IInv, LoopInv, CallerInv
<1>6. FetchedInv' /\ PastingInv' /\ PlainInv'
  BY <1>2 DEF IInv, FetchedInv, StorableAs, PastingInv, PlainInv, Unimpaired, callVars
<1>7. BufferInv' /\ BehindInv'
  BY <1>2 DEF IInv, BufferInv, BehindInv, Holding, callVars
<1>8. ErrorInv'
  <2>1. \A t \in Workers : pc[t] # "paste"
    BY DEF StartThreads, IInv, CallerInv
  <2> QED
    BY <1>2, <2>1, StaysAccounted DEF IInv, ErrorInv, callVars
<1> QED
  BY <1>1, <1>3, <1>4, <1>5, <1>6, <1>7, <1>8 DEF IInv

\* The threads are joined.
LEMMA JoinStep ==
    ASSUME IInv, JoinAll
    PROVE  IInv'
<1>1. TypeOK'
  BY TypeStep DEF IInv, Next, Main
<1>2. /\ \A t \in Workers : pc[t] = "done"
      /\ pcMain' = "returned" /\ result' = FirstError
      /\ UNCHANGED <<callVars, blockId, image, workerVars>>
  BY DEF JoinAll
<1>3. CallerInv'
  BY <1>2 DEF CallerInv, FirstError, workerVars
<1>4. ErrorInv'
  BY <1>2, StaysAccounted DEF IInv, ErrorInv, callVars, workerVars
<1> QED
  BY <1>1, <1>2, <1>3, <1>4
     DEF IInv, HeldInv, DistinctInv, CoverInv, FreshInv, LoopInv, FetchedInv, BufferInv, BehindInv,
         PastingInv, Excused, PlainInv, StorableAs, Unimpaired, callVars, workerVars

-----------------------------------------------------------------------------
(* Of the threads'.  What all their steps have in common:                  *)

\* A thread that takes a step was started and not joined.
LEMMA CallerStep ==
    ASSUME IInv, NEW t \in Workers, pc[t] \in {"open"} \cup Looping, UNCHANGED mainVars
    PROVE  CallerInv'
<1>1. pcMain = "join" /\ result = Running
  <2>1. pc[t] # "off" /\ pc[t] # "done"
    BY DEF Looping, Holding
  <2> QED
    BY <2>1 DEF IInv, CallerInv, TypeOK
<1> QED
  BY <1>1 DEF CallerInv, mainVars

\* The file is opened, or not.
LEMMA OpenStep ==
    ASSUME IInv, NEW t \in Workers, OpenFile(t) \/ OpenFails(t)
    PROVE  IInv'
<1>1. TypeOK'
  BY TypeStep DEF IInv, Next, Uncompressor
<1>2. /\ pc[t] = "open"
      /\ \/ pc' = [pc EXCEPT ![t] = "claim"] /\ errFlag' = errFlag
         \/ pc' = [pc EXCEPT ![t] = "done"] /\ errFlag' = [errFlag EXCEPT ![t] = 3]
      /\ UNCHANGED <<mainVars, callVars, blockId, image, blk, bufferFile, bufferIn>>
  BY DEF OpenFile, OpenFails
<1>3. /\ pc \in [Workers -> {"off", "open", "claim", "read", "uncompress", "paste", "done"}]
      /\ errFlag \in [Workers -> ErrorCodes]
  BY DEF IInv, TypeOK
<1>4. /\ \A u \in Workers : u # t => pc'[u] = pc[u] /\ errFlag'[u] = errFlag[u]
      /\ \/ pc'[t] = "claim" /\ errFlag'[t] = errFlag[t]
         \/ pc'[t] = "done" /\ errFlag'[t] = 3
  BY <1>2, <1>3
<1>5. HeldInv' /\ DistinctInv' /\ CoverInv' /\ FreshInv'
  BY <1>2, <1>4 DEF IInv, HeldInv, DistinctInv, CoverInv, FreshInv, Holding, callVars
<1>6. LoopInv'
  BY <1>2, <1>4 DEF IInv, LoopInv, Looping, Holding, NoError
<1>7. CallerInv'
  BY <1>2, CallerStep DEF Looping
<1>8. FetchedInv' /\ PlainInv'
  BY <1>2, <1>4 DEF IInv, FetchedInv, StorableAs, PlainInv, Unimpaired, callVars
<1>9. BufferInv' /\ BehindInv'
  BY <1>2, <1>4 DEF IInv, BufferInv, BehindInv, Holding, callVars
<1>10. PastingInv'
  BY <1>2, <1>4 DEF IInv, PastingInv, Excused, callVars
<1>11. ErrorInv'
  <2>1. \A u \in Workers : errFlag[u] # NoError => errFlag'[u] # NoError
    BY <1>4 DEF NoError
  <2>2. \A u \in Workers : pc[u] = "paste" /\ errFlag[u] = NoError =>
                               pc'[u] = "paste" /\ errFlag'[u] = NoError
    BY <1>2, <1>4
  <2> QED
    BY <1>2, <2>1, <2>2, StaysAccounted DEF IInv, ErrorInv, callVars
<1> QED
  BY <1>1, <1>5, <1>6, <1>7, <1>8, <1>9, <1>10, <1>11 DEF IInv

\* A block is claimed: it is nobody else's, and nothing was pasted in its place.
LEMMA ClaimStep ==
    ASSUME IInv, NEW t \in Workers, ClaimBlock(t)
    PROVE  IInv'
<1> USE NumberFacts
<1>1. TypeOK'
  BY TypeStep DEF IInv, Next, Uncompressor
<1>2. /\ pc[t] = "claim" /\ blockId' = blockId + 1 /\ blockId \in Nat
      /\ UNCHANGED <<mainVars, callVars, image, bufferFile, bufferIn, errFlag>>
  BY DEF ClaimBlock, IInv, TypeOK
<1>3. /\ pc \in [Workers -> {"off", "open", "claim", "read", "uncompress", "paste", "done"}]
      /\ blk \in [Workers -> Blocks]
      /\ wanted \subseteq Blocks
  BY WantedBlocks DEF IInv, TypeOK
<1>4. \A u \in Workers : u # t => pc'[u] = pc[u] /\ blk'[u] = blk[u]
  BY <1>3 DEF ClaimBlock
<1>5. \A b \in Blocks : b < blockId \/ b = blockId \/ b >= blockId'
  BY <1>2
<1>8. \A u \in Workers :
          /\ blk[u] \in Nat /\ blk'[u] \in Nat /\ blk[u] <= blk'[u]
          /\ blk'[u] <= blockId'
          /\ pc'[u] \in {"uncompress", "paste"} =>
                 u # t /\ pc[u] = pc'[u] /\ blk'[u] = blk[u]
          /\ pc[u] = "paste" => pc'[u] = "paste" /\ blk'[u] = blk[u]
  <2>1. \A u \in Workers : blk[u] \in Nat /\ blk[u] <= blockId
    BY <1>3 DEF IInv, BehindInv
  <2>2. blk'[t] = blk[t] \/ blk'[t] = blockId
    BY <1>3 DEF ClaimBlock
  <2>3. pc'[t] \in {"read", "claim", "done"}
    BY <1>3 DEF ClaimBlock
  <2>4. blk'[t] \in Nat /\ blk[t] <= blk'[t] /\ blk'[t] <= blockId'
    BY <1>2, <2>1, <2>2
  <2>5. \A u \in Workers : u # t => blk'[u] <= blockId'
    BY <1>2, <1>4, <2>1
  <2> QED
    BY <1>2, <1>4, <2>1, <2>3, <2>4, <2>5
<1>9. BehindInv'
  BY <1>8 DEF BehindInv
<1>10. BufferInv'
  <2> SUFFICES ASSUME NEW u \in Workers, bufferFile[u] # Mixed
               PROVE  /\ bufferFile[u] \in wanted
                      /\ file[bufferFile[u]] = "whole"
                      /\ bufferFile[u] < blockId'
                      /\ pc'[u] \in Holding => bufferFile[u] <= blk'[u]
    BY <1>2 DEF BufferInv, callVars
  <2>1. /\ bufferFile[u] \in wanted /\ file[bufferFile[u]] = "whole"
        /\ bufferFile[u] < blockId /\ bufferFile[u] \in Nat
        /\ pc[u] \in Holding => bufferFile[u] <= blk[u]
    BY <1>3 DEF IInv, BufferInv
  <2>2. bufferFile[u] < blockId'
    BY <1>2, <2>1
  <2>3. ASSUME pc'[u] \in Holding
        PROVE  bufferFile[u] <= blk'[u]
    <3>1. CASE u # t
      BY <1>4, <2>1, <2>3, <3>1
    <3>2. CASE u = t
      <4>1. blk'[t] = blockId
        BY <1>2, <1>3, <2>3, <3>2 DEF ClaimBlock, Holding
      <4> QED
        BY <1>2, <2>1, <3>2, <4>1
    <3> QED
      BY <3>1, <3>2
  <2> QED
    BY <2>1, <2>2, <2>3
<1>11. FetchedInv' /\ PastingInv' /\ PlainInv'
  BY <1>2, <1>8
     DEF IInv, FetchedInv, StorableAs, PastingInv, Excused, PlainInv, Unimpaired, callVars
<1>12. ErrorInv'
  <2> SUFFICES ASSUME NEW b \in wanted
               PROVE  Accounted(b)'
    BY <1>2 DEF ErrorInv, callVars
  <2>1. b \in Nat /\ Accounted(b)
    BY <1>3 DEF IInv, ErrorInv
  <2>2. \A u \in Workers : blk[u] >= b => blk'[u] >= b
    BY <1>8, <2>1
  <2> QED
    BY <1>2, <1>8, <2>1, <2>2, StaysAccounted
<1>13. CallerInv'
  BY <1>2, CallerStep DEF Looping
<1>6. CASE blockId < NumBlocks
  <2>1. /\ blk'[t] = blockId /\ blockId \in Blocks
        /\ pc'[t] = IF blockId \in wanted THEN "read" ELSE "claim"
    BY <1>2, <1>3, <1>6 DEF ClaimBlock, Blocks
  <2>2. \A u \in Workers :
            u # t /\ pc'[u] \in Holding => pc[u] \in Holding /\ blk'[u] < blockId
    BY <1>4 DEF IInv, HeldInv
  <2>3. image[blockId] = Unset
    BY <1>2, <2>1 DEF IInv, FreshInv
  <2>4. HeldInv'
    <3>1. ASSUME NEW u \in Workers, u # t, pc'[u] \in Holding
          PROVE  blk'[u] < blockId' /\ blk'[u] \in wanted /\ image[blk'[u]] = Unset
      <4>1. blk'[u] < blockId /\ blk'[u] \in Nat /\ blk'[u] = blk[u] /\ pc[u] \in Holding
        BY <1>3, <1>4, <2>2, <3>1
      <4> QED
        BY <1>2, <4>1 DEF IInv, HeldInv
    <3>2. pc'[t] \in Holding => blk'[t] \in wanted
      BY <2>1 DEF Holding
    <3> QED
      BY <1>2, <2>1, <2>3, <3>1, <3>2 DEF HeldInv, callVars
  <2>5. DistinctInv'
    <3>1. \A u \in Workers : u # t /\ pc'[u] \in Holding => blk'[u] # blockId
      BY <1>2, <2>2
    <3> QED
      BY <1>4, <2>1, <3>1 DEF IInv, DistinctInv
  <2>6. CoverInv'
    <3>1. ASSUME NEW b \in wanted, b < blockId, image[b] = Unset
          PROVE  \E u \in Workers : pc'[u] \in Holding /\ blk'[u] = b
      <4>1. PICK u \in Workers : pc[u] \in Holding /\ blk[u] = b
        BY <3>1 DEF IInv, CoverInv
      <4>2. u # t
        BY <1>2, <4>1 DEF Holding
      <4> QED
        BY <1>4, <4>1, <4>2
    <3>2. blockId \in wanted => pc'[t] \in Holding
      BY <2>1 DEF Holding
    <3>3. \A b \in wanted : b < blockId' => b < blockId \/ b = blockId
      BY <1>2, <1>3
    <3> QED
      BY <1>2, <2>1, <3>1, <3>2, <3>3 DEF CoverInv, callVars
  <2>7. LoopInv'
    <3>1. pc'[t] \in Looping /\ pc'[t] # "done"
      BY <2>1 DEF Looping, Holding
    <3>2. \A u \in Workers : pc'[u] = "done" /\ errFlag'[u] = NoError => blockId >= NumBlocks
      BY <1>2, <1>4, <3>1 DEF IInv, LoopInv
    <3> QED
      BY <1>2, <3>1, <3>2 DEF LoopInv
  <2>8. FreshInv'
    BY <1>2, <1>5 DEF IInv, FreshInv
  <2> QED
    BY <1>1, <1>9, <1>10, <1>11, <1>12, <1>13, <2>4, <2>5, <2>6, <2>7, <2>8 DEF IInv
<1>7. CASE blockId >= NumBlocks
  <2>1. blk' = blk /\ pc' = [pc EXCEPT ![t] = "done"]
    BY <1>2, <1>7 DEF ClaimBlock
  <2>2. pc'[t] = "done"
    BY <1>3, <2>1
  <2>3. HeldInv'
    <3>1. \A u \in Workers : blk[u] < blockId => blk[u] < blockId'
      <4>1. \A u \in Workers : blk[u] \in Nat
        BY <1>3
      <4> QED
        BY <1>2, <4>1
    <3> QED
      BY <1>2, <1>4, <2>1, <2>2, <3>1 DEF IInv, HeldInv, Holding, callVars
  <2>4. CoverInv'
    <3>1. \A b \in wanted : b < blockId
      BY <1>2, <1>3, <1>7 DEF Blocks
    <3> QED
      BY <1>2, <1>4, <2>1, <3>1 DEF IInv, CoverInv, Holding, callVars
  <2>5. DistinctInv'
    BY <1>4, <2>1, <2>2 DEF IInv, DistinctInv, Holding
  <2>6. LoopInv'
    BY <1>2, <1>7 DEF LoopInv
  <2>7. FreshInv'
    BY <1>2, <1>5 DEF IInv, FreshInv
  <2> QED
    BY <1>1, <1>9, <1>10, <1>11, <1>12, <1>13, <2>3, <2>4, <2>5, <2>6, <2>7 DEF IInv
<1> QED
  BY <1>2, <1>6, <1>7

\* The block's bytes are read.
LEMMA ReadStep ==
    ASSUME IInv, NEW t \in Workers, ReadBlock(t)
    PROVE  IInv'
<1>1. TypeOK'
  BY TypeStep DEF IInv, Next, Uncompressor
<1>2. /\ pc[t] = "read" /\ pc' = [pc EXCEPT ![t] = "uncompress"]
      /\ bufferFile' = [bufferFile EXCEPT ![t] = Fetched(blk[t], @)]
      /\ UNCHANGED <<mainVars, callVars, blockId, image, blk, bufferIn, errFlag>>
  BY DEF ReadBlock
<1>3. /\ pc \in [Workers -> {"off", "open", "claim", "read", "uncompress", "paste", "done"}]
      /\ bufferFile \in [Workers -> Contents]
  BY DEF IInv, TypeOK
<1>4. /\ \A u \in Workers : u # t => pc'[u] = pc[u] /\ bufferFile'[u] = bufferFile[u]
      /\ pc'[t] = "uncompress" /\ bufferFile'[t] = Fetched(blk[t], bufferFile[t])
  BY <1>2, <1>3
<1>5. HeldInv' /\ DistinctInv' /\ CoverInv' /\ FreshInv' /\ LoopInv'
  BY <1>2, <1>4
     DEF IInv, HeldInv, DistinctInv, CoverInv, FreshInv, LoopInv, Holding, Looping, callVars
<1>6. CallerInv'
  BY <1>2, CallerStep DEF Looping, Holding
<1>7. FetchedInv'
  <2>1. /\ file[blk[t]] = "whole" => bufferFile'[t] = blk[t]
        /\ file[blk[t]] = "cut" => bufferFile'[t] = Mixed
    BY <1>4 DEF Fetched
  <2> QED
    BY <1>2, <1>4, <2>1 DEF IInv, FetchedInv, StorableAs, callVars
<1>8. BufferInv'
  <2> SUFFICES ASSUME NEW u \in Workers, bufferFile'[u] # Mixed
               PROVE  /\ bufferFile'[u] \in wanted
                      /\ file[bufferFile'[u]] = "whole"
                      /\ bufferFile'[u] < blockId
                      /\ pc'[u] \in Holding => bufferFile'[u] <= blk[u]
    BY <1>2 DEF BufferInv, callVars
  <2>1. CASE bufferFile'[u] = bufferFile[u]
    <3>1. pc'[u] \in Holding => pc[u] \in Holding
      BY <1>2, <1>4 DEF Holding
    <3> QED
      BY <2>1, <3>1 DEF IInv, BufferInv
  <2>2. CASE bufferFile'[u] # bufferFile[u]
    <3>1. u = t /\ file[blk[t]] = "whole" /\ bufferFile'[u] = blk[t]
      <4>1. file[blk[t]] \in Kinds
        BY ReadPipelineAssumption DEF IInv, TypeOK
      <4> QED
        BY <1>4, <2>2, <4>1 DEF Fetched, Kinds
    <3>2. blk[t] < blockId /\ blk[t] \in wanted /\ blk[t] \in Nat
      BY <1>2, NumberFacts DEF IInv, TypeOK, HeldInv, Holding
    <3>3. blk[t] <= blk[t]
      BY <3>2
    <3> QED
      BY <3>1, <3>2, <3>3
  <2> QED
    BY <2>1, <2>2
<1>9. BehindInv' /\ PastingInv' /\ PlainInv'
  BY <1>2, <1>4 DEF IInv, BehindInv, PastingInv, Excused, PlainInv, Unimpaired, callVars
<1>10. ErrorInv'
  <2>1. \A u \in Workers : pc[u] = "paste" => pc'[u] = "paste"
    BY <1>2, <1>4
  <2> QED
    BY <1>2, <2>1, StaysAccounted DEF IInv, ErrorInv, callVars
<1> QED
  BY <1>1, <1>5, <1>6, <1>7, <1>8, <1>9, <1>10 DEF IInv

\* What decompression leaves without an error may be in the place of the block, given
\* what fread brought; and only zlib takes an earlier error back.
LEMMA OutcomesRight ==
    ASSUME NEW b \in Blocks, NEW c \in Contents, NEW before, NEW flag,
           NEW o \in Outcomes(b, c, before, flag),
           o.flag = NoError,
           compressionType \in {"NONE", "BZIP2", "ZLIB", "OTHER"},
           StorableAs(compressionType),
           file[b] \in Kinds,
           file[b] = "whole" => c = b,
           file[b] = "cut" => c = Mixed,
           c # Mixed => c \in wanted /\ file[c] = "whole" /\ c <= b
    PROVE  /\ Excused(b, o.out)
           /\ compressionType = "ZLIB" => o.out \in Blocks
           /\ compressionType # "ZLIB" => flag = NoError
<1>1. CASE compressionType = "NONE"
  <2>1. o.out = c /\ o.flag = flag
    BY <1>1 DEF Outcomes
  <2>2. file[b] \in {"whole", "cut", "missing"}
    BY <1>1 DEF StorableAs, Kinds
  <2> QED
    BY <1>1, <2>1, <2>2 DEF Excused
<1>2. CASE compressionType \in {"BZIP2", "ZLIB"}
  <2> DEFINE readable == IF file[b] = "empty" THEN Mixed ELSE c
  <2>1. /\ compressionType = "BZIP2" => o \in Decoded(readable, flag) \cup Failed(before, 2)
        /\ compressionType = "ZLIB" => o \in Decoded(readable, NoError) \cup Failed(before, 3)
    BY <1>2 DEF Outcomes
  <2>2. o \notin Failed(before, 2) /\ o \notin Failed(before, 3)
    BY DEF Failed, NoError
  <2>3. /\ readable # Mixed /\ o.out = readable
        /\ compressionType = "BZIP2" => flag = NoError
    BY <1>2, <2>1, <2>2 DEF Decoded
  <2>4. c # Mixed /\ o.out = c /\ file[b] \in {"whole", "missing"}
    BY <2>3 DEF Kinds
  <2>5. c \in Blocks /\ c \in Nat /\ b \in Nat
    BY <2>4, NumberFacts DEF Contents
  <2>6. file[b] = "missing" => c # b
    BY <2>4
  <2>7. file[b] = "missing" => c < b
    BY <2>4, <2>5, <2>6
  <2> QED
    BY <1>2, <2>3, <2>4, <2>5, <2>7 DEF Excused
<1>3. CASE compressionType = "OTHER"
  BY <1>3 DEF Outcomes, NoError
<1> QED
  BY <1>1, <1>2, <1>3

\* The block is decompressed.
LEMMA UncompressStep ==
    ASSUME IInv, NEW t \in Workers, Uncompress(t)
    PROVE  IInv'
<1>1. TypeOK'
  BY TypeStep DEF IInv, Next, Uncompressor
<1>2. /\ pc[t] = "uncompress" /\ pc' = [pc EXCEPT ![t] = "paste"]
      /\ UNCHANGED <<mainVars, callVars, blockId, image, blk, bufferFile>>
  BY DEF Uncompress
<1>3. PICK o \in Outcomes(blk[t], bufferFile[t], bufferIn[t], errFlag[t]) :
          /\ bufferIn' = [bufferIn EXCEPT ![t] = o.out]
          /\ errFlag' = [errFlag EXCEPT ![t] = o.flag]
  BY DEF Uncompress
<1>4. /\ pc \in [Workers -> {"off", "open", "claim", "read", "uncompress", "paste", "done"}]
      /\ bufferIn \in [Workers -> Contents] /\ errFlag \in [Workers -> ErrorCodes]
      /\ blk[t] \in Blocks /\ errFlag[t] \in ErrorCodes
      /\ compressionType \in {"NONE", "BZIP2", "ZLIB", "OTHER"}
      /\ file[blk[t]] \in Kinds /\ bufferFile[t] \in Contents
  BY ReadPipelineAssumption DEF IInv, TypeOK
<1>5. /\ \A u \in Workers : u # t => /\ pc'[u] = pc[u]
                                     /\ bufferIn'[u] = bufferIn[u]
                                     /\ errFlag'[u] = errFlag[u]
      /\ pc'[t] = "paste" /\ bufferIn'[t] = o.out /\ errFlag'[t] = o.flag
  BY <1>2, <1>3, <1>4
<1>6. HeldInv' /\ DistinctInv' /\ CoverInv' /\ FreshInv'
  BY <1>2, <1>5 DEF IInv, HeldInv, DistinctInv, CoverInv, FreshInv, Holding, callVars
<1>7. LoopInv'
  BY <1>2, <1>5 DEF IInv, LoopInv, Holding, Looping
<1>8. CallerInv'
  BY <1>2, CallerStep DEF Looping, Holding
<1>9. FetchedInv' /\ BufferInv' /\ BehindInv'
  BY <1>2, <1>5 DEF IInv, FetchedInv, StorableAs, BufferInv, BehindInv, Holding, callVars
<1>10. o.flag = NoError =>
           /\ Excused(blk[t], o.out)
           /\ compressionType = "ZLIB" => o.out \in Blocks
           /\ compressionType # "ZLIB" => errFlag[t] = NoError
  <2>1. /\ StorableAs(compressionType)
        /\ file[blk[t]] = "whole" => bufferFile[t] = blk[t]
        /\ file[blk[t]] = "cut" => bufferFile[t] = Mixed
    BY <1>2 DEF IInv, FetchedInv
  <2>2. bufferFile[t] # Mixed => /\ bufferFile[t] \in wanted
                                 /\ file[bufferFile[t]] = "whole"
                                 /\ bufferFile[t] <= blk[t]
    BY <1>2 DEF IInv, BufferInv, Holding
  <2> QED
    BY <1>4, <2>1, <2>2, OutcomesRight
<1>11. PastingInv'
  BY <1>2, <1>5, <1>10 DEF IInv, PastingInv, Excused, callVars
<1>12. PlainInv'
  <2>1. Unimpaired => o.out = blk[t]
    <3>1. Unimpaired => compressionType = "NONE" /\ bufferFile[t] = blk[t]
      BY <1>2, <1>4 DEF Unimpaired, IInv, FetchedInv
    <3> QED
      BY <3>1 DEF Outcomes
  <2> QED
    BY <1>2, <1>5, <2>1 DEF IInv, PlainInv, Unimpaired, callVars
<1>13. ErrorInv'
  <2> SUFFICES ASSUME NEW b \in wanted
               PROVE  Accounted(b)'
    BY <1>2 DEF ErrorInv, callVars
  <2>1. Accounted(b) /\ b \in Nat /\ blk[t] \in Nat
    BY <1>4, WantedBlocks, NumberFacts DEF IInv, ErrorInv
  <2>2. image[blk[t]] = Unset
    BY <1>2 DEF IInv, HeldInv, Holding
  <2>3. CASE \/ o.flag # NoError \/ errFlag[t] = NoError
             \/ \E u \in Workers : u # t /\ errFlag[u] # NoError /\ blk[u] >= b
    <3>1. \/ image[b] = Unset \/ Excused(b, image[b]) \/ Forgotten(b)
          \/ \E u \in Workers : errFlag[u] # NoError /\ blk[u] >= b
          \/ /\ compressionType = "ZLIB"
             /\ \E u \in Workers : pc[u] = "paste" /\ errFlag[u] = NoError /\ blk[u] > b
      BY <2>1 DEF Accounted
    <3>2. image[b] = Unset \/ Excused(b, image[b]) \/ Forgotten(b) => Accounted(b)'
      BY <1>2 DEF Accounted, Excused, Forgotten, callVars
    <3>3. (\E u \in Workers : errFlag[u] # NoError /\ blk[u] >= b)
              => \E u \in Workers : errFlag'[u] # NoError /\ blk[u] >= b
      BY <1>5, <2>3
    <3>4. (\E u \in Workers : pc[u] = "paste" /\ errFlag[u] = NoError /\ blk[u] > b)
              => \E u \in Workers : pc'[u] = "paste" /\ errFlag'[u] = NoError /\ blk[u] > b
      BY <1>2, <1>5
    <3> QED
      BY <1>2, <3>1, <3>2, <3>3, <3>4 DEF Accounted, callVars
  <2>4. CASE o.flag = NoError /\ errFlag[t] # NoError /\ image[b] # Unset /\ blk[t] >= b
    <3>1. compressionType = "ZLIB"
      BY <1>10, <2>4
    <3>2. blk[t] > b
      <4>1. blk[t] # b
        BY <2>2, <2>4
      <4> QED
        BY <2>1, <2>4, <4>1
    <3> QED
      BY <1>2, <1>5, <2>4, <3>1, <3>2 DEF Accounted, callVars
  <2>5. CASE image[b] = Unset
    BY <1>2, <2>5 DEF Accounted
  <2>6. CASE ~ (blk[t] >= b) /\ \A u \in Workers : u # t => ~ (errFlag[u] # NoError /\ blk[u] >= b)
    <3>1. \/ image[b] = Unset \/ Excused(b, image[b]) \/ Forgotten(b)
          \/ /\ compressionType = "ZLIB"
             /\ \E u \in Workers : pc[u] = "paste" /\ errFlag[u] = NoError /\ blk[u] > b
      BY <2>1, <2>6 DEF Accounted
    <3>2. image[b] = Unset \/ Excused(b, image[b]) \/ Forgotten(b) => Accounted(b)'
      BY <1>2 DEF Accounted, Excused, Forgotten, callVars
    <3>3. (\E u \in Workers : pc[u] = "paste" /\ errFlag[u] = NoError /\ blk[u] > b)
              => \E u \in Workers : pc'[u] = "paste" /\ errFlag'[u] = NoError /\ blk[u] > b
      BY <1>2, <1>5
    <3> QED
      BY <1>2, <3>1, <3>2, <3>3 DEF Accounted, callVars
  <2> QED
    BY <2>3, <2>4, <2>5, <2>6
<1> QED
  BY <1>1, <1>6, <1>7, <1>8, <1>9, <1>11, <1>12, <1>13 DEF IInv

\* The block is pasted, and held no longer.
LEMMA PasteStep ==
    ASSUME IInv, NEW t \in Workers, PasteBlock(t)
    PROVE  IInv'
<1>1. TypeOK'
  BY TypeStep DEF IInv, Next, Uncompressor
<1>2. /\ pc[t] = "paste" /\ pc' = [pc EXCEPT ![t] = "claim"]
      /\ image' = [image EXCEPT ![blk[t]] = bufferIn[t]]
      /\ UNCHANGED <<mainVars, callVars, blockId, blk, bufferFile, bufferIn, errFlag>>
  BY DEF PasteBlock
<1>3. /\ pc \in [Workers -> {"off", "open", "claim", "read", "uncompress", "paste", "done"}]
      /\ image \in [Blocks -> Contents \cup {Unset}] /\ blk[t] \in Blocks
      /\ bufferIn[t] # Unset
      /\ wanted \subseteq Blocks
      /\ blockId \in Nat /\ blk[t] \in Nat
  <2>1. bufferIn[t] \in Contents /\ blk[t] \in Blocks
    BY DEF IInv, TypeOK
  <2>2. wanted \subseteq Blocks
    BY WantedBlocks DEF IInv
  <2>3. bufferIn[t] # Unset /\ blk[t] \in Nat
    BY <2>1, NumberFacts
  <2> QED
    BY <2>1, <2>2, <2>3 DEF IInv, TypeOK
<1>4. /\ \A u \in Workers : u # t => pc'[u] = pc[u]
      /\ pc'[t] = "claim"
      /\ \A b \in Blocks : b # blk[t] => image'[b] = image[b]
      /\ image'[blk[t]] = bufferIn[t]
  BY <1>2, <1>3
<1>5. \A u \in Workers : u # t /\ pc[u] \in Holding => blk[u] # blk[t]
  BY <1>2 DEF IInv, DistinctInv, Holding
<1>6. HeldInv'
  <2>1. \A u \in Workers : blk[u] \in Blocks
    BY DEF IInv, TypeOK
  <2> QED
    BY <1>2, <1>4, <1>5, <2>1 DEF IInv, HeldInv, Holding, callVars
<1>7. DistinctInv'
  BY <1>2, <1>4 DEF IInv, DistinctInv, Holding
<1>8. CoverInv'
  <2>1. ASSUME NEW b \in wanted, b < blockId, b # blk[t], image[b] = Unset
        PROVE  \E u \in Workers : pc'[u] \in Holding /\ blk[u] = b
    <3>1. PICK u \in Workers : pc[u] \in Holding /\ blk[u] = b
      BY <2>1 DEF IInv, CoverInv
    <3> QED
      BY <1>4, <2>1, <3>1
  <2> QED
    BY <1>2, <1>3, <1>4, <2>1 DEF CoverInv, callVars
<1>9. FreshInv'
  <2>1. blk[t] < blockId
    BY <1>2 DEF IInv, HeldInv, Holding
  <2>2. ~ (blk[t] >= blockId)
    BY <1>3, <2>1
  <2> QED
    BY <1>2, <1>4, <2>2 DEF IInv, FreshInv
<1>10. LoopInv'
  BY <1>2, <1>4 DEF IInv, LoopInv, Looping
<1>11. CallerInv'
  BY <1>2, CallerStep DEF Looping, Holding
<1>12. FetchedInv' /\ PastingInv' /\ PlainInv'
  BY <1>2, <1>4
     DEF IInv, FetchedInv, StorableAs, PastingInv, Excused, PlainInv, Unimpaired, callVars
<1>13. BufferInv' /\ BehindInv'
  BY <1>2, <1>4 DEF IInv, BufferInv, BehindInv, Holding, callVars
<1>14. ErrorInv'
  <2> SUFFICES ASSUME NEW b \in wanted
               PROVE  Accounted(b)'
    BY <1>2 DEF ErrorInv, callVars
  <2>1. Accounted(b) /\ b \in Blocks /\ b \in Nat
    BY <1>3, NumberFacts DEF IInv, ErrorInv
  <2>2. CASE b = blk[t]
    <3>1. errFlag[t] = NoError => Excused(b, image'[b])
      BY <1>2, <1>4, <2>2 DEF IInv, PastingInv
    <3>2. Excused(b, image'[b]) => Accounted(b)'
      BY <1>2 DEF Accounted, Excused, callVars
    <3>3. errFlag[t] # NoError => Accounted(b)'
      <4>1. blk[t] >= b
        BY <1>3, <2>2
      <4> QED
        BY <1>2, <4>1 DEF Accounted
    <3> QED
      BY <3>1, <3>2, <3>3
  <2>3. CASE b # blk[t]
    <3>1. image'[b] = image[b]
      BY <1>4, <2>1, <2>3
    <3>2. image[b] = Unset \/ Excused(b, image[b]) => Accounted(b)'
      BY <1>2, <3>1 DEF Accounted, Excused, callVars
    <3>3. (\E u \in Workers : errFlag[u] # NoError /\ blk[u] >= b) => Accounted(b)'
      BY <1>2 DEF Accounted
    <3>4. blk[t] \in wanted /\ image[blk[t]] = Unset
      BY <1>2 DEF IInv, HeldInv, Holding
    <3>5. Forgotten(b) => Accounted(b)'
      <4>1. \A c \in wanted : image[c] \in Blocks => image'[c] \in Blocks
        BY <1>3, <1>4, <3>4, NumberFacts
      <4> QED
        BY <1>2, <4>1 DEF Accounted, Forgotten, callVars
    <3>6. ASSUME compressionType = "ZLIB",
                 NEW u \in Workers, pc[u] = "paste", errFlag[u] = NoError, blk[u] > b
          PROVE  Accounted(b)'
      <4>1. CASE u # t
        BY <1>2, <1>4, <3>6, <4>1 DEF Accounted, callVars
      <4>2. CASE u = t
        <5>1. image'[blk[t]] \in Blocks
          BY <1>4, <3>6, <4>2 DEF IInv, PastingInv
        <5> QED
          BY <1>2, <3>4, <3>6, <4>2, <5>1 DEF Accounted, Forgotten, callVars
      <4> QED
        BY <4>1, <4>2
    <3> QED
      BY <2>1, <3>2, <3>3, <3>5, <3>6 DEF Accounted
  <2> QED
    BY <2>2, <2>3
<1> QED
  BY <1>1, <1>6, <1>7, <1>8, <1>9, <1>10, <1>11, <1>12, <1>13, <1>14 DEF IInv

-----------------------------------------------------------------------------
(* The theorems.                                                           *)

\* IInv holds before the call,
LEMMA Initially == Init => IInv
<1> SUFFICES ASSUME Init
             PROVE  IInv
  OBVIOUS
<1> USE NumberFacts
<1>1. TypeOK
  BY DEF Init, TypeOK, Contents
<1>2. HeldInv /\ DistinctInv /\ FreshInv
  BY DEF Init, HeldInv, DistinctInv, FreshInv, Holding
<1>3. CoverInv
  <2>1. wanted \subseteq Nat
    BY <1>1, WantedBlocks
  <2>2. \A b \in wanted : ~ (b < 0)
    BY <2>1
  <2> QED
    BY <2>2 DEF Init, CoverInv
<1>4. LoopInv /\ CallerInv
  BY DEF Init, LoopInv, CallerInv
<1>5. FetchedInv /\ PastingInv /\ PlainInv
  BY DEF Init, FetchedInv, PastingInv, PlainInv
<1>6. BufferInv /\ BehindInv
  BY DEF Init, BufferInv, BehindInv
<1>7. ErrorInv
  <2>1. wanted \subseteq Blocks
    BY <1>1, WantedBlocks
  <2> QED
    BY <2>1 DEF Init, ErrorInv, Accounted
<1> QED
  BY <1>1, <1>2, <1>3, <1>4, <1>5, <1>6, <1>7 DEF IInv

\* Every step preserves IInv.
LEMMA Step ==
    ASSUME IInv, [Next]_vars
    PROVE  IInv'
<1>1. CASE UNCHANGED vars
  <2>1. ErrorInv'
    BY <1>1, StaysAccounted DEF IInv, ErrorInv, vars, callVars, workerVars
  <2> QED
    BY <1>1, <2>1
       DEF IInv, TypeOK, HeldInv, DistinctInv, CoverInv, FreshInv, LoopInv, CallerInv,
           FetchedInv, BufferInv, BehindInv, PastingInv, Excused, PlainInv, StorableAs,
           Unimpaired, FirstError, vars, mainVars, callVars, workerVars
<1>2. CASE Main
  BY <1>2, RefuseStep, StartStep, JoinStep DEF Main
<1>3. ASSUME NEW t \in Workers, Uncompressor(t)
      PROVE  IInv'
  BY <1>3, OpenStep, ClaimStep, ReadStep, UncompressStep, PasteStep DEF Uncompressor
<1>4. CASE Finished
  BY <1>1, <1>4 DEF Finished
<1> QED
  BY <1>1, <1>2, <1>3, <1>4 DEF Next

\* so that it holds in every reachable state.
LEMMA Inductive == Spec => []IInv
BY Initially, Step, PTL DEF Spec

\* As soon as one thread claimed a block, the call does not return before every
\* block asked for was processed, whatever else failed.
THEOREM SurvivorsFinishTheJob == Spec => []SurvivorsReadAll
<1>1. IInv => SurvivorsReadAll
  <2> SUFFICES ASSUME IInv, pcMain = "returned", blockId > 0, NEW b \in wanted
               PROVE  image[b] # Unset
    BY DEF SurvivorsReadAll
  <2>1. \A t \in Workers : pc[t] = "done"
    BY DEF IInv, CallerInv
  <2>2. ~ (blockId < NumBlocks)
    BY <2>1 DEF IInv, LoopInv, Looping, Holding
  <2>3. b < blockId
    <3>1. b \in Blocks /\ blockId \in Nat
      BY WantedBlocks DEF IInv, TypeOK
    <3> QED
      BY <2>2, <3>1, NumberFacts DEF Blocks
  <2> QED
    BY <2>1, <2>3 DEF IInv, CoverInv, Holding
<1> QED
  BY <1>1, Inductive, PTL

\* A call that returns 0 has put every block it was asked for in its place, but for
\* bytes that a file cut short does not have, uncompressed or of a whole block, and
\* for the errors zlib forgets (klb_imageIO.cpp:590, :619, :1502-1507).
THEOREM SuccessIsRead == Spec => []SuccessMeansRead
<1>1. IInv => SuccessMeansRead
  <2> SUFFICES ASSUME IInv, result = NoError, NEW b \in wanted
               PROVE  image[b] = b \/ PastedUnread(b) \/ PastedAgain(b) \/ Forgotten(b)
    BY DEF SuccessMeansRead
  <2>1. /\ \A t \in Workers : pc[t] = "done"
        /\ \A t \in Workers : errFlag[t] = NoError
    <3>1. pcMain = "returned"
      BY DEF IInv, CallerInv, NoError, Running
    <3> QED
      BY <3>1, FirstErrorFacts DEF IInv, CallerInv
  <2>2. blockId >= NumBlocks
    BY <2>1, NumberFacts DEF IInv, LoopInv
  <2>3. b < blockId
    <3>1. b \in Blocks /\ blockId \in Nat
      BY WantedBlocks DEF IInv, TypeOK
    <3> QED
      BY <2>2, <3>1, NumberFacts DEF Blocks
  <2>4. image[b] # Unset
    BY <2>1, <2>3 DEF IInv, CoverInv, Holding
  <2>5. Excused(b, image[b]) \/ Forgotten(b)
    BY <2>1, <2>4 DEF IInv, ErrorInv, Accounted
  <2> QED
    BY <2>5 DEF Excused, PastedUnread, PastedAgain
<1> QED
  BY <1>1, Inductive, PTL

\* Of an unimpaired file, the caller's buffer fills up with the right blocks, each
\* once: no thread ever pastes over another's block or with another's buffer.
THEOREM RefinesFill == Spec => ImplementsFill
<1>1. Init => Filling!Init
  <2> SUFFICES ASSUME Init
               PROVE  Filling!Init
    OBVIOUS
  <2>1. wanted \subseteq Blocks
    BY ReadPipelineAssumption DEF Init
  <2> QED
    BY <2>1 DEF Init, Filling!Init
<1>2. IInv /\ [Next]_vars => [Unimpaired => Filling!Fill]_vars
  <2> SUFFICES ASSUME IInv, Next, Unimpaired
               PROVE  Filling!Fill
    OBVIOUS
  <2>1. wanted \subseteq Blocks
    BY WantedBlocks DEF IInv
  <2>2. wanted' = wanted
    BY DEF Next, Main, NoFilename, HeaderFails, StartThreads, JoinAll, Uncompressor,
           OpenFile, OpenFails, ClaimBlock, ReadBlock, Uncompress, PasteBlock, Finished,
           vars, callVars
  <2>3. ASSUME \A b \in wanted : image'[b] = image[b] \/ (image[b] = Unset /\ image'[b] = b)
        PROVE  Filling!Fill
    BY <2>2, <2>3 DEF Filling!Fill
  <2>4. ASSUME NEW t \in Workers, PasteBlock(t)
        PROVE  \A b \in wanted :
                   image'[b] = image[b] \/ (image[b] = Unset /\ image'[b] = b)
    <3>1. /\ image' = [image EXCEPT ![blk[t]] = bufferIn[t]]
          /\ image \in [Blocks -> Contents \cup {Unset}]
          /\ image[blk[t]] = Unset
          /\ bufferIn[t] = blk[t]
      BY <2>4 DEF PasteBlock, IInv, TypeOK, HeldInv, PlainInv, Holding
    <3> QED
      BY <2>1, <3>1
  <2>5. UNCHANGED image \/ \E t \in Workers : PasteBlock(t)
    BY DEF Next, Main, NoFilename, HeaderFails, StartThreads, JoinAll, Uncompressor,
           OpenFile, OpenFails, ClaimBlock, ReadBlock, Uncompress, Finished, vars
  <2> QED
    BY <2>3, <2>4, <2>5
<1> QED
  BY <1>1, <1>2, Inductive, PTL DEF Spec, ImplementsFill
=============================================================================
