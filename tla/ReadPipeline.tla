---------------------------- MODULE ReadPipeline ----------------------------
(***************************************************************************)
(* klb_imageIO::readImage and readImageFull (src/klb_imageIO.cpp): the     *)
(* calling thread reads the header if it has none, starts threads that run *)
(* blockUncompressor or blockUncompressorImageFull, joins them and reports *)
(* the first error.  The two differ in the blocks they want: those that    *)
(* meet the region of interest, or all.                                    *)
(*                                                                         *)
(* Each thread opens the file for itself, claims blocks from the shared    *)
(* counter, reads the bytes of a block into bufferFile, decompresses them  *)
(* into bufferIn and pastes that into the image, where no two blocks meet  *)
(* (PasteBlocks).  Pixels are abstracted: what belongs to block b is b.    *)
(***************************************************************************)
EXTENDS Integers

CONSTANTS NumBlocks,        \* header.calculateNumBlocks()
          ThreadsWanted,    \* numThreads of the call, or hardware_concurrency()
          CompressionTypes, \* values header.compressionType may have; OTHER: no value of the enum
          Wants,            \* the sets of blocks a call may want
          Files,            \* how the blocks may be stored in the file
          OpenFaults        \* TRUE: fopen may fail, in a thread or for the header

Blocks == 0 .. NumBlocks - 1

\* A block's bytes are all in the file, some are, none are (a file cut short); or
\* the block was stored empty, because its compression failed.
Kinds == {"whole", "cut", "missing", "empty"}

ASSUME ReadPipelineAssumption ==
    /\ NumBlocks \in Nat \ {0}
    /\ ThreadsWanted \in Nat \ {0}
    /\ CompressionTypes \subseteq {"NONE", "BZIP2", "ZLIB", "OTHER"}
    /\ Wants \subseteq SUBSET Blocks
    /\ Files \subseteq [Blocks -> Kinds]
    /\ OpenFaults \in BOOLEAN

VARIABLES
    \* the calling thread
    pcMain, result,
    headerRead,         \* header.Nb # 0
    \* the file and the call: these do not change
    compressionType, file, wanted,
    \* shared by the threads
    blockId,            \* the atomic counter: next block to claim
    image,              \* the caller's buffer, block by block
    \* the threads
    pc, blk,
    bufferFile,         \* the compressed block, as read
    bufferIn,           \* the decompressed block
    errFlag             \* errFlagVec

mainVars == <<pcMain, result, headerRead>>
callVars == <<compressionType, file, wanted>>
workerVars == <<pc, blk, bufferFile, bufferIn, errFlag>>
vars == <<mainVars, callVars, blockId, image, workerVars>>

-----------------------------------------------------------------------------
NumThreads == IF ThreadsWanted < NumBlocks THEN ThreadsWanted ELSE NumBlocks
Workers == 0 .. NumThreads - 1

NoError == 0
ErrorCodes == {NoError, 2, 3, 5}
Running == -1

\* What the image holds where nothing was pasted; the content of a buffer that is
\* no block's: not initialised, or parts of several.
Unset == -1
Mixed == -2
Contents == Blocks \cup {Mixed}

\* fread: what bufferFile holds after it, given what it held before.  Nobody looks
\* how much was read.
Fetched(b, before) ==
    CASE file[b] = "whole" -> b
      [] file[b] = "cut"   -> Mixed
      [] file[b] \in {"missing", "empty"} -> before

\* The switch on header.compressionType: what bufferIn may hold after it, and the
\* error flag.  A library takes the bytes of another block for good if they are
\* no longer than this block's (bytes behind their end are ignored), and does not
\* if they are longer; it may also run out of memory.  A type that is none of the
\* enum's is an error, and bufferIn is left as it was.
Decoded(c, flag) == IF c = Mixed THEN {} ELSE {[out |-> c, flag |-> flag]}
Failed(before, code) == {[out |-> x, flag |-> code] : x \in {before, Mixed}}
Outcomes(b, c, before, flag) ==
    LET readable == IF file[b] = "empty" THEN Mixed ELSE c
    IN  CASE compressionType = "NONE"  -> {[out |-> c, flag |-> flag]}
          [] compressionType = "BZIP2" -> Decoded(readable, flag) \cup Failed(before, 2)
          [] compressionType = "ZLIB"  -> Decoded(readable, NoError) \cup Failed(before, 3)
          [] compressionType = "OTHER" -> {[out |-> before, flag |-> 5]}

\* A block that is not compressed cannot fail to be; of a type it does not know, the
\* library writes nothing.  (Were there bytes, they would not fit into bufferFile,
\* which has no room for such a type: klb_imageIO.cpp:540, :964, :1621-1623.)
StorableAs(type) ==
    /\ type = "NONE"  => \A b \in Blocks : file[b] # "empty"
    /\ type = "OTHER" => \A b \in Blocks : file[b] = "empty"

-----------------------------------------------------------------------------
Init ==
    /\ pcMain = "call"
    /\ result = Running
    /\ headerRead \in BOOLEAN
    /\ compressionType \in CompressionTypes
    /\ file \in Files
    /\ StorableAs(compressionType)
    /\ wanted \in Wants
    /\ blockId = 0
    /\ image = [b \in Blocks |-> Unset]
    /\ pc = [t \in Workers |-> "off"]
    /\ blk = [t \in Workers |-> 0]
    /\ bufferFile = [t \in Workers |-> Mixed]
    /\ bufferIn = [t \in Workers |-> Mixed]
    /\ errFlag = [t \in Workers |-> NoError]

\* The filename is empty: nothing is tried.
NoFilename ==
    /\ pcMain = "call"
    /\ pcMain' = "returned"
    /\ result' = 3
    /\ UNCHANGED <<headerRead, callVars, blockId, image, workerVars>>

\* readHeader of an object that has no header cannot open the file.  (A header
\* without blocks, which readImage refuses as well, is no header of Files.)
HeaderFails ==
    /\ pcMain = "call"
    /\ ~headerRead
    /\ OpenFaults
    /\ pcMain' = "returned"
    /\ result' = 2
    /\ UNCHANGED <<headerRead, callVars, blockId, image, workerVars>>

StartThreads ==
    /\ pcMain = "call"
    /\ headerRead' = TRUE
    /\ pcMain' = "join"
    /\ pc' = [t \in Workers |-> "open"]
    /\ UNCHANGED <<result, callVars, blockId, image, blk, bufferFile, bufferIn, errFlag>>

\* Mutant of FirstError: only the first thread is asked.
FirstError_FirstThreadOnly == errFlag[0]

\* The loop over errFlagVec: the first error, in the order of the threads.
FirstError ==
    IF \A t \in Workers : errFlag[t] = NoError THEN NoError
    ELSE errFlag[CHOOSE t \in Workers :
                    /\ errFlag[t] # NoError
                    /\ \A s \in Workers : s < t => errFlag[s] = NoError]

\* Mutant of JoinAll: the caller waits for the blocks instead of the threads.
JoinAll_WaitsForBlocks ==
    /\ pcMain = "join"
    /\ \A b \in wanted : image[b] # Unset
    /\ pcMain' = "returned"
    /\ result' = FirstError
    /\ UNCHANGED <<headerRead, callVars, blockId, image, workerVars>>

\* The threads have been joined; the result is the first error of theirs.
JoinAll ==
    /\ pcMain = "join"
    /\ \A t \in Workers : pc[t] = "done"
    /\ pcMain' = "returned"
    /\ result' = FirstError
    /\ UNCHANGED <<headerRead, callVars, blockId, image, workerVars>>

-----------------------------------------------------------------------------
(* The threads: blockUncompressor and blockUncompressorImageFull.          *)

OpenFile(t) ==
    /\ pc[t] = "open"
    /\ pc' = [pc EXCEPT ![t] = "claim"]
    /\ UNCHANGED <<mainVars, callVars, blockId, image, blk, bufferFile, bufferIn, errFlag>>

OpenFails(t) ==
    /\ pc[t] = "open"
    /\ OpenFaults
    /\ errFlag' = [errFlag EXCEPT ![t] = 3]
    /\ pc' = [pc EXCEPT ![t] = "done"]
    /\ UNCHANGED <<mainVars, callVars, blockId, image, blk, bufferFile, bufferIn>>

\* Mutant of ClaimBlock: one id too many is taken for a block's.
ClaimBlock_OneTooMany(t) ==
    /\ pc[t] = "claim"
    /\ blockId' = blockId + 1
    /\ IF blockId <= NumBlocks
       THEN /\ blk' = [blk EXCEPT ![t] = blockId]
            /\ pc' = [pc EXCEPT ![t] = IF blockId \in wanted THEN "read" ELSE "claim"]
       ELSE /\ blk' = blk
            /\ pc' = [pc EXCEPT ![t] = "done"]
    /\ UNCHANGED <<mainVars, callVars, image, bufferFile, bufferIn, errFlag>>

\* atomic_fetch_add, and the test against the region; with no block left, fclose.
ClaimBlock(t) ==
    /\ pc[t] = "claim"
    /\ blockId' = blockId + 1
    /\ IF blockId < NumBlocks
       THEN /\ blk' = [blk EXCEPT ![t] = blockId]
            /\ pc' = [pc EXCEPT ![t] = IF blockId \in wanted THEN "read" ELSE "claim"]
       ELSE /\ blk' = blk
            /\ pc' = [pc EXCEPT ![t] = "done"]
    /\ UNCHANGED <<mainVars, callVars, image, bufferFile, bufferIn, errFlag>>

\* Mutant of ReadBlock: the threads share one FILE, so that another's fseek can come
\* between fseek and fread.
ReadBlock_SharedFile(t) ==
    /\ pc[t] = "read"
    /\ \E s \in Workers :
          /\ pc[s] = "read"
          /\ bufferFile' = [bufferFile EXCEPT ![t] = Fetched(blk[s], @)]
    /\ pc' = [pc EXCEPT ![t] = "uncompress"]
    /\ UNCHANGED <<mainVars, callVars, blockId, image, blk, bufferIn, errFlag>>

\* fseek to the block's offset, and fread of its size.
ReadBlock(t) ==
    /\ pc[t] = "read"
    /\ bufferFile' = [bufferFile EXCEPT ![t] = Fetched(blk[t], @)]
    /\ pc' = [pc EXCEPT ![t] = "uncompress"]
    /\ UNCHANGED <<mainVars, callVars, blockId, image, blk, bufferIn, errFlag>>

Uncompress(t) ==
    /\ pc[t] = "uncompress"
    /\ \E o \in Outcomes(blk[t], bufferFile[t], bufferIn[t], errFlag[t]) :
          /\ bufferIn' = [bufferIn EXCEPT ![t] = o.out]
          /\ errFlag' = [errFlag EXCEPT ![t] = o.flag]
    /\ pc' = [pc EXCEPT ![t] = "paste"]
    /\ UNCHANGED <<mainVars, callVars, blockId, image, blk, bufferFile>>

\* Mutant of PasteBlock: the thread stops after an error, as a broken file would
\* suggest, and leaves the blocks it might still have claimed.
PasteBlock_StopOnError(t) ==
    /\ pc[t] = "paste"
    /\ image' = [image EXCEPT ![blk[t]] = IF errFlag[t] = NoError THEN bufferIn[t] ELSE @]
    /\ pc' = [pc EXCEPT ![t] = IF errFlag[t] = NoError THEN "claim" ELSE "done"]
    /\ UNCHANGED <<mainVars, callVars, blockId, blk, bufferFile, bufferIn, errFlag>>

\* The rows of the block are copied, whatever the library said.
PasteBlock(t) ==
    /\ pc[t] = "paste"
    /\ image' = [image EXCEPT ![blk[t]] = bufferIn[t]]
    /\ pc' = [pc EXCEPT ![t] = "claim"]
    /\ UNCHANGED <<mainVars, callVars, blockId, blk, bufferFile, bufferIn, errFlag>>

-----------------------------------------------------------------------------
Main == NoFilename \/ HeaderFails \/ StartThreads \/ JoinAll

Uncompressor(t) == OpenFile(t) \/ OpenFails(t) \/ ClaimBlock(t) \/ ReadBlock(t)
                   \/ Uncompress(t) \/ PasteBlock(t)

\* The call has returned: nothing is left to happen.
Finished == pcMain = "returned" /\ UNCHANGED vars

Next == Main \/ (\E t \in Workers : Uncompressor(t)) \/ Finished

Spec == Init /\ [][Next]_vars

\* The scheduler runs the caller and every thread; no thread waits for another.
FairSpec == Spec /\ WF_vars(Main) /\ \A t \in Workers : WF_vars(Uncompressor(t))

-----------------------------------------------------------------------------
(* Properties.                                                             *)

TypeOK ==
    /\ pcMain \in {"call", "join", "returned"}
    /\ result \in ErrorCodes \cup {Running}
    /\ headerRead \in BOOLEAN
    /\ compressionType \in CompressionTypes
    /\ file \in Files
    /\ wanted \in Wants
    /\ blockId \in Nat
    /\ image \in [Blocks -> Contents \cup {Unset}]
    /\ pc \in [Workers -> {"off", "open", "claim", "read", "uncompress", "paste", "done"}]
    /\ blk \in [Workers -> Blocks]
    /\ bufferFile \in [Workers -> Contents]
    /\ bufferIn \in [Workers -> Contents]
    /\ errFlag \in [Workers -> ErrorCodes]

\* Without compression, bytes that are not in the file are not missed: nobody looks
\* what fread returned (klb_imageIO.cpp:590, :997).
PastedUnread(b) == compressionType = "NONE" /\ file[b] \in {"cut", "missing"}

\* With it, a block of which no byte is in the file may come out as an earlier one
\* that the thread still has in bufferFile.
PastedAgain(b) ==
    /\ compressionType \in {"BZIP2", "ZLIB"} /\ file[b] = "missing"
    /\ image[b] \in wanted /\ image[b] < b

\* Of zlib, the error of a block is forgotten when a later one is decompressed: the
\* result of inflateInit takes its place (klb_imageIO.cpp:619, :1026).
Forgotten(b) ==
    /\ compressionType = "ZLIB"
    /\ \E c \in wanted : c > b /\ image[c] \in Blocks

\* What a call that returns 0 has done: readKLBstack returns NULL, and
\* readKLBstackInPlace an error, on this alone (klb_Cwrapper.cpp:126-131,
\* :167-171).  Every block it was asked for is in its place, for it was read by
\* one thread whose error would come back (klb_imageIO.cpp:1502-1507), with just
\* three exceptions.  So a file cut short is noticed if it is compressed and ends
\* within a wanted block (but for zlib's later blocks); a block that was stored
\* empty, and a compression type nobody knows, always are, zlib again apart.
SuccessMeansRead ==
    result = NoError =>
        \A b \in wanted : image[b] = b \/ PastedUnread(b) \/ PastedAgain(b) \/ Forgotten(b)

\* A thread that cannot open the file stops at once (klb_imageIO.cpp:503-509); the
\* others take its share: as soon as one of them got as far as to claim a block,
\* the call does not return before every block asked for was processed, whatever
\* else failed.
SurvivorsReadAll ==
    pcMain = "returned" /\ blockId > 0 => \A b \in wanted : image[b] # Unset

\* Seen from the caller, the buffer fills up with the right blocks in any order:
\* the file positions and buffers of the threads do not get mixed up.  This is so
\* of a file that is whole and blocks that are not compressed; otherwise a block
\* may be wrong.
Filling == INSTANCE RegionFill WITH
    Junk <- Unset,
    want <- [b \in wanted |-> b],
    out  <- [b \in wanted |-> image[b]]
Unimpaired == compressionType = "NONE" /\ \A b \in Blocks : file[b] = "whole"
ImplementsFill == Filling!Init /\ [][Unimpaired => Filling!Fill]_vars

\* The call returns, whatever fails.
Termination == <>(pcMain = "returned")
=============================================================================
