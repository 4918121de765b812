---------------------------- MODULE LibraryCalls ----------------------------
(***************************************************************************)
(* Who uses klb_imageIO: programs that hold objects of their own and do    *)
(* with them what they like, and functions that make an object, use it and *)
(* destroy it, those of the C interface (src/klb_Cwrapper.cpp) and the     *)
(* functions of Matlab (matlabWrapper/*.cpp).  Both kinds share the files. *)
(*                                                                         *)
(* A function is the operations it applies to its object, in their order;  *)
(* after the first that fails it returns, and the object is destroyed.     *)
(* (mexErrMsgTxt leaves a function of Matlab the way an exception does.)   *)
(* Those that make room for what they read do so by the header the object  *)
(* then has; a region has the room its bounds ask for, and readKLB...      *)
(* InPlace what the caller has.  The functions' other arguments (threads,  *)
(* pixel sizes, types, metadata) only go to the header and back.           *)
(***************************************************************************)
EXTENDS ImageFile, Sequences

CONSTANTS Plane,        \* pixels of a slice of an image, in one channel, at one time,
          Planes,       \* how many such slices it has in a channel at a time,
          Channels      \* and channels times time points

ASSUME LibraryCallsAssumption ==
    /\ Plane \in [Images -> Nat \ {0}]
    /\ Planes \in [Images -> Nat \ {0}]
    /\ Channels \in [Images -> Nat \ {0}]
    /\ \A img \in Images : NumBlocksOf[img] # 0    \* what has pixels has blocks

VARIABLE call           \* whom each object belongs to: what is left to do, and
                        \* the pixels there is room for
allVars == <<vars, call>>

-----------------------------------------------------------------------------
\* The functions.  Arguments that are refused are a call that never begins.
writeKLBstack       == <<"setHeader", "writeImage">>
writeKLBstackSlices == <<"setHeader", "writeImage">>
readKLBheader       == <<"readHeader">>
readKLBstack        == <<"readHeader", "malloc", "readImage">>
readKLBstackInPlace == <<"readHeader", "readImage">>
readKLBroiInPlace   == <<"readRegion">>

mexWriteStack == <<"setHeader", "writeImage">>
mexReadHeader == <<"readHeader">>
mexReadStack  == <<"readHeader", "mxCreate", "readImage">>
mexReadSlice  == <<"readHeader", "mxCreate2D", "readSlice">>
mexReadRoi    == <<"readHeader", "mxCreateRegion", "readRegion">>

Functions == {writeKLBstack, writeKLBstackSlices, readKLBheader, readKLBstack,
              readKLBstackInPlace, readKLBroiInPlace,
              mexWriteStack, mexReadHeader, mexReadStack, mexReadSlice, mexReadRoi}

Own == [todo |-> <<>>, room |-> -2]         \* an object the program holds
Given == -1                                 \* the caller made room

\* The pixels of an image, of the slice that defineSlice makes of it (all channels and
\* times), and of the array readKLBslice makes for that.
getImageSizePixels(img) == IF img = NoImage THEN 0 ELSE Plane[img] * Planes[img] * Channels[img]
defineSlicePixels(img) == IF img = NoImage THEN 0 ELSE Plane[img] * Channels[img]
mxSlicePixels(img) == IF img = NoImage THEN 0 ELSE Plane[img]

\* An operation of the program's on its object, or the next of a function.
By(h, op, Operation) ==
    /\ call[h] = Own \/ (call[h].todo # <<>> /\ Head(call[h].todo) = op)
    /\ Operation
    /\ call' = IF call[h] = Own \/ busy'[h] # "no" THEN call
               ELSE [call EXCEPT ![h].todo = IF result'[h] = Error THEN <<>> ELSE Tail(@)]

\* What only programs do.
ByProgram(h, Operation) == call[h] = Own /\ Operation /\ UNCHANGED call

CallsInit == Init /\ call = [h \in Headers |-> Own]

Enter(h, function, name) ==
    /\ New(h, name)
    /\ call' = [call EXCEPT ![h] = [todo |-> function, room |-> Given]]

Leave(h) ==
    /\ call[h].todo = <<>>
    /\ Delete(h)
    /\ call' = [call EXCEPT ![h] = Own]

\* malloc and mxCreateNumericArray of the sizes in the header.  Matlab has no arrays
\* of some types.
MakeRoom(h, op, pixels) ==
    /\ call[h].todo # <<>> /\ Head(call[h].todo) = op
    /\ \/ call' = [call EXCEPT ![h] = [todo |-> Tail(@.todo), room |-> pixels]]
       \/ op # "malloc" /\ call' = [call EXCEPT ![h].todo = <<>>]
    /\ UNCHANGED vars

ReadOps == {"readImage", "readSlice", "readRegion"}

Next ==
    \/ \E h \in Headers :
          \/ \E name \in Files, function \in Functions : Enter(h, function, name)
          \/ Leave(h)
          \/ \E name \in Files \cup {NoName} : ByProgram(h, New(h, name) \/ setFilename(h, name))
          \/ \E p \in Headers : call[p] = Own /\ ByProgram(h, Copy(h, p) \/ CopyInto(h, p))
          \/ \E img \in Images : By(h, "setHeader", SetHeader(h, img))
          \/ By(h, "readHeader", ReadHeader(h) \/ NoSuchFile(h))
          \/ \E op \in {"malloc", "mxCreate"} : MakeRoom(h, op, getImageSizePixels(image[h]))
          \/ MakeRoom(h, "mxCreate2D", mxSlicePixels(image[h]))
          \/ MakeRoom(h, "mxCreateRegion", Given)
          \/ \E op \in ReadOps : By(h, op, StartRead(h) \/ NoSuchFile(h) \/ FinishRead(h))
          \/ By(h, "writeImage", WriteFails(h) \/ StartWrite(h) \/ Flush(h) \/ FinishWrite(h))
    \/ Crash /\ call' = [h \in Headers |-> Own]

Spec == CallsInit /\ [][Next]_allVars

-----------------------------------------------------------------------------
TypeOK ==
    /\ HeaderTypeOK
    /\ FileTypeOK
    /\ \A h \in Headers : call[h] # Own => alive[h]

\* What a function reads fits in what it made room for: the header that says how much
\* there is cannot change in between, since readImage does not ask for one again
\* (klb_imageIO.cpp:1464, :1520).  Two cases are excepted, in which it does not fit: the
\* header was that of an empty file, and is read again (klb_Cwrapper.cpp:125-128); and a
\* slice of an image with several channels or times, for which Matlab's array has
\* two dimensions (readKLBslice.cpp:77-86).
RoomSuffices ==
    \A h \in Headers :
        LET slice == Head(call[h].todo) = "readSlice"
            img == image[h]
        IN  busy[h] \in {"reading", "torn"} /\ call[h].room > 0 =>
                \/ slice /\ Channels[img] > 1
                \/ (IF slice THEN defineSlicePixels(img) ELSE getImageSizePixels(img)) <= call[h].room
=============================================================================
