----------------------------- MODULE JniBridge -----------------------------
(***************************************************************************)
(* The calls from Java into the library: KLBJNI.java, its native functions *)
(* (src/jni/org_janelia_simview_klb_KLBJNI.cpp) and the C functions they   *)
(* use (src/klb_Cwrapper.cpp).                                             *)
(*                                                                         *)
(* Native code works on arrays of Java through pointers the virtual        *)
(* machine lends it: to the array itself, or to a copy that comes back     *)
(* when the pointer is released with mode 0, and is lost with JNI_ABORT.   *)
(* Which of the two it is, the virtual machine decides at each call.       *)
(*                                                                         *)
(* There is one file, and one call at a time.  The variants for byte,      *)
(* short, int, long, float and double arrays and for direct buffers are    *)
(* one here; a direct buffer is lent like an array that is not copied.     *)
(***************************************************************************)
EXTENDS Integers

CONSTANTS Images,       \* images of one size
          ROIs,         \* regions that may be asked for,
          Whole,        \* and the whole image
          BlockSizes,   \* block sizes a caller may ask for,
          Optimal,      \* the default one,
          ImageSize,    \* and the size of the images
          Metadata,     \* metadata a caller may pass,
          Zeroes,       \* and what is stored if there is none
          NULL,         \* nothing: no file, no argument, an array of Java zeros
          Junk          \* memory nobody wrote, or parts of different things

ASSUME JniBridgeAssumption ==
    /\ NULL # Junk
    /\ {NULL, Junk, Optimal, ImageSize} \cap BlockSizes = {}
    /\ {NULL, Junk, Zeroes} \cap Metadata = {}
    /\ Whole \notin ROIs

VARIABLES file,         \* the file on disk
          pixels,       \* the Java array: an image or a region of it
          header,       \* the Java object Header and its arrays
          running,      \* who runs: "java", or native code: "work", "release"
          call,         \* the native function and its arguments
          lent,         \* the arrays lent to it: array -> is it a copy?
          native,       \* the copies
          errid         \* what the last call returned

jniVars == <<file, pixels, header, running, call, lent, native, errid>>

-----------------------------------------------------------------------------
NoError == 0
Errors == {2, 3, 5}
Pixels == (Images \X (ROIs \cup {Whole})) \cup {NULL, Junk}
Returned == [a \in {} |-> FALSE]
Blank == [image |-> NULL, blockSize |-> NULL, metadata |-> NULL]

JniInit ==
    /\ file = NULL
    /\ pixels = NULL
    /\ header = Blank
    /\ running = "java"
    /\ call = [function |-> "none"]
    /\ lent = Returned
    /\ native = [pixels |-> NULL, header |-> Blank]
    /\ errid = NoError

\* The Java program makes an image.
MakeImage ==
    /\ running = "java"
    /\ \E img \in Images : pixels' = <<img, Whole>>
    /\ UNCHANGED <<file, header, running, call, lent, native, errid>>

\* A native function is called and borrows arrays.
Enter(function, arrays) ==
    /\ running = "java"
    /\ running' = "work"
    /\ call' = function
    /\ lent' \in [arrays -> BOOLEAN]
    /\ native' = [pixels |-> pixels, header |-> header']
    /\ UNCHANGED <<file, pixels, errid>>

CallReadHeader ==
    /\ header' = Blank
    /\ Enter([function |-> "jniReadHeader"], {"header"})

\* jniReadFull asks for the whole image, jniReadROI for a region.
CallRead ==
    /\ UNCHANGED header
    /\ \E R \in ROIs \cup {Whole} :
          Enter([function |-> "jniRead", region |-> R], {"pixels"})

CallWriteFull ==
    /\ \E img \in Images : pixels = <<img, Whole>>
    /\ UNCHANGED header
    /\ \E b \in BlockSizes \cup {NULL}, m \in Metadata \cup {NULL} :
          Enter([function |-> "jniWriteFull", blockSize |-> b, metadata |-> m], {"pixels"})

-----------------------------------------------------------------------------
\* What native code sees in an array it was lent, and leaves there.
Sees(array) ==
    IF lent[array] THEN native[array]
    ELSE IF array = "pixels" THEN pixels ELSE header
Leaves(array, value) ==
    /\ native' = IF lent[array] THEN [native EXCEPT ![array] = value] ELSE native
    /\ pixels' = IF array = "pixels" /\ ~lent[array] THEN value ELSE pixels
    /\ header' = IF array = "header" /\ ~lent[array] THEN value ELSE header

Work(function) ==
    /\ running = "work"
    /\ call.function = function
    /\ running' = "release"
    /\ UNCHANGED <<call, lent>>

\* readKLBheader.  After an error the variables that were to receive the sizes are
\* copied to the arrays all the same.
jniReadHeader ==
    /\ Work("jniReadHeader")
    /\ \/ /\ file # NULL
          /\ Leaves("header", file.header)
          /\ errid' = NoError
       \/ /\ Leaves("header", [Sees("header") EXCEPT !.image = Junk, !.blockSize = Junk])
          /\ errid' = 2
    /\ UNCHANGED file

\* readKLBstackInPlace and readKLBroiInPlaceConvertJlong.  Before an error, all,
\* some or none of the pixels may have been read.
jniRead ==
    /\ Work("jniRead")
    /\ \/ /\ file # NULL
          /\ Leaves("pixels", IF file.image = Junk THEN Junk ELSE <<file.image, call.region>>)
          /\ errid' = NoError
       \/ /\ \E value \in {Sees("pixels"), Junk} : Leaves("pixels", value)
          /\ errid' \in Errors
    /\ UNCHANGED file

\* The block size that is passed on: tmp holds the size of the image instead, and
\* is out of scope when it is used.
blksize == IF call.blockSize = NULL THEN {Optimal} ELSE {ImageSize, Junk}

\* writeKLBstack.  No metadata is passed on.  After an error the file is the old
\* one, or one that lacks something.
jniWriteFull ==
    /\ Work("jniWriteFull")
    /\ \/ /\ \E b \in blksize :
                file' = [image  |-> Sees("pixels")[1],
                         header |-> [image |-> ImageSize, blockSize |-> b, metadata |-> Zeroes]]
          /\ errid' = NoError
       \/ /\ \/ file' = file
             \/ \E b \in blksize :
                   file' = [image  |-> Junk,
                            header |-> [image |-> ImageSize, blockSize |-> b, metadata |-> Zeroes]]
          /\ errid' \in Errors
    /\ UNCHANGED <<pixels, header, native>>

-----------------------------------------------------------------------------
\* Mutant of CopiedBack: the two modes of jniRead are exchanged.
CopiedBack_Exchanged(array) ==
    \/ call.function = "jniReadHeader"
    \/ call.function = "jniRead" /\ ~lent[array]

\* Release...ArrayElements with mode 0: jniReadHeader always, jniRead if the array
\* was copied; with JNI_ABORT otherwise.
CopiedBack(array) ==
    \/ call.function = "jniReadHeader"
    \/ call.function = "jniRead" /\ lent[array]

ReleaseArrays ==
    /\ running = "release"
    /\ pixels' = IF "pixels" \in DOMAIN lent /\ lent["pixels"] /\ CopiedBack("pixels")
                 THEN native.pixels ELSE pixels
    /\ header' = IF "header" \in DOMAIN lent /\ lent["header"] /\ CopiedBack("header")
                 THEN native.header ELSE header
    /\ lent' = Returned
    /\ running' = "java"
    /\ UNCHANGED <<file, call, native, errid>>

JniNext ==
    \/ MakeImage \/ CallReadHeader \/ CallRead \/ CallWriteFull
    \/ jniReadHeader \/ jniRead \/ jniWriteFull
    \/ ReleaseArrays

JniSpec == JniInit /\ [][JniNext]_jniVars

-----------------------------------------------------------------------------
\* What a successful call read from the file is in the Java array or object when
\* the call returns, and a call that writes leaves them alone, whether the virtual
\* machine lent the array or a copy (KLBJNI.cpp:28-32, :48-53, :377).
ResultsArrive ==
    [][ running = "release" /\ running' = "java" /\ errid = NoError =>
          /\ call.function = "jniRead" =>
                pixels' = IF file.image = Junk THEN Junk ELSE <<file.image, call.region>>
          /\ call.function = "jniReadHeader" => header' = file.header
          /\ call.function = "jniWriteFull" => pixels' = pixels /\ header' = header ]_jniVars

Written == running = "release" /\ call.function = "jniWriteFull" /\ errid = NoError

\* A file is written with the block size and the metadata it was to be written
\* with: "Size of KLB blocks (units that are de-/compressed in parallel)"
\* (KLB.java:55), and "character block providing space for user-defined metadata"
\* (README.md:51).
ArgumentsStored ==
    Written =>
        /\ call.blockSize # NULL => file.header.blockSize = call.blockSize
        /\ call.metadata # NULL => file.header.metadata = call.metadata
=============================================================================
