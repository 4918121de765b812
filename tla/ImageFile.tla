----------------------------- MODULE ImageFile -----------------------------
(***************************************************************************)
(* klb_imageIO seen from outside (src/klb_imageIO.h, klb_imageIO.cpp): an  *)
(* object is a header and the name of a file, and reads and writes.  The   *)
(* header outlives the call that got it: readImage takes one from the file *)
(* only if the object has none (klb_imageIO.cpp:1464), and nobody compares *)
(* the two.  Several objects may work on a file at a time, each in a       *)
(* thread of its own; the program may end in the middle of a write and be  *)
(* started again.                                                          *)
(*                                                                         *)
(* What the threads of a call do to the blocks is the subject of           *)
(* WritePipeline and ReadPipeline; here a call has a beginning and an end, *)
(* and others' calls come between.                                         *)
(***************************************************************************)
EXTENDS ImageHeader

CONSTANTS Files,        \* names of files
          NoName,       \* filename of an object, or of a header, that has none
          Torn,         \* pixels that are not those of one image
          OK, Error,    \* what calls return: 0, or anything else
          Zlib          \* the images whose headers say zlib

ASSUME ImageFileAssumption ==
    /\ NoName \notin Files
    /\ {Torn, OK, Error} \cap Images = {} /\ OK # Error /\ Torn \notin {OK, Error}
    /\ Zlib \subseteq Images

VARIABLES filename,     \* of each object
          disk,         \* the files: how far each is written, and the image
          busy,         \* the long call each object is in
          result,       \* what its last call returned, and for a read the pixels
          current       \* is the header what its file holds? (no variable of the
                        \* code: nobody knows)

fileVars == <<filename, disk, busy, result, current>>
vars == <<headerVars, fileVars>>

Missing == [state |-> "missing", image |-> NoImage]
EmptyFile == [state |-> "empty", image |-> NoImage]
\* "partial": the table is not written; "damaged": it is, but blocks are missing.
FileContents ==
    [state : {"partial", "damaged", "complete"}, image : Images] \cup {Missing, EmptyFile}

-----------------------------------------------------------------------------
Init ==
    /\ HeaderInit
    /\ filename = [h \in Headers |-> NoName]
    /\ disk = [f \in Files |-> Missing]
    /\ busy = [h \in Headers |-> "no"]
    /\ result = [h \in Headers |-> OK]
    /\ current = [h \in Headers |-> FALSE]

Idle(h) == alive[h] /\ busy[h] = "no"
Return(h, value) == result' = [result EXCEPT ![h] = value]
File(h) == disk[filename[h]]

\* h changes its file, and is now busy with it or not.  Who has read its header does
\* not notice, nor does who is reading it.
Change(h, contents, now) ==
    LET others == {g \in Headers \ {h} : filename[g] = filename[h]}
    IN  /\ disk' = [disk EXCEPT ![filename[h]] = contents]
        /\ current' = [g \in Headers |-> IF g = h THEN now = "no"
                                         ELSE current[g] /\ g \notin others]
        /\ busy' = [g \in Headers |-> IF g = h THEN now
                                      ELSE IF busy[g] = "reading" /\ g \in others THEN "torn"
                                      ELSE busy[g]]

New(h, name) ==
    /\ Construct(h)
    /\ filename' = [filename EXCEPT ![h] = name]
    /\ UNCHANGED <<disk, busy, result, current>>

\* Headers are copied, image objects are not: the copy has no file.
Copy(h, p) == CopyConstruct(h, p) /\ Idle(p) /\ UNCHANGED fileVars

CopyInto(h, p) ==
    /\ Idle(h) /\ Idle(p)
    /\ Assign(h, p)
    /\ current' = [current EXCEPT ![h] = FALSE]
    /\ Return(h, OK)
    /\ UNCHANGED <<filename, disk, busy>>

setFilename(h, name) ==
    /\ Idle(h)
    /\ filename' = [filename EXCEPT ![h] = name]
    /\ current' = [current EXCEPT ![h] = FALSE]
    /\ Return(h, OK)
    /\ UNCHANGED <<headerVars, disk, busy>>

SetHeader(h, img) ==
    /\ Idle(h)
    /\ setHeader(h, img)
    /\ current' = [current EXCEPT ![h] = FALSE]
    /\ Return(h, OK)
    /\ UNCHANGED <<filename, disk, busy>>

Delete(h) ==
    /\ Idle(h)
    /\ Destroy(h)
    /\ filename' = [filename EXCEPT ![h] = NoName]
    /\ current' = [current EXCEPT ![h] = FALSE]
    /\ Return(h, OK)
    /\ UNCHANGED <<disk, busy>>

-----------------------------------------------------------------------------
\* The header of the file, as much of it as there is.
TakeHeader(h) ==
    /\ CASE File(h).state = "empty"   -> readHeaderOfEmptyFile(h)
         [] File(h).state = "partial" -> readHeaderShort(h, File(h).image)
         [] OTHER                     -> readHeader(h, File(h).image)
    /\ current' = [current EXCEPT ![h] = TRUE]

Exists(h) == filename[h] \in Files /\ File(h) # Missing

ReadHeader(h) ==
    /\ Idle(h)
    /\ Exists(h)
    /\ TakeHeader(h)
    /\ Return(h, OK)
    /\ UNCHANGED <<filename, disk, busy>>

\* Mutant of NeedsHeader: the header of the file, whatever the object has.
NeedsHeader_Always(h) == TRUE

NeedsHeader(h) == Nb[h] = 0

\* readImage and readImageFull up to the start of the threads.
StartRead(h) ==
    /\ Idle(h)
    /\ filename[h] # NoName
    /\ IF NeedsHeader(h) THEN Exists(h) /\ TakeHeader(h)
       ELSE UNCHANGED <<headerVars, current>>
    /\ IF Nb'[h] = 0 THEN Return(h, Error) /\ UNCHANGED busy
       ELSE Return(h, OK) /\ busy' = [busy EXCEPT ![h] = "reading"]
    /\ UNCHANGED <<filename, disk>>

\* No filename, or no file: readHeader, or readImage.
NoSuchFile(h) ==
    /\ Idle(h)
    /\ ~Exists(h)
    /\ Return(h, Error)
    /\ UNCHANGED <<headerVars, filename, disk, busy, current>>

\* Do the blocks the header finds make one image?
Readable(h) ==
    /\ busy[h] = "reading"
    /\ File(h) = [state |-> "complete", image |-> image[h]]
    /\ TableOf(h) = image[h]
    /\ Nb[h] = calculateNumBlocks(image[h])

\* The pixels of a read that returns 0.  Of what a wrong header finds, or of a file
\* where blocks are missing, part may look right.  Of zlib, a block that could not be
\* decompressed is forgotten with the next: inflateInit's result takes its place.
Delivered(h) ==
    IF ~Readable(h) THEN {Torn}
    ELSE {image[h]} \cup (IF image[h] \in Zlib THEN {Torn} ELSE {})

\* The threads are joined.  Any of them may have failed to open the file or to
\* decompress, all if there is none.
FinishRead(h) ==
    /\ busy[h] \in {"reading", "torn"}
    /\ \/ Return(h, Error)
       \/ Exists(h) /\ \E pixels \in Delivered(h) : Return(h, pixels)
    /\ busy' = [busy EXCEPT ![h] = "no"]
    /\ UNCHANGED <<headerVars, filename, disk, current>>

-----------------------------------------------------------------------------
\* writeImage and writeImageStackSlices refuse the dimensions, or cannot open the
\* file.
WriteFails(h) ==
    /\ Idle(h)
    /\ Return(h, Error)
    /\ UNCHANGED <<headerVars, filename, disk, busy, current>>

\* fopen empties the file.  Two writers of one file at a time are left out.
StartWrite(h) ==
    /\ Idle(h)
    /\ filename[h] # NoName
    /\ image[h] # NoImage
    /\ \A g \in Headers : busy[g] = "writing" => filename[g] # filename[h]
    /\ resizeOnly(h)
    /\ Change(h, EmptyFile, "writing")
    /\ Return(h, OK)
    /\ UNCHANGED filename

\* The C library empties its buffer: the header, its table not yet filled in, and
\* blocks.
Flush(h) ==
    /\ busy[h] = "writing"
    /\ File(h) = EmptyFile
    /\ Change(h, [state |-> "partial", image |-> image[h]], "writing")
    /\ UNCHANGED <<headerVars, filename, result>>

\* Mutant of FinishWrite: the table goes to the file only.
FinishWrite_TableNotKept(h) ==
    /\ busy[h] = "writing"
    /\ Change(h, [state |-> "complete", image |-> image[h]], "no")
    /\ Return(h, OK)
    /\ UNCHANGED <<headerVars, filename>>

\* blockWriter writes the table, and the threads are joined.  The call may return 0
\* though blocks are missing: of zlib, deflateInit's result takes the place of an
\* earlier block's error, and nobody looks what fwrite wrote.
FinishWrite(h) ==
    /\ busy[h] = "writing"
    /\ fillTable(h)
    /\ \E state \in {"complete", "damaged"}, value \in {OK, Error} :
          /\ state = "complete" => value = OK
          /\ Change(h, [state |-> state, image |-> image[h]], "no")
          /\ Return(h, value)
    /\ UNCHANGED filename

\* The program ends, whatever it was doing, and is started again.
Crash ==
    /\ LoseMemory
    /\ filename' = [h \in Headers |-> NoName]
    /\ busy' = [h \in Headers |-> "no"]
    /\ result' = [h \in Headers |-> OK]
    /\ current' = [h \in Headers |-> FALSE]
    /\ UNCHANGED disk

-----------------------------------------------------------------------------
FileTypeOK ==
    /\ filename \in [Headers -> Files \cup {NoName}]
    /\ disk \in [Files -> FileContents]
    /\ busy \in [Headers -> {"no", "writing", "reading", "torn"}]
    /\ result \in [Headers -> Images \cup {Torn, OK, Error}]
    /\ current \in [Headers -> BOOLEAN]

\* A header that is what its file holds, and one that is being written, has a table
\* of the length its sizes ask for, so the threads that take blocks up to Nb and
\* those that count blocks agree (klb_imageHeader.cpp:189, klb_imageIO.cpp:539,
\* :1261); also if of a file that was too short only the sizes, or not even they,
\* were read (klb_imageHeader.cpp:217).  setHeader changes the sizes alone (:274):
\* writeImage must resize the table before its threads use it.
TableFitsSizes ==
    \A h \in Headers :
        current[h] \/ busy[h] = "writing" => Nb[h] = calculateNumBlocks(image[h])

\* A read that returns 0 delivers what the last write of the file stored, if that
\* write was complete and nothing has happened since the object wrote the file, or
\* read its header: no other write, no setFilename, no setHeader.  In between may be
\* any operation of other objects, reads that failed, crashes in the middle of
\* earlier writes and short files (klb_imageIO.cpp:1464, klb_imageHeader.cpp:217).
\* Of zlib a block may be wrong, for its error is forgotten (klb_imageIO.cpp:619).
ReadsLastWrite ==
    \A h \in Headers :
        current[h] /\ result[h] \in Images \cup {Torn} /\ File(h).state = "complete" =>
            \/ result[h] = File(h).image
            \/ File(h).image \in Zlib /\ result[h] = Torn
=============================================================================
