----------------------------- MODULE UploadPart -----------------------------
(***************************************************************************)
(* The UploadPart handler: it copies the request body into two io.Pipes,   *)
(* one read by a goroutine that verifies the checksums the client sent,    *)
(* the other by a goroutine that runs objectManager.UploadPartStream       *)
(* (modules ChunkStream and ObjectStore).  All three answer through the    *)
(* same ResponseWriter, whose first status is the one that counts.         *)
(*                                                                         *)
(* A pipe has no buffer and neither goroutine closes its reading end, so a *)
(* write to a pipe whose reader has returned waits forever.                *)
(***************************************************************************)
EXTENDS Integers

CONSTANT MaxBlocks   \* bound: the longest body considered, in 64KiB blocks

ASSUME MaxBlocksAssumption == MaxBlocks \in Nat

VARIABLES
    blocks,     \* how many blocks the body the client means to send has
    valid,      \* whether the checksums it sent are those of that body
    main,       \* the handler's own goroutine
    read,       \* how many blocks it has read
    bodyEnd,    \* how the body ended: "eof", "cut" (io.ErrUnexpectedEOF), "failed"
    pipeEnd,    \* what both pipes were closed with, "open" before
    verifier,   \* the goroutine of VerifyChecksums
    hashed,     \* how many blocks it has read
    processor,  \* the goroutine of UploadPartStream
    chunked,    \* how many blocks it has read
    stored,     \* the blocks of the part that is in the metadata, NoPart if none
    status      \* the status of the response, 0 before

handlerVars == <<main, read, bodyEnd, pipeEnd>>
vars == <<blocks, valid, handlerVars, verifier, hashed, processor, chunked, stored, status>>

NoPart == -1

\* WriteHeader: only the first one has an effect.
Answer(code) == status' = IF status = 0 THEN code ELSE status

-----------------------------------------------------------------------------
Init ==
    /\ blocks \in 0 .. MaxBlocks
    /\ valid \in BOOLEAN
    /\ main = "start" /\ read = 0 /\ bodyEnd = "more" /\ pipeEnd = "open"
    /\ verifier = "idle" /\ hashed = 0
    /\ processor = "idle" /\ chunked = 0
    /\ stored = NoPart
    /\ status = 0

\* A malformed request, no such upload, or an upload of another bucket or key.
Refuse ==
    /\ main = "start"
    /\ main' = "returned"
    /\ \E code \in {400, 500} : Answer(code)
    /\ UNCHANGED <<blocks, valid, read, bodyEnd, pipeEnd, verifier, hashed, processor, chunked, stored>>

Begin ==
    /\ main = "start"
    /\ main' = "copy"
    /\ verifier' = "reading"
    /\ processor' = "reading"
    /\ UNCHANGED <<blocks, valid, read, bodyEnd, pipeEnd, hashed, chunked, stored, status>>

\* Mutant of ReadBody: a block is read beyond the announced length.
ReadBodyPastEnd ==
    /\ main = "copy"
    /\ read <= blocks
    /\ read' = read + 1
    /\ main' = "toVerifier"
    /\ UNCHANGED <<blocks, valid, bodyEnd, pipeEnd, verifier, hashed, processor, chunked, stored, status>>

\* io.CopyBuffer reads the next block of the body ...
ReadBody ==
    /\ main = "copy"
    /\ read < blocks
    /\ read' = read + 1
    /\ main' = "toVerifier"
    /\ UNCHANGED <<blocks, valid, bodyEnd, pipeEnd, verifier, hashed, processor, chunked, stored, status>>

\* ... or its end: all is read, or the client broke off.
EndBody(how) ==
    /\ main = "copy"
    /\ how = "eof" => read = blocks
    /\ how # "eof" => read < blocks
    /\ bodyEnd' = how
    /\ main' = "close"
    /\ UNCHANGED <<blocks, valid, read, pipeEnd, verifier, hashed, processor, chunked, stored, status>>

\* io.MultiWriter: the block goes to the verifier first ...
WriteVerifier ==
    /\ main = "toVerifier"
    /\ verifier = "reading"
    /\ hashed' = hashed + 1
    /\ main' = "toProcessor"
    /\ UNCHANGED <<blocks, valid, read, bodyEnd, pipeEnd, verifier, processor, chunked, stored, status>>

\* ... and then to UploadPartStream, if that still reads.
WriteProcessor ==
    /\ main = "toProcessor"
    /\ processor = "reading"
    /\ chunked' = chunked + 1
    /\ main' = "copy"
    /\ UNCHANGED <<blocks, valid, read, bodyEnd, pipeEnd, verifier, hashed, processor, stored, status>>

\* Mutants of CloseWriters: the pipes are closed as after the end of the body;
\* they are not closed.
CloseWithoutError ==
    /\ main = "close"
    /\ pipeEnd' = "eof"
    /\ IF bodyEnd = "eof"
       THEN main' = "wait" /\ UNCHANGED status
       ELSE main' = "returned" /\ Answer(500)
    /\ UNCHANGED <<blocks, valid, read, bodyEnd, verifier, hashed, processor, chunked, stored>>
LeaveWritersOpen ==
    /\ main = "close"
    /\ IF bodyEnd = "eof"
       THEN main' = "wait" /\ UNCHANGED status
       ELSE main' = "returned" /\ Answer(500)
    /\ UNCHANGED <<blocks, valid, read, bodyEnd, pipeEnd, verifier, hashed, processor, chunked, stored>>

\* Both pipes are closed with what the copy returned; after an error the
\* handler answers and returns without waiting for the goroutines.
CloseWriters ==
    /\ main = "close"
    /\ pipeEnd' = bodyEnd
    /\ IF bodyEnd = "eof"
       THEN main' = "wait" /\ UNCHANGED status
       ELSE main' = "returned" /\ Answer(500)
    /\ UNCHANGED <<blocks, valid, read, bodyEnd, verifier, hashed, processor, chunked, stored>>

\* VerifyChecksums has read all there is: a read error or a mismatch is answered.
Verify ==
    /\ verifier = "reading"
    /\ pipeEnd # "open"
    /\ verifier' = "done"
    /\ IF pipeEnd = "eof" /\ valid THEN UNCHANGED status ELSE Answer(500)
    /\ UNCHANGED <<blocks, valid, handlerVars, hashed, processor, chunked, stored>>

\* UploadPartStream fails: the upload is gone, the body failed, or a chunk could
\* not be stored.
ProcessFails ==
    /\ processor \in {"reading", "commit"}
    /\ processor' = "failed"
    /\ Answer(500)
    /\ UNCHANGED <<blocks, valid, handlerVars, verifier, hashed, chunked, stored>>

\* ChunkStream takes io.EOF and io.ErrUnexpectedEOF for the end of the part.
ProcessEnd ==
    /\ processor = "reading"
    /\ pipeEnd \in {"eof", "cut"}
    /\ processor' = "commit"
    /\ UNCHANGED <<blocks, valid, handlerVars, verifier, hashed, chunked, stored, status>>

\* metadata.PutPart.
PutPart ==
    /\ processor = "commit"
    /\ processor' = "done"
    /\ stored' = chunked
    /\ UNCHANGED <<blocks, valid, handlerVars, verifier, hashed, chunked, status>>

\* Mutant of Respond: wg.Wait() is missing.
RespondWithoutWait ==
    /\ main = "wait"
    /\ main' = "returned"
    /\ Answer(200)
    /\ UNCHANGED <<blocks, valid, read, bodyEnd, pipeEnd, verifier, hashed, processor, chunked, stored>>

\* wg.Wait(), then the response.
Respond ==
    /\ main = "wait"
    /\ verifier = "done"
    /\ processor \in {"done", "failed"}
    /\ main' = "returned"
    /\ Answer(200)
    /\ UNCHANGED <<blocks, valid, read, bodyEnd, pipeEnd, verifier, hashed, processor, chunked, stored>>

Main ==
    \/ Refuse \/ Begin \/ ReadBody
    \/ \E how \in {"eof", "cut", "failed"} : EndBody(how)
    \/ WriteVerifier \/ WriteProcessor \/ CloseWriters \/ Respond

Processor == ProcessFails \/ ProcessEnd \/ PutPart

Next == Main \/ Verify \/ Processor

\* The goroutines run, and the client sends its body or breaks off.  A backend
\* or database call of UploadPartStream returns; when the body ended with an
\* error it can only return one.
Spec ==
    /\ Init /\ [][Next]_vars
    /\ WF_vars(Main) /\ WF_vars(Verify)
    /\ WF_vars(ProcessEnd \/ PutPart \/ (pipeEnd = "failed" /\ ProcessFails))

-----------------------------------------------------------------------------
(***************************************************************************)
(* Properties.                                                             *)
(***************************************************************************)

\* The types; the readers are never ahead of the body.
TypeOK ==
    /\ blocks \in 0 .. MaxBlocks /\ valid \in BOOLEAN
    /\ main \in {"start", "copy", "toVerifier", "toProcessor", "close", "wait", "returned"}
    /\ read \in 0 .. blocks
    /\ bodyEnd \in {"more", "eof", "cut", "failed"}
    /\ pipeEnd \in {"open", "eof", "cut", "failed"}
    /\ verifier \in {"idle", "reading", "done"} /\ hashed \in 0 .. read
    /\ processor \in {"idle", "reading", "commit", "done", "failed"} /\ chunked \in 0 .. hashed
    /\ stored \in {NoPart} \cup 0 .. blocks
    /\ status \in {0, 200, 400, 500}

\* A client that is answered 200 has its part stored, whole and with the
\* checksums it sent: the ETag in the answer is never that of a part that failed.
OkIsStored == status = 200 => stored = blocks /\ valid

\* A body that did not arrive whole is answered 500, never 200, whichever of the
\* three goroutines answers first.  One that ended with another error than
\* io.ErrUnexpectedEOF leaves no part behind; one that was cut, which is how
\* net/http reports that the client went away, may leave a part, and then it is
\* the shorter body that had arrived: ChunkStream takes that error for the end of
\* the data (UploadPart, chunker/service.go:106).
BrokenBodyIsRefused ==
    bodyEnd \in {"cut", "failed"} =>
        /\ status \in {0, 500}
        /\ main = "returned" => status = 500
        /\ stored # NoPart => bodyEnd = "cut" /\ stored = read /\ read < blocks

\* The handler returns, provided that UploadPartStream reads the body to its end.
Returns == <>(main = "returned") \/ <>(processor = "failed")

\* docs/S3.md:167: "All S3 errors are returned as XML with status codes".  The
\* error of UploadPartStream is returned to the client only when the handler
\* returns.
ErrorIsReturned == (processor = "failed") ~> (main = "returned")
=============================================================================
