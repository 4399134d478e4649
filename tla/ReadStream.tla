----------------------------- MODULE ReadStream -----------------------------
(***************************************************************************)
(* The download path: the GetObject handler, the goroutine of              *)
(* streamRangeFromChunks that cuts the requested range out of the object,  *)
(* and the goroutine of CollectChunksStream that restores the chunks one   *)
(* after the other.  They are connected by two io.Pipes.                   *)
(*                                                                         *)
(* An io.Pipe has no buffer: a write waits until its bytes are read or the *)
(* reading end is closed, a read waits for a write or for the closing of   *)
(* the writing end.  A transfer is therefore one step of both sides.       *)
(*                                                                         *)
(* A byte of the body is its position in the object, so that what the      *)
(* client gets can be compared with what it asked for.                     *)
(***************************************************************************)
EXTENDS Integers, Sequences, FiniteSets

CONSTANTS
    ChunkLists,   \* the chunk lists an object may have: where each chunk's data ends
    Sizes,        \* the sizes the metadata may record
    MaxInt,       \* the largest int64: the largest bound a Range may name
    Buffer,       \* the size of io.Copy's buffer
    ErrorParts    \* lengths of the writes of an XML error: xml.Header, payload

ASSUME ChunkListsAssumption ==
    \A s \in ChunkLists :
        /\ s \in Seq(Nat \ {0})
        /\ \A i, j \in 1 .. Len(s) : i < j => s[i] < s[j]
ASSUME SizesAssumption == Sizes \subseteq 0 .. MaxInt
ASSUME MaxIntAssumption == MaxInt \in Nat
ASSUME BufferAssumption == Buffer \in Nat \ {0}
ASSUME ErrorPartsAssumption == ErrorParts \in (Nat \ {0}) \X (Nat \ {0})

VARIABLES
    chunks,    \* obj.Chunks: chunks[k] is the position after the last byte of chunk k
    size,      \* obj.Size, which a torn read may take from another version
    part,      \* whether the request names a part
    range,     \* the Range header: <<>> or the two numbers it names
    status,    \* the status code sent, 0 before
    begin,     \* begin of streamRangeFromChunks
    length,    \* length of streamRangeFromChunks, the Content-Length sent
    source,    \* the goroutine of CollectChunksStream
    emitted,   \* how many bytes it has written to the inner pipe
    left,      \* how many bytes of its current Write are not yet read
    cutter,    \* the goroutine of streamRangeFromChunks
    taken,     \* how many bytes the current io.CopyN has taken
    held,      \* the bytes it has read and not yet written
    innerEnd,  \* what the writer of the inner pipe closed it with
    innerOpen, \* whether the inner pipe's reading end is open
    outerEnd,  \* what the writer of the outer pipe closed it with
    outerOpen, \* whether the outer pipe's reading end is open
    handler,   \* the GetObject handler
    packet,    \* the bytes the handler has read and not yet written
    body       \* what was written to the response: positions, and XML for error text

object == <<chunks, size, part, range>>
reply == <<status, begin, length>>
sourceVars == <<source, emitted, left>>
cutterVars == <<cutter, taken, held>>
ends == <<innerEnd, innerOpen, outerEnd, outerOpen>>
handlerVars == <<handler, packet, body>>
vars == <<object, reply, sourceVars, cutterVars, ends, handlerVars>>

\* The bytes of the chunks before the k-th.
Before(k) == IF k = 1 THEN 0 ELSE chunks[k - 1]
Stored == Before(Len(chunks) + 1)

\* A byte of an error's text.
XML == -1

\* The k bytes from position p on.
Bytes(p, k) == [i \in 1 .. k |-> p + i - 1]

-----------------------------------------------------------------------------
(***************************************************************************)
(* The request.                                                            *)
(***************************************************************************)

\* int64 addition.
Wrap(x) == IF x > MaxInt THEN x - 2 * (MaxInt + 1) ELSE x

\* ParseContentRangeHeader: end = inclusiveEnd + 1
RangeEnd == Wrap(range[2] + 1)

\* The handler's check of a Range header against obj.Size.
Unsatisfiable ==
    /\ range # <<>>
    /\ range[1] < 0 \/ range[1] >= RangeEnd \/ RangeEnd > size

Start == IF range = <<>> THEN 0 ELSE range[1]
\* normalizeRange: an end of 0 stands for the whole.
End == IF range = <<>> THEN size ELSE RangeEnd

\* normalizeRange's errors.
OutOfBounds == Start > size \/ End < Start \/ End > size

Init ==
    /\ chunks \in ChunkLists
    /\ size \in Sizes
    /\ part \in BOOLEAN
    /\ range \in {<<>>} \cup ((0 .. MaxInt) \X (0 .. MaxInt))
    /\ status = 0 /\ begin = 0 /\ length = 0
    /\ source = "idle" /\ emitted = 0 /\ left = 0
    /\ cutter = "idle" /\ taken = 0 /\ held = <<>>
    /\ innerEnd = "open" /\ innerOpen = TRUE
    /\ outerEnd = "open" /\ outerOpen = TRUE
    /\ handler = "start" /\ packet = <<>> /\ body = <<>>

\* An error before anything was sent: status and XML, no stream is created.  A
\* part is never found: GetMultipartUploadByLocation returns a newly generated
\* upload id.
Refuse ==
    /\ handler = "start"
    /\ \/ Unsatisfiable /\ status' = 416
       \/ ~Unsatisfiable /\ part /\ status' = 500
    /\ body' = <<XML>>
    /\ handler' = "done"
    /\ UNCHANGED <<object, begin, length, sourceVars, cutterVars, ends, packet>>

\* GetDataStream starts both goroutines; WriteResponseStream sends the status
\* and the headers, Content-Length among them.  What the handler lets through
\* normalizeRange accepts: the handler would be stuck here otherwise.
Respond ==
    /\ handler = "start"
    /\ ~Unsatisfiable /\ ~part /\ ~OutOfBounds
    /\ begin' = Start
    /\ length' = End - Start
    /\ status' = IF range = <<>> THEN 200 ELSE 206
    /\ source' = "collect"
    /\ cutter' = "skip"
    /\ handler' = "copy"
    /\ UNCHANGED <<object, emitted, left, taken, held, ends, packet, body>>

-----------------------------------------------------------------------------
(***************************************************************************)
(* The goroutine of CollectChunksStream.                                   *)
(***************************************************************************)

\* The chunk after those that have been written completely.
Current == Cardinality({k \in 1 .. Len(chunks) : chunks[k] <= emitted}) + 1

\* The next chunk is collected, decrypted and decompressed, and its bytes are
\* offered to the reader.
CollectChunk ==
    /\ source = "collect"
    /\ Current <= Len(chunks)
    /\ left' = chunks[Current] - Before(Current)
    /\ source' = "write"
    /\ UNCHANGED <<object, reply, emitted, cutterVars, ends, handlerVars>>

\* Mutant of CollectFails: the pipe is closed without the error.
CollectFailsSilently ==
    /\ source = "collect"
    /\ Current <= Len(chunks)
    /\ source' = "done"
    /\ innerEnd' = "eof"
    /\ UNCHANGED <<object, reply, emitted, left, cutterVars, innerOpen, outerEnd, outerOpen, handlerVars>>

\* Too few shards, a decryption or a decompression error.
CollectFails ==
    /\ source = "collect"
    /\ Current <= Len(chunks)
    /\ source' = "done"
    /\ innerEnd' = "error"
    /\ UNCHANGED <<object, reply, emitted, left, cutterVars, innerOpen, outerEnd, outerOpen, handlerVars>>

\* All chunks are written: the deferred pw.Close().
CollectEnd ==
    /\ source = "collect"
    /\ Current > Len(chunks)
    /\ source' = "done"
    /\ innerEnd' = "eof"
    /\ UNCHANGED <<object, reply, emitted, left, cutterVars, innerOpen, outerEnd, outerOpen, handlerVars>>

\* The reader has closed the pipe: pw.Write returns io.ErrClosedPipe.
SourceWriteFails ==
    /\ source = "write"
    /\ ~innerOpen
    /\ source' = "done"
    /\ innerEnd' = "error"
    /\ left' = 0
    /\ UNCHANGED <<object, reply, emitted, cutterVars, innerOpen, outerEnd, outerOpen, handlerVars>>

-----------------------------------------------------------------------------
(***************************************************************************)
(* The goroutine of streamRangeFromChunks.                                 *)
(***************************************************************************)

\* A transfer over the inner pipe of k bytes, which the current Write offers.
Transfer(k) ==
    /\ source = "write"
    /\ k <= left
    /\ emitted' = emitted + k
    /\ left' = left - k
    /\ source' = IF k = left THEN "collect" ELSE "write"

\* Mutant of Skip: the bytes taken are not counted.
SkipUncounted(k) ==
    /\ cutter = "skip"
    /\ k <= begin - taken
    /\ Transfer(k)
    /\ taken' = begin
    /\ UNCHANGED <<object, reply, cutter, held, ends, handlerVars>>

\* io.CopyN(io.Discard, base, begin): nothing to do when begin is 0.
Skip(k) ==
    /\ cutter = "skip"
    /\ k <= begin - taken
    /\ Transfer(k)
    /\ taken' = taken + k
    /\ UNCHANGED <<object, reply, cutter, held, ends, handlerVars>>

SkipDone ==
    /\ cutter = "skip"
    /\ taken = begin
    /\ taken' = 0
    /\ cutter' = IF length = 0 THEN "closePipe" ELSE "copy"
    /\ UNCHANGED <<object, reply, sourceVars, held, ends, handlerVars>>

\* io.CopyN(pw, base, length): the next read from base.
CopyRead(k) ==
    /\ cutter = "copy"
    /\ held = <<>>
    /\ k <= length - taken
    /\ Transfer(k)
    /\ held' = Bytes(emitted, k)
    /\ taken' = taken + k
    /\ UNCHANGED <<object, reply, cutter, ends, handlerVars>>

\* The inner pipe ends before CopyN has what it wants: an error is passed on,
\* the end of the chunks is not an error.
BaseEnds ==
    /\ \/ cutter = "skip" /\ taken < begin
       \/ cutter = "copy" /\ taken < length /\ held = <<>>
    /\ innerEnd # "open"
    /\ outerEnd' = IF innerEnd = "error" THEN "error" ELSE outerEnd
    /\ cutter' = "closePipe"
    /\ UNCHANGED <<object, reply, sourceVars, taken, held, innerEnd, innerOpen, outerOpen, handlerVars>>

\* The handler has closed its end: pw.Write returns io.ErrClosedPipe.
CutterWriteFails ==
    /\ cutter = "copy"
    /\ held # <<>>
    /\ ~outerOpen
    /\ held' = <<>>
    /\ outerEnd' = "error"
    /\ cutter' = "closePipe"
    /\ UNCHANGED <<object, reply, sourceVars, taken, innerEnd, innerOpen, outerOpen, handlerVars>>

CopyDone ==
    /\ cutter = "copy"
    /\ taken = length
    /\ held = <<>>
    /\ cutter' = "closePipe"
    /\ UNCHANGED <<object, reply, sourceVars, taken, held, ends, handlerVars>>

\* The deferred pw.Close(): no effect after CloseWithError.
ClosePipe ==
    /\ cutter = "closePipe"
    /\ outerEnd' = IF outerEnd = "open" THEN "eof" ELSE outerEnd
    /\ cutter' = "closeBase"
    /\ UNCHANGED <<object, reply, sourceVars, taken, held, innerEnd, innerOpen, outerOpen, handlerVars>>

\* Mutant of CloseBase: the deferred base.Close() is missing.
CloseBaseMissing ==
    /\ cutter = "closeBase"
    /\ cutter' = "done"
    /\ UNCHANGED <<object, reply, sourceVars, taken, held, ends, handlerVars>>

\* The deferred base.Close().
CloseBase ==
    /\ cutter = "closeBase"
    /\ innerOpen' = FALSE
    /\ cutter' = "done"
    /\ UNCHANGED <<object, reply, sourceVars, taken, held, innerEnd, outerEnd, outerOpen, handlerVars>>

-----------------------------------------------------------------------------
(***************************************************************************)
(* The handler: io.Copy(w, dataStream).                                    *)
(***************************************************************************)
HandlerRead(k) ==
    /\ handler = "copy"
    /\ packet = <<>>
    /\ k <= Len(held)
    /\ packet' = SubSeq(held, 1, k)
    /\ held' = SubSeq(held, k + 1, Len(held))
    /\ UNCHANGED <<object, reply, sourceVars, cutter, taken, ends, handler, body>>

HandlerWrite ==
    /\ handler = "copy"
    /\ packet # <<>>
    /\ body' = body \o packet
    /\ packet' = <<>>
    /\ UNCHANGED <<object, reply, sourceVars, cutterVars, ends, handler>>

\* The client is gone: the write fails, and so do the writes of writeS3Error.
HandlerWriteFails ==
    /\ handler = "copy"
    /\ packet # <<>>
    /\ packet' = <<>>
    /\ handler' = "clientGone"
    /\ UNCHANGED <<object, reply, sourceVars, cutterVars, ends, body>>

\* The stream ends, with or without an error.
HandlerEnd ==
    /\ handler = "copy"
    /\ packet = <<>> /\ held = <<>>
    /\ outerEnd # "open"
    /\ handler' = IF outerEnd = "error" THEN "error" ELSE "sent"
    /\ UNCHANGED <<object, reply, sourceVars, cutterVars, ends, packet, body>>

\* net/http drops a write that exceeds the Content-Length.
Accepted(b, k) == IF Len(b) + k > length THEN b ELSE b \o [i \in 1 .. k |-> XML]

\* writeS3Error after the status has been sent: WriteHeader has no effect any
\* more, the XML is appended to the body.
HandlerError ==
    /\ handler = "error"
    /\ body' = Accepted(Accepted(body, ErrorParts[1]), ErrorParts[2])
    /\ handler' = "failed"
    /\ UNCHANGED <<object, reply, sourceVars, cutterVars, ends, packet>>

\* The deferred dataStream.Close().
CloseData ==
    /\ handler \in {"sent", "failed", "clientGone"}
    /\ outerOpen
    /\ outerOpen' = FALSE
    /\ UNCHANGED <<object, reply, sourceVars, cutterVars, innerEnd, innerOpen, outerEnd, handlerVars>>

Finished == source = "done" /\ cutter = "done" /\ ~outerOpen

Terminated ==
    /\ handler = "done" \/ Finished
    /\ UNCHANGED vars

SourceStep == CollectChunk \/ CollectEnd \/ CollectFails \/ SourceWriteFails
CutterStep ==
    \/ \E k \in 1 .. Buffer : Skip(k) \/ CopyRead(k)
    \/ SkipDone \/ BaseEnds \/ CutterWriteFails \/ CopyDone \/ ClosePipe \/ CloseBase
HandlerStep ==
    \/ Refuse \/ Respond
    \/ \E k \in 1 .. Buffer : HandlerRead(k)
    \/ HandlerWrite \/ HandlerWriteFails \/ HandlerEnd \/ HandlerError \/ CloseData

Next == SourceStep \/ CutterStep \/ HandlerStep \/ Terminated

\* The three goroutines run; collecting a chunk and writing to the client
\* return, with an error at worst.
Spec == Init /\ [][Next]_vars /\ WF_vars(SourceStep) /\ WF_vars(CutterStep) /\ WF_vars(HandlerStep)

-----------------------------------------------------------------------------
(***************************************************************************)
(* Properties.                                                             *)
(***************************************************************************)

\* docs/S3.md: "Download an object with range request support".  Whatever the
\* three goroutines do, the i-th byte of the response is the i-th byte of the
\* range that was asked for, if it is not of an error's text.
BodyIsRange ==
    \A i \in 1 .. Len(body) :
        body[i] # XML =>
            /\ body[i] = (IF range = <<>> THEN 0 ELSE range[1]) + i - 1
            /\ range # <<>> => body[i] <= range[2]

\* A response that ends without an error is the whole range, if the chunks hold
\* what the metadata's size says: a chunk that cannot be restored never looks
\* like the end of the object.
CleanEndIsWhole ==
    (handler = "sent" /\ Stored = size) =>
        /\ Len(body) = length
        /\ length = IF range = <<>> THEN size ELSE range[2] - range[1] + 1

\* Both goroutines end and the pipes are closed, also when the client leaves in
\* the middle, when a chunk cannot be restored and when a range was asked for.
NoLeak == <>(handler = "done" \/ Finished)
=============================================================================
