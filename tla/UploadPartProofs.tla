-------------------------- MODULE UploadPartProofs --------------------------
(***************************************************************************)
(* Proofs about module UploadPart, for bodies of any length.  OkIsStored   *)
(* and BrokenBodyIsRefused are not inductive: whether a 200 can still be   *)
(* sent depends on what the goroutines have read, and on the error status  *)
(* each of them leaves behind before it ends.                              *)
(***************************************************************************)
EXTENDS UploadPart, TLAPS

\* How far the three goroutines are: the handler is never ahead of a reader by
\* more than the block it holds, and both readers saw every block before it is
\* done with the body.
Progress ==
    /\ main = "start" => /\ verifier = "idle" /\ processor = "idle"
                        /\ read = 0 /\ hashed = 0 /\ chunked = 0
                        /\ stored = NoPart /\ status = 0
    /\ main \in {"copy", "close", "wait"} => chunked = read /\ hashed = read
    /\ main = "toVerifier" => hashed + 1 = read /\ chunked + 1 = read
    /\ main = "toProcessor" => hashed = read /\ chunked + 1 = read
    /\ bodyEnd # "more" => hashed = read /\ chunked = read

\* What the ends of the body and of the pipes say.
Ends ==
    /\ bodyEnd = "more" => pipeEnd = "open"
    /\ pipeEnd # "open" => pipeEnd = bodyEnd
    /\ main \in {"start", "copy", "toVerifier", "toProcessor"} => bodyEnd = "more"
    /\ main = "close" => bodyEnd # "more" /\ pipeEnd = "open"
    /\ main = "wait" => bodyEnd = "eof" /\ pipeEnd = "eof"
    /\ bodyEnd = "eof" => read = blocks
    /\ bodyEnd \in {"cut", "failed"} => read < blocks
    /\ processor \in {"commit", "done"} => pipeEnd \in {"eof", "cut"}
    /\ stored # NoPart => processor = "done"

\* Who has answered: a failed goroutine leaves an error status.
Answers ==
    /\ processor = "done" => stored = chunked
    /\ bodyEnd \in {"cut", "failed"} /\ main = "returned" => status = 500
    /\ status = 400 => main = "returned" /\ bodyEnd = "more"
    /\ processor = "failed" => status # 0
    /\ verifier = "done" => pipeEnd # "open"
    /\ verifier = "done" /\ pipeEnd = "eof" /\ ~valid => status # 0
    /\ status = 200 => main = "returned" /\ bodyEnd = "eof" /\ verifier = "done"
    /\ status = 200 => processor = "done" /\ valid

IndInv == TypeOK /\ Progress /\ Ends /\ Answers

-----------------------------------------------------------------------------
\* The initial states of UploadPart satisfy the invariant.
LEMMA InitInv == Init => IndInv
  BY MaxBlocksAssumption DEF Init, IndInv, TypeOK, Progress, Ends, Answers, NoPart

\* Every step of the handler, the verifier and the processor keeps it.
LEMMA StepInv == IndInv /\ [Next]_vars => IndInv'
<1> SUFFICES ASSUME IndInv, [Next]_vars PROVE IndInv'
  OBVIOUS
<1> USE MaxBlocksAssumption DEF IndInv, TypeOK, Progress, Ends, Answers, NoPart
<1>1. CASE Refuse
  BY <1>1 DEF Refuse, Answer
<1>2. CASE Begin
  BY <1>2 DEF Begin
<1>3. CASE ReadBody
  BY <1>3 DEF ReadBody
<1>4. ASSUME NEW how \in {"eof", "cut", "failed"}, EndBody(how) PROVE IndInv'
  BY <1>4 DEF EndBody
<1>5. CASE WriteVerifier
  BY <1>5 DEF WriteVerifier
<1>6. CASE WriteProcessor
  BY <1>6 DEF WriteProcessor
<1>7. CASE CloseWriters
  BY <1>7 DEF CloseWriters, Answer
<1>8. CASE Respond
  BY <1>8 DEF Respond, Answer
<1>9. CASE Verify
  BY <1>9 DEF Verify, Answer, handlerVars
<1>10. CASE ProcessFails
  BY <1>10 DEF ProcessFails, Answer, handlerVars
<1>11. CASE ProcessEnd
  BY <1>11 DEF ProcessEnd, handlerVars
<1>12. CASE PutPart
  BY <1>12 DEF PutPart, handlerVars
<1>13. CASE UNCHANGED vars
  BY <1>13 DEF vars, handlerVars
<1> QED
  BY <1>1, <1>2, <1>3, <1>4, <1>5, <1>6, <1>7, <1>8, <1>9, <1>10, <1>11, <1>12, <1>13
  DEF Next, Main, Processor

\* The invariant holds throughout every run of the handler.
THEOREM Invariance == Spec => []IndInv
  BY InitInv, StepInv, PTL DEF Spec

\* The state of the UploadPart handler is well typed: the readers are never ahead
\* of the body.
THEOREM Types == Spec => []TypeOK
<1>1. IndInv => TypeOK
  BY DEF IndInv
<1> QED
  BY <1>1, Invariance, PTL

\* A client that is answered 200 has its part stored, whole and verified.
THEOREM OkIsStoredAlways == Spec => []OkIsStored
<1>1. IndInv => OkIsStored
  BY DEF IndInv, TypeOK, Progress, Ends, Answers, OkIsStored
<1> QED
  BY <1>1, Invariance, PTL

\* A body that did not arrive whole is answered 500 and never 200, and what is
\* stored of it is at most the shorter body of a cut connection.
THEOREM BrokenBodyAlways == Spec => []BrokenBodyIsRefused
<1>1. IndInv => BrokenBodyIsRefused
  BY DEF IndInv, TypeOK, Progress, Ends, Answers, BrokenBodyIsRefused
<1> QED
  BY <1>1, Invariance, PTL
=============================================================================
