------------------------------- MODULE Upload -------------------------------
(***************************************************************************)
(* What chunker.ChunkStream promises its callers: blobs are stored until   *)
(* it is decided how the call ends; a success returns the number of chunks *)
(* and leaves exactly the blobs of these chunks; a failure only deletes    *)
(* blobs from then on; nothing changes after the return.                   *)
(***************************************************************************)
EXTENDS Integers

CONSTANTS
    Chunks,    \* the ordinals of the chunks, from 0
    Backends   \* the backends, each with one blob of every chunk

VARIABLES
    phase,    \* "open", "discarding", "ok" or "error"
    blobs,    \* the blobs on the backends
    length    \* the number of chunks a success returned, 0 before

vars == <<phase, blobs, length>>

Whole(n) == {c \in Chunks : c < n} \X Backends

Init == phase = "open" /\ blobs = {} /\ length = 0

Store ==
    /\ phase = "open"
    /\ \E b \in Chunks \X Backends : blobs' = blobs \cup {b}
    /\ UNCHANGED <<phase, length>>

Succeed ==
    /\ phase = "open" /\ phase' = "ok"
    /\ length' \in {0} \cup {c + 1 : c \in Chunks}
    /\ blobs = Whole(length')
    /\ UNCHANGED blobs

Fail ==
    /\ phase = "open" /\ phase' = "discarding"
    /\ UNCHANGED <<blobs, length>>

Discard ==
    /\ phase = "discarding"
    /\ \E b \in blobs : blobs' = blobs \ {b}
    /\ UNCHANGED <<phase, length>>

ReturnError ==
    /\ phase = "discarding" /\ phase' = "error"
    /\ UNCHANGED <<blobs, length>>

Next == Store \/ Succeed \/ Fail \/ Discard \/ ReturnError

Spec == Init /\ [][Next]_vars
=============================================================================
