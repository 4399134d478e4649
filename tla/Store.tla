-------------------------------- MODULE Store --------------------------------
(***************************************************************************)
(* What the object manager promises: a key has no object or one made of    *)
(* whole bodies.  A PutObject replaces it by its own body, the completion  *)
(* of a multipart upload by bodies of parts, each from its first to its    *)
(* last chunk; a deletion removes it.  Every one of these changes is one   *)
(* step, and there are no others.                                          *)
(***************************************************************************)
EXTENDS Integers

CONSTANTS
    Buckets, Keys,
    Writers,      \* the bodies written
    ChunkCount,   \* ChunkCount[w]: the chunks <<w, 1>>, <<w, 2>> ... of body w
    Absent        \* no object, no single body

VARIABLE content  \* content[l]: the object at l, as [body, chunks], or Absent

Locations == Buckets \X Keys
Body(w) == [i \in 1 .. ChunkCount[w] |-> <<w, i>>]

\* s is made of whole bodies, none of them twice.
WholeBodies(s) ==
    /\ \A i, j \in DOMAIN s : s[i] = s[j] => i = j
    /\ \A i \in DOMAIN s :
          LET w == s[i][1]
              n == s[i][2]
          IN  /\ n > 1 => i > 1 /\ s[i - 1] = <<w, n - 1>>
              /\ n < ChunkCount[w] => i + 1 \in DOMAIN s /\ s[i + 1] = <<w, n + 1>>

Init == content = [l \in Locations |-> Absent]

Put(l) ==
    \E w \in Writers :
        content' = [content EXCEPT ![l] = [body |-> w, chunks |-> Body(w)]]

Assemble(l) ==
    /\ content'[l] # Absent
    /\ content'[l].body = Absent
    /\ WholeBodies(content'[l].chunks)
    /\ content' = [content EXCEPT ![l] = content'[l]]

Remove(l) == content' = [content EXCEPT ![l] = Absent]

RemoveBucket(b) ==
    content' = [l \in Locations |-> IF l[1] = b THEN Absent ELSE content[l]]

Next ==
    \/ \E l \in Locations : Put(l) \/ Assemble(l) \/ Remove(l)
    \/ \E b \in Buckets : RemoveBucket(b)

Spec == Init /\ [][Next]_content
=============================================================================
