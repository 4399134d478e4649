----------------------------- MODULE MCLifecycle -----------------------------
EXTENDS Lifecycle, TLC
CONSTANTS a, b, d, r, q, room

Def(id, kind, settings, place) ==
    [id |-> id, kind |-> kind, enabled |-> TRUE, settings |-> settings, place |-> place]
Cfg(defs, ft, method) == [defs |-> defs, ft |-> ft, method |-> method]

DirA == Def(a, "file", "set", d)
DirB == Def(b, "file", "void", r)
ChatB == Def(b, "telegram", "set", r)
MemB == Def(b, "discord", "void", r)
OffB == [ChatB EXCEPT !.enabled = FALSE]

\* The usual pair with tolerance 1 and 0, a backend in memory, moved, switched
\* off, one that does not construct, an unknown kind, no kind, no id, one id twice.
Usual ==
    { Cfg(<<DirA, ChatB>>, 1, "AES-256-GCM"),
      Cfg(<<DirA, ChatB>>, 0, "None"),
      Cfg(<<ChatB, DirA>>, 1, "rot13"),
      Cfg(<<DirA, MemB>>, 1, "ChaCha20-Poly1305"),
      Cfg(<<DirA, DirB>>, 1, "None"),
      Cfg(<<DirA, OffB>>, 0, "AES-256-GCM"),
      Cfg(<<DirA, OffB>>, 1, "AES-256-GCM"),
      Cfg(<<DirA, Def(b, "discord", "missing", r)>>, 0, "None"),
      Cfg(<<DirA, Def(b, "ftp", "set", r)>>, 0, "None"),
      Cfg(<<DirA, Def(b, "", "set", r)>>, 0, "None"),
      Cfg(<<DirA, Def(NoId, "file", "set", d)>>, 0, "None"),
      Cfg(<<DirA, DirA>>, 1, "None") }

\* A chat and a directory, the same with another chat, the two chats, the chats
\* exchanged, and the directory given up for a channel.
Pair(first, second) == Cfg(<<first, second>>, 1, "None")
Chat(id, place) == Def(id, "telegram", "set", place)
Chats ==
    { Pair(Chat(a, r), Def(b, "file", "set", d)),
      Pair(Chat(a, q), Def(b, "file", "set", d)),
      Pair(Chat(a, r), Chat(b, q)),
      Pair(Chat(a, q), Chat(b, r)),
      Pair(Chat(a, r), Def(b, "discord", "set", room)) }

MCConfigs == Usual \cup Chats

\* Bounds: one chunk and outages of the usual places with the usual configurations;
\* two chunks, two starts and no outage with the chats.
Bounded ==
    IF config \in Chats
    THEN starts <= 2 /\ unreachable = {}
    ELSE unreachable \subseteq {d, r} /\ Cardinality({c \in Chunks : pc[c] # "none"}) <= 1
\* A program with one kind of configuration is not started with the other.
SameKind == (config \in Chats) = (config' \in Chats)

\* Chunks are alike.
Symmetry == Permutations(Chunks)
=============================================================================
