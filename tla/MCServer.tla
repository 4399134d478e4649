------------------------------ MODULE MCServer ------------------------------
EXTENDS Server
Get == [host |-> "bucket", method |-> "GET", key |-> TRUE, query |-> {}, owner |-> TRUE,
        fields |-> "ok"]
\* The queries with each method: every parameter a table has, some it does not
\* have, and pairs of which both are in it.
MCQueries(m) ==
    CASE m = "GET" -> {{q} : q \in Parameters} \cup
                      {{}, {"tagging", "uploadId"}, {"acl", "uploadId"}, {"location", "acl"}}
      [] m = "PUT" -> {{}, {"uploadId"}, {"uploads"}, {"delete"}, {"acl"}, {"delete", "uploadId"}}
      [] m = "POST" -> {{}, {"uploadId"}, {"uploads"}, {"delete"}, {"acl"}, {"delete", "uploads"},
                        {"delete", "uploadId"}, {"uploads", "uploadId"}}
      [] OTHER -> {{}, {"uploadId"}, {"delete"}, {"delete", "uploadId"}}
MCHttpRequests ==
    UNION {{[Get EXCEPT !.method = m, !.key = k, !.query = q] : k \in BOOLEAN, q \in MCQueries(m)} :
        m \in Methods \ {"HEAD", "PATCH"}} \cup
    {[Get EXCEPT !.method = m, !.key = k, !.host = h] :
        m \in Methods, k \in BOOLEAN, h \in Hosts} \cup
    {[Get EXCEPT !.method = m, !.query = q, !.owner = o, !.fields = f] :
        m \in Methods, q \in {{}, {"uploadId"}}, o \in BOOLEAN,
        f \in {"unparsable", "outOfRange", "empty"}} \cup
    {[Get EXCEPT !.method = m, !.query = q, !.owner = FALSE] :
        m \in Methods, q \in {{}, {"uploadId"}, {"delete"}}}
MCVersions == {[etag |-> 1, modified |-> 1, size |-> 1], [etag |-> 2, modified |-> 2, size |-> 1]}
\* Absent, Malformed and Any of ObjectHandlers.
NotSent == -1
Unparsable == -2
Star == -3
MCHeader == {NotSent, Unparsable, Star, 1}
Plain == [kind |-> "HeadObject", key |-> "a", ifMatch |-> NotSent, ifNoneMatch |-> NotSent,
          ifModifiedSince |-> NotSent, ifUnmodifiedSince |-> NotSent,
          ifMatchLastModifiedTime |-> NotSent, ifMatchSize |-> NotSent,
          rangeOk |-> TRUE, part |-> FALSE, batch |-> <<>>, quiet |-> FALSE]
MCReads ==
    {[Plain EXCEPT !.kind = kd, !.ifMatch = a, !.ifNoneMatch = b, !.ifModifiedSince = c,
                   !.ifUnmodifiedSince = d] :
        kd \in {"HeadObject", "GetObject"}, a \in {NotSent, Unparsable, 1},
        b \in {NotSent, 1}, c \in {NotSent, 1}, d \in {NotSent, Unparsable, 1}} \cup
    {[Plain EXCEPT !.kind = kd, !.rangeOk = ok, !.part = p] :
        kd \in {"HeadObject", "GetObject"}, ok \in BOOLEAN, p \in BOOLEAN}
MCDeletes ==
    {[Plain EXCEPT !.kind = "DeleteObject", !.ifMatch = a, !.ifMatchLastModifiedTime = b,
                   !.ifMatchSize = c] :
        a \in MCHeader, b \in {NotSent, Unparsable, 1}, c \in {NotSent, Unparsable}}
MCBatches ==
    {[Plain EXCEPT !.kind = "DeleteObjects", !.batch = batch, !.quiet = quiet] :
        batch \in {<<"a", "b">>, <<"b", "a">>, <<"a", "a">>}, quiet \in BOOLEAN}
MCOthers == {[Plain EXCEPT !.kind = kd] : kd \in {"PutObject", "GetObjectAcl", "GetObjectTagging"}}
MCObjectRequests == MCReads \cup MCDeletes \cup MCBatches \cup MCOthers
\* Segments: 0 "", 1 "%", 2 "D", 3 "_", 4 "d", 5 "e".
MCFold == [s \in 0 .. 5 |-> IF s = 2 THEN 4 ELSE s]
MCPaths == {<<5>>, <<4, 5>>, <<4, 4, 5>>, <<4, 0>>, <<2, 5>>, <<3, 5>>}
MCAskedPrefixes == {<<0>>, <<0, 0>>, <<4>>, <<0, 4, 0>>, <<4, 4, 0>>, <<3, 0>>, <<1, 4>>}
\* "_/" selects the keys whose first segment is one character, "%/d/" those with
\* "/d/" (or "/D/") in them.
MCWild ==
    {w \in {<<3>>} \X MCPaths : Len(w[2]) > 1 /\ w[2][1] # 0} \cup
    {w \in {<<1, 4>>} \X MCPaths : \E i \in 2 .. (Len(w[2]) - 1) : MCFold[w[2][i]] = 4}
=============================================================================
