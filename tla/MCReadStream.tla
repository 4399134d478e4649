---------------------------- MODULE MCReadStream ----------------------------
EXTENDS ReadStream

MCChunkLists == {<<>>, <<2>>, <<1, 4>>, <<2, 3, 4>>}
MCErrorParts == <<1, 2>>
=============================================================================
