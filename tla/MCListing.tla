------------------------------ MODULE MCListing ------------------------------
EXTENDS Listing
MCKeys == 1 .. 4
\* Keys 2 and 3 have the same common prefix, which pages of one key split.
MCPrefix == [k \in MCKeys |-> IF k \in {2, 3} THEN "dir" ELSE "none"]
MCPrefixNames == {"dir"}
=============================================================================
