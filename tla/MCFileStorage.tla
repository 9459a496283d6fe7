---------------------------- MODULE MCFileStorage ----------------------------
\* Instances of FileStorage for TLC.
EXTENDS FileStorage, TLC

CONSTANTS b1, b2, r1, r2

\* File x/y of bucket a and file y of bucket a/x have one key.
MCBucketNames == {<<"a">>, <<"a", "x">>}
MCFileNames == {<<"x", "y">>, <<"y">>}

MCPaths == {<<<<"a">>, <<"x", "y">>>>, <<<<"a", "x">>, <<"y">>>>}

MCOffers == {[size |-> 1, mime |-> "png"], [size |-> 2, mime |-> "pdf"]}

\* No limit at all, and a bucket for small images.
MCLimits == {[max |-> NoLimit, mimes |-> {}], [max |-> 1, mimes |-> {"png"}]}

MCSymmetry == Permutations(BucketIds) \cup Permutations(Requests)
==============================================================================
