----------------------------- MODULE MCDirTree ------------------------------
EXTENDS DirTree

\* The volume: a directory (named 1) with a file 1 and an empty file 2 in it,
\* and a file 2.
MCDisk == ("fat" :> (1 :> "sub" @@ 2 :> "f2")) @@ ("sub" :> (1 :> "f1" @@ 2 :> "f0"))

Absolute(names) == [absolute |-> TRUE, names |-> names]
Relative(names) == [absolute |-> FALSE, names |-> names]

\* In the order of the names: 1 is /dev and 2 /dev/blk0.
MCPaths == {Absolute(<<2>>), Absolute(<<2, 1>>), Absolute(<<2, 1, 1>>), Absolute(<<2, 1, 2>>),
            Absolute(<<1, 1>>), Absolute(<<1, 2>>), Relative(<<DotDot>>), Relative(<<1, Empty>>)}

\* A file of the volume into /dev, and the block device under the name "..".
MCLinks == {<<Absolute(<<2, 2>>), Absolute(<<1, 1>>)>>, <<Absolute(<<1, 2>>), Relative(<<DotDot>>)>>}
=============================================================================
