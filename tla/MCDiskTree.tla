------------------------------ MODULE MCDiskTree ------------------------------
\* The search tree with two keys that split a leaf, and two below the half that moves.
EXTENDS DiskBytestringSearchTree

MCKeys == {<<1, 1, 1>>, <<1, 1, 2>>, <<1, 1, 1, 1>>, <<1, 1, 1, 2>>}
=============================================================================
