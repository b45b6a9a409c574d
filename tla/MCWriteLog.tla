----------------------------- MODULE MCWriteLog -----------------------------
(* Two writers and a scan of logs of one to three buffers.  Writers that     *)
(* share their descriptors lock, those with their own do so or not.          *)
EXTENDS WriteLog

Writers == {1, 2}
SomePaths == {<<0, 3>>, <<2, 0>>}

(* Logs of records with these lengths of paths, of ids 0, -1, ...            *)
OldLog(paths) == FlattenSeq([k \in 1 .. Len(paths) |-> WithLength(1 - k, paths[k])])
SomeLogs == {OldLog(<<>>), OldLog(<<1, 2>>), OldLog(<<2, 0, 3, 2, 2>>)}


SomeWays == {[fork |-> 0, lock |-> 0, block |-> 0], [fork |-> 1, lock |-> 1, block |-> 0],
             [fork |-> 1, lock |-> 1, block |-> 1]}
SomeScans == {[nrecs |-> 0, stop |-> 0], [nrecs |-> 2, stop |-> 0], [nrecs |-> 0, stop |-> 1]}
=============================================================================
