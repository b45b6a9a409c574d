---------------------------- MODULE MCTstTmpdir ----------------------------
(* A temporary directory with a file, a subdirectory that holds a file, and*)
(* a link to a directory outside that holds a file.                        *)
EXTENDS TstTmpdir

TreeOutside == {"root", "etc", "passwd"}
TreeNodes   == {"tmp", "sub", "a", "b", "link"} \cup TreeOutside
TreeParent  == [n \in TreeNodes \ {"tmp"} |->
                  CASE n = "b" -> "sub" [] n = "passwd" -> "etc"
                    [] n \in {"root", "etc"} -> "root" [] OTHER -> "tmp"]
TreeKind    == [n \in TreeNodes |->
                  CASE n \in {"tmp", "sub", "root", "etc"} -> "dir" [] n = "link" -> "link"
                    [] OTHER -> "file"]
TreeTarget  == [n \in {"link"} |-> "etc"]
============================================================================
