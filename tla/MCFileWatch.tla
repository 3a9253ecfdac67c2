----------------------------- MODULE MCFileWatch -----------------------------
(* A small instance of FileWatch: two targets that share a directory and    *)
(* need it in two modes.                                                    *)
EXTENDS FileWatch

MCTargets == {[kind |-> "DirectoryTree", path |-> 2], [kind |-> "ExactFile", path |-> 3]}
=============================================================================
