--------------------------- MODULE MCFileManager ---------------------------
(* Values of the constants of FileManager for TLC. *)
EXTENDS FileManager

CONSTANTS f1, f2, n1, n2

(* A file in each folder, one in the way of the other; more are made.      *)
Two == {{<<f1, n1>>, <<f2, n1>>}}
=============================================================================
