---------------------------- MODULE MCTecnicoFS ----------------------------
(* Small instances of TecnicoFS for TLC: blocks of two bytes, fewer        *)
(* directory entries than i-nodes, as in config.h (23 and 50).             *)
EXTENDS StoreRefinement

(* "g" stands for a name longer than MAX_FILE_NAME - 1 = 39 characters,    *)
(* and "h" for its first 39.                                               *)
MCNames == {"f", "g", "h"}
MCStored == [n \in MCNames |-> IF n = "g" THEN "h" ELSE n]

Path(abs, sub) == [abs |-> abs, sub |-> sub]

(* A short name, a long one, one without its slash, and "/" alone.         *)
MCPaths == {Path(TRUE, "f"), Path(TRUE, "g"), Path(FALSE, "f"), Path(TRUE, "Empty")}
============================================================================
