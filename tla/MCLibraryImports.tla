--------------------------- MODULE MCLibraryImports ---------------------------
(***************************************************************************)
(* Two imports, each of the connector or of a file, beside a client that   *)
(* makes an adoption, a normalization or a scan, and another after a crash. *)
(***************************************************************************)
EXTENDS LibraryImports, TLC

CONSTANTS i1, i2

MCSymmetry == Permutations({i1, i2})

Left(atAll, atCat, isLinked) == [all |-> atAll, cat |-> atCat, linked |-> isLinked]

Own == Dir({"mine"}, NoMeta, FALSE)
ItemDir(filed) == Dir({"mine"}, ItemIdOf, filed)
Folder(id) == Dir({"yours"}, id, FALSE)
Empty == Dir({}, NoMeta, FALSE)

MCLeftovers ==
    {Left(NoDir, d, FALSE) : d \in {Folder(NoMeta), Folder(Elsewhere), Empty}}
    \cup {Left(Own, d, FALSE) : d \in {NoDir, Folder(NoMeta)}}
    \cup {Left(ItemDir(FALSE), d, FALSE) : d \in {Folder(ItemIdOf), Empty}}
    \cup {Left(ItemDir(TRUE), d, FALSE) : d \in {Folder(ItemIdOf), Folder(NoMeta)}}
    \cup {Left(ItemDir(TRUE), NoDir, TRUE)}
===============================================================================
