---------------------------- MODULE MCFileSystem ----------------------------
(***************************************************************************)
(* Images with no file, with an empty one, with a name twice and with a    *)
(* file called dev.  Sizes and offsets reach the ends of the files and the *)
(* point at which their sum wraps.                                         *)
(***************************************************************************)
EXTENDS FileSystem

header(name, offset, length) ==
  [name |-> name, offset |-> offset, length |-> length]

MCimages ==
  { << >>,
    << header("a", 4, 3), header("b", 7, 0) >>,
    << header("a", 6, 2), header("a", 8, 4), header("b", 5, 1) >>,
    << header("dev", 4, 2), header("b", 6, 3) >> }

MCNames == {"a", "b", "dev"}

MCOffsets == {0, 1, 3, 4, 30}

MCSizes == {0, 1, 2, 31}

MCIndices == {0, 1, 2, 3, 4, 20, 21, 31}
=============================================================================
