----------------------------- MODULE MCFileSystem -----------------------------
(***************************************************************************)
(* Values for the constants of FileSystem.  Two of the names differ only   *)
(* after their first DIRSIZ characters.                                    *)
(***************************************************************************)
EXTENDS FileSystem

MCName == {".", "..", "a", "long-1", "long-2", "long-"}

MCCut == [name \in MCName |-> IF name \in {"long-1", "long-2"} THEN "long-" ELSE name]

File(name, cells) == [name |-> name, cells |-> cells]

\* The root directory has ".", ".." and one file, and room for one more entry.
MCImages == {<<File("a", 1)>>}

\* The root directory is full with "." and "..", and is rounded up to one more block.
MCFullRoot == {<<>>}

Client(calls, types, writes, counts, n) ==
  [calls |-> calls, types |-> types, writes |-> writes, counts |-> counts, changes |-> n]

\* A count of 15 is -1 for a uint of 16 values.
MCClients ==
  { Client({"allocation", "links", "contents"}, {"file", "dev"}, {}, {3, 15}, 3),
    Client({"allocation", "links", "directory"}, {"file", "dir"}, {}, {}, 3),
    Client({"allocation", "files"}, {"file"}, {TRUE}, {3}, 3),
    Client({"lookup", "directory"}, {}, {}, {}, 3),
    Client({"files", "lookup"}, {}, {FALSE}, {1, 15}, 1) }

\* A client that makes files, to be used with the full root directory.
MCLinker == {Client({"allocation", "links", "directory"}, {"file"}, {}, {}, 5)}

MCLookups == {<<>>, <<"a">>, <<"long-1">>, <<"..", "a">>}
===============================================================================
