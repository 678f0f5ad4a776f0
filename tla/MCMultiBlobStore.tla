------------------------- MODULE MCMultiBlobStore --------------------------
(* Two crates.  The contents a and b change places between two of their   *)
(* files, which makes a cycle no root leads to, and d comes after it; e    *)
(* comes after g and after x, one of the two long paths that are cut to    *)
(* the same name; the source has no blob for g and the second crate's last *)
(* version no metadata.  l is the content of a LongLink entry.             *)
EXTENDS MultiBlobStore

CONSTANTS a, b, d, e, g, l, x, y

MCDigests == {a, b, d, e, g, l, x, y}
Lib == <<"k", "lib.rs">>
Main == <<"k", "main.rs">>
Long == <<"k", "long">>
MCPaths == {Lib, Main, Long}

File(content, p) == [digest |-> content, path |-> p]
Version(v, files) == [version |-> v, files |-> files]

MCAcj ==
  << << Version(1, <<File(a, Lib), File(l, LongLink), File(x, Long), File(y, Long)>>),
        Version(2, <<File(b, Lib), File(e, Main)>>),
        Version(3, <<File(d, Lib)>>) >>,
     << Version(2, <<File(a, Main), File(e, Lib), File(e, Long)>>),
        Version(1, <<File(b, Main), File(g, Lib), File(x, Long)>>),
        Version(3, NoList) >> >>
=============================================================================
