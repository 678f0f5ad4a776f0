----------------------------- MODULE MCServer ------------------------------
EXTENDS Server

CONSTANTS toml, lib, long, part, spaced, percent20, hashed

Ab == <<"a", "b">>
Cd == <<"C", "d">>
cd == <<"c", "d">>
Efg == <<"e", "f", "g">>
Ghost == <<"g">>

MCLower == (Ab :> Ab) @@ (Cd :> cd) @@ (cd :> cd) @@ (Efg :> Efg) @@ (Ghost :> Ghost)

On(n, k) == [name |-> n, req |-> "*", kind |-> k]
V(n, v, deps) == [name |-> n, version |-> v, deps |-> deps]
File(path, lines) == [path |-> path, lines |-> lines]
AtTop == File(<<"config.json">>, BadJson)

(* Version 2 of ab is published after version 3, for which it is a fix.    *)
AbFile == File(<<"2", Ab>>, <<V(Ab, 1, {}), V(Ab, 3, {}), V(Ab, 2, {On(Ghost, "build")})>>)
CdFile == File(<<"2", cd>>, <<V(Cd, 1, {On(Ab, "normal")})>>)
EfgFile == File(<<"3", <<"e">>, Efg>>, <<V(Efg, 1, {On(Ab, "build"), On(Ghost, "normal")})>>)

MCIndexes == << <<AtTop, File(<<"2", Ab>>, <<>>), File(<<"2", cd>>, BadJson)>>,
                <<AtTop, AbFile, CdFile, EfgFile>> >>

E(p, c) == [path |-> p, content |-> c]
A(kind, name, raw) == [kind |-> kind, name |-> name, os |-> "unix", raw |-> raw]
Toml(n, v) == CargoToml(<<n, v>>)

MCEntryPaths == {Toml(Ab, 1), Toml(Ab, 2), Toml(Ab, 3), Toml(Cd, 1), LongLink, part, spaced, hashed}

\* The URL of "hashed" ends at its "#", and names another file.
MCEncoded == (LongLink :> <<"@LongLink">>) @@ (spaced :> percent20) @@ (hashed :> Toml(Ab, 2))

MCContents == {toml, lib, long, Incomplete}

Ab1 == A("exact", None, <<E(Toml(Ab, 1), toml), E(LongLink, long), E(part, lib), E(spaced, lib)>>)
Ab2 == A("differs", <<"x">>, <<E(Toml(Ab, 2), toml), E(hashed, lib)>>)
Cd1 == A("exact", <<"x", "y">>, <<E(Toml(Cd, 1), Incomplete), E(part, lib), E(part, long)>>)
Efg1 == A("nogz", None, <<>>)
Ab3 == A("damaged", None, <<E(Toml(Ab, 3), toml)>>)

MCArchives == << (<<Ab, 1>> :> Ab1) @@ (<<Cd, 1>> :> Cd1),
                 (<<Ab, 1>> :> Ab1) @@ (<<Cd, 1>> :> Cd1) @@ (<<Ab, 2>> :> Ab2)
                   @@ (<<Ab, 3>> :> Ab3) @@ (<<Efg, 1>> :> Efg1) >>

MCLost == {{}, {lib}}

MCTyped == {Ask("index", None, None, None), Ask("search", <<"b">>, None, None),
            Ask("static", None, None, None), CratePage(cd, 1),
            ListingPage(Ab, 1), Ask("download", Ab, 1, None), Ask("download", Ab, 2, None)}
=============================================================================
