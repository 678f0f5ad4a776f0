----------------------------- MODULE Registry ------------------------------
(***************************************************************************)
(* registry.rs and statistics.rs: the index of crates.io as a git tree and *)
(* what the server computes from all of it.                                *)
(*                                                                         *)
(* An index is NoRepo, or the files of the head commit's tree in its order *)
(* as records [path, lines]; lines is BadJson or the sequence of the       *)
(* versions.  A path is the sequence of its components.                    *)
(***************************************************************************)
EXTENDS CrateSources, FiniteSets

CONSTANTS
  NoRepo,     \* Repository::open fails
  BadJson,    \* a file that from_str refuses
  Lower       \* from names to names in lower case

CrateDepJson == [name : Seq(STRING), req : STRING, kind : {"normal", "build", "dev"}]
CrateIndexJson == [name : Seq(STRING), version : Nat, deps : SUBSET CrateDepJson]

(* Lower case has no lower case of its own.                                *)
ASSUME LowerOK ==
  \A n \in DOMAIN Lower : /\ n \in Seq(STRING) /\ n # <<>>
                          /\ Lower[n] \in DOMAIN Lower /\ Lower[Lower[n]] = Lower[n]

(* Where crates.io keeps the file of a crate, whose name is in lower case. *)
PathInIndex(name) ==
  IF Len(name) > 3 THEN <<SubSeq(name, 1, 2), SubSeq(name, 3, 4), name>>
  ELSE IF Len(name) = 3 THEN <<"3", SubSeq(name, 1, 1), name>>
  ELSE <<IF Len(name) = 2 THEN "2" ELSE "1", name>>

(* A line for each version of a crate is appended to the file of the crate *)
(* and no version is taken twice.                                          *)
FileOK(file) ==
  /\ file.lines \in Seq(CrateIndexJson)
  /\ \E n \in DOMAIN Lower :
       /\ file.path = PathInIndex(Lower[n])
       /\ \A i \in DOMAIN file.lines :
            file.lines[i].name \in DOMAIN Lower /\ Lower[file.lines[i].name] = Lower[n]
  /\ \A i, j \in DOMAIN file.lines :
       /\ file.lines[i].name = file.lines[j].name
       /\ file.lines[i].version = file.lines[j].version => i = j

(* Files in the top directory are not crates.                              *)
IsCrate(file) == Len(file.path) > 1

IndexOK(index) ==
  index = NoRepo \/
    /\ Len(index) \in Nat /\ DOMAIN index = 1..Len(index)
    /\ \A i, j \in DOMAIN index : index[i].path = index[j].path => i = j
    /\ \A i \in DOMAIN index : index[i].lines # None
    /\ \A i \in DOMAIN index : IsCrate(index[i]) /\ index[i].lines # BadJson => FileOK(index[i])

(* Every error of both functions is None: the callers look no further.     *)
get_crate_json(index, name) ==
  LET at == IF index = NoRepo THEN {}
            ELSE {i \in DOMAIN index : index[i].path = obtain_crate_name_path(name)}
  IN IF at = {} THEN None
     ELSE LET i == CHOOSE i \in at : TRUE IN IF index[i].lines = BadJson THEN None ELSE index[i].lines

(* The name as the crate's first version writes it.                        *)
CrateName(file) == IF file.lines = <<>> THEN Last(file.path) ELSE file.lines[1].name

get_all_crates_json(index) ==
  LET res[i \in 0..Len(index)] ==
        IF i = 0 THEN <<>>
        ELSE IF ~IsCrate(index[i]) THEN res[i - 1]
        ELSE Append(res[i - 1], [name |-> CrateName(index[i]), versions |-> index[i].lines])
  IN IF index = NoRepo \/ (\E i \in DOMAIN index : IsCrate(index[i]) /\ index[i].lines = BadJson) THEN None
     ELSE res[Len(index)]

-----------------------------------------------------------------------------
(* compute_crate_statistics.  A map of sets is a function on the keys      *)
(* inserted; the inner map of reverse_dependencies is a set of triples.    *)

NoKeys == [k \in {} |-> {}]

(* All pairs of a key and an element inserted.                             *)
Merged(map, pairs) ==
  [k \in DOMAIN map \cup {p[1] : p \in pairs} |->
     (IF k \in DOMAIN map THEN map[k] ELSE {}) \cup {p[2] : p \in {q \in pairs : q[1] = k}}]

(* Slip: the version that was published last.                              *)
NewestPublished(versions) == Last(versions).version

Newest(versions) ==
  LET all == {versions[i].version : i \in DOMAIN versions}
  IN CHOOSE v \in all : \A u \in all : v >= u

(* The turn of the second loop for one version of one crate, with all of   *)
(* its dependencies.                                                       *)
AddVersion(stats, krate, v) ==
  [names |-> stats.names \cup {d.name : d \in v.deps},
   revd |-> Merged(stats.revd, {<<d.name, <<d.req, krate.name, v.version>> >> : d \in v.deps}),
   ddon |-> Merged(stats.ddon,
                   {<<d.name, krate.name>> : d \in {e \in v.deps : v.version = Newest(krate.versions)}})]

AddCrate(stats, krate) ==
  LET after[i \in 0..Len(krate.versions)] ==
        IF i = 0 THEN stats ELSE AddVersion(after[i - 1], krate, krate.versions[i])
  IN after[Len(krate.versions)]

Names(acj) == {acj[i].name : i \in DOMAIN acj}

Loops(acj) ==
  LET after[i \in 0..Len(acj)] ==
        IF i = 0 THEN [names |-> Names(acj), revd |-> NoKeys, ddon |-> NoKeys]
        ELSE AddCrate(after[i - 1], acj[i])
  IN after[Len(acj)]

(* The panic is the unwrap of the latest version of a crate without any.   *)
compute_crate_statistics(acj) ==
  LET loops == Loops(acj)
      versions(n) == acj[CHOOSE i \in DOMAIN acj : acj[i].name = n].versions
  IN IF acj = None \/ \E i \in DOMAIN acj : acj[i].versions = <<>> THEN Panic
     ELSE [names |-> loops.names,
           reverse_dependencies |-> loops.revd,
           latest_crate_versions |-> [n \in Names(acj) |-> Newest(versions(n))],
           most_directly_depended_on |-> [n \in DOMAIN loops.ddon |-> Cardinality(loops.ddon[n])],
           most_versions |-> [n \in Names(acj) |-> Len(versions(n))]]

(* The last n of a list sorted by count; equal counts come in any order.   *)
LastOf(counts, n) ==
  {S \in SUBSET DOMAIN counts :
     /\ Cardinality(S) = IF Cardinality(DOMAIN counts) < n THEN Cardinality(DOMAIN counts) ELSE n
     /\ \A s \in S, t \in DOMAIN counts \ S : counts[s] >= counts[t]}
=============================================================================
