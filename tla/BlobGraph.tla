----------------------------- MODULE BlobGraph -----------------------------
(***************************************************************************)
(* GraphOfBlobs::from_func and get_digest_lists: the graph whose edges     *)
(* lead from a blob to the next version of the same file, and the lists of *)
(* blobs that are made into one multi blob each.                           *)
(*                                                                         *)
(* Both functions are sequential, but they iterate over hash maps and hash *)
(* sets and sort by a key that can be equal for two blobs: the order of    *)
(* the paths, of equally old blobs and of the roots is any.                *)
(*                                                                         *)
(* A path is the sequence of its components, so that strip_path is Tail:   *)
(* cargo puts every file of a crate below "<name>-<version>/".             *)
(***************************************************************************)
EXTENDS Naturals, Sequences, SequencesExt, FiniteSets

CONSTANTS
  Digests,
  Paths,
  LongLink,  \* "././@LongLink", the path of an entry that holds a path
  NoList,    \* get_digest_list returned None
  Acj        \* the index: of each crate, its versions in the file's order

FileList == Seq([digest : Digests, path : Paths \cup {LongLink}])

ASSUME GraphConstantsOK ==
  /\ IsFiniteSet(Digests)
  /\ Acj \in Seq(Seq([version : Nat, files : FileList \cup {NoList}]))
  /\ NoList \notin FileList
  /\ LongLink \notin Paths
  /\ \A p \in Paths : p \in Seq(STRING) /\ Len(p) > 1

strip_path(path) == Tail(path)

(* What a loop over s leaves of it that takes the elements of S only.      *)
Only(s, S) ==
  LET taken[i \in 0..Len(s)] ==
        IF i = 0 THEN <<>>
        ELSE IF s[i] \in S THEN Append(taken[i - 1], s[i]) ELSE taken[i - 1]
  IN taken[Len(s)]

-----------------------------------------------------------------------------
(* What one crate contributes; c is its position in Acj.                   *)

(* The entries of the versions for which there is a list, by their place.  *)
Entries(c) ==
  UNION {{<<v, i>> : i \in DOMAIN Acj[c][v].files} :
           v \in {k \in DOMAIN Acj[c] : Acj[c][k].files # NoList}}

At(c, e) == Acj[c][e[1]].files[e[2]]

Named(c) == {e \in Entries(c) : At(c, e).path # LongLink}

(* Every entry makes a node, those without a usable path too.              *)
NodesOf(c) == {At(c, e).digest : e \in Entries(c)}

(* The keys of path_to_digests and its values.                             *)
PathsOf(c) == {strip_path(At(c, e).path) : e \in Named(c)}

DigestsAt(c, p) == {At(c, e).digest : e \in {x \in Named(c) : strip_path(At(c, x).path) = p}}

(* digest_to_version: the last one inserted stays.                         *)
VersionOf(c, d) ==
  LET in == {e[1] : e \in {x \in Named(c) : At(c, x).digest = d}}
  IN Acj[c][CHOOSE v \in in : \A w \in in : v >= w].version

(* The results sort_by_key can have on what a hash set yields.             *)
Sorted(c, S) ==
  {s \in [1..Cardinality(S) -> S] :
     /\ \A i, j \in DOMAIN s : i # j => s[i] # s[j]
     /\ \A i, j \in DOMAIN s : i < j => VersionOf(c, s[i]) <= VersionOf(c, s[j])}

-----------------------------------------------------------------------------
VARIABLES
  phase,
  krate,          \* position in Acj of the crate from_func is at
  paths,          \* those of its paths that have no edges yet
  nodes, roots,
  edges,          \* in the order they were added
  walked,         \* roots get_digest_lists is done with
  to_walk, visited, mblob_digests,
  res

building == <<krate, paths, nodes, roots, edges>>
walking == <<walked, to_walk, visited, mblob_digests, res>>
graphVars == <<phase, building, walking>>

GraphInit ==
  /\ phase = "build"
  /\ krate = 0
  /\ paths = {} /\ nodes = {} /\ roots = {} /\ edges = <<>>
  /\ walked = {} /\ to_walk = <<>> /\ visited = {} /\ mblob_digests = <<>> /\ res = <<>>

(* Slip: a blob that is known already becomes a root again.                *)
AddNodesAllRoots ==
  /\ phase = "build" /\ paths = {} /\ krate < Len(Acj)
  /\ krate' = krate + 1
  /\ paths' = PathsOf(krate + 1)
  /\ nodes' = nodes \cup NodesOf(krate + 1)
  /\ roots' = roots \cup NodesOf(krate + 1)
  /\ UNCHANGED <<phase, edges, walking>>

(* The maps and the nodes of the next crate; a new node is a root.         *)
AddNodes ==
  /\ phase = "build" /\ paths = {} /\ krate < Len(Acj)
  /\ krate' = krate + 1
  /\ paths' = PathsOf(krate + 1)
  /\ nodes' = nodes \cup NodesOf(krate + 1)
  /\ roots' = roots \cup (NodesOf(krate + 1) \ nodes)
  /\ UNCHANGED <<phase, edges, walking>>

(* The edges of one path: a chain through its blobs.                       *)
AddEdges ==
  \E p \in paths : \E s \in Sorted(krate, DigestsAt(krate, p)) :
    /\ phase = "build"
    /\ paths' = paths \ {p}
    /\ edges' = edges \o [i \in 1 .. Len(s) - 1 |-> <<s[i], s[i + 1]>>]
    /\ roots' = roots \ {s[i] : i \in 2 .. Len(s)}
    /\ UNCHANGED <<phase, krate, nodes, walking>>

GraphDone ==
  /\ phase = "build" /\ paths = {} /\ krate = Len(Acj)
  /\ phase' = "roots"
  /\ UNCHANGED <<building, walking>>

-----------------------------------------------------------------------------
(* get_digest_lists.                                                       *)

(* Slip: visited is a set of its own for every root.                       *)
NextRootForgets ==
  \E r \in roots \ walked :
    /\ phase = "roots"
    /\ phase' = "walk"
    /\ walked' = walked \cup {r}
    /\ to_walk' = <<r>>
    /\ visited' = {}
    /\ UNCHANGED <<building, mblob_digests, res>>

NextRoot ==
  \E r \in roots \ walked :
    /\ phase = "roots"
    /\ phase' = "walk"
    /\ walked' = walked \cup {r}
    /\ to_walk' = <<r>>
    /\ UNCHANGED <<building, visited, mblob_digests, res>>

(* petgraph yields the most recently added edge first.                     *)
Neighbors(n) ==
  LET out == Only(edges, {n} \X nodes)
  IN [i \in DOMAIN out |-> out[Len(out) + 1 - i][2]]

(* Slip: only the nearest neighbour is followed.                           *)
WalkNarrow ==
  LET n == Last(to_walk) IN
  /\ phase = "walk" /\ to_walk # <<>> /\ n \notin visited
  /\ visited' = visited \cup {n}
  /\ mblob_digests' = Append(mblob_digests, n)
  /\ to_walk' = Front(to_walk) \o Only(Neighbors(n), {Head(Neighbors(n))})
  /\ UNCHANGED <<phase, building, walked, res>>

Walk ==
  LET n == Last(to_walk) IN
  /\ phase = "walk" /\ to_walk # <<>> /\ n \notin visited
  /\ visited' = visited \cup {n}
  /\ mblob_digests' = Append(mblob_digests, n)
  /\ to_walk' = Front(to_walk) \o Neighbors(n)
  /\ UNCHANGED <<phase, building, walked, res>>

WalkOn ==
  /\ phase = "walk" /\ to_walk # <<>> /\ Last(to_walk) \in visited
  /\ to_walk' = Front(to_walk)
  /\ UNCHANGED <<phase, building, walked, visited, mblob_digests, res>>

ListDone ==
  /\ phase = "walk" /\ to_walk = <<>>
  /\ phase' = "roots"
  /\ res' = Append(res, mblob_digests)
  /\ mblob_digests' = <<>>
  /\ UNCHANGED <<building, walked, to_walk, visited>>

ListsDone ==
  /\ phase = "roots" /\ walked = roots
  /\ phase' = "listed"
  /\ UNCHANGED <<building, walking>>

GraphNext ==
  \/ AddNodes \/ AddEdges \/ GraphDone
  \/ NextRoot \/ Walk \/ WalkOn \/ ListDone \/ ListsDone

-----------------------------------------------------------------------------
(* Correctness.                                                            *)

IsEdge(m, n) == \E i \in DOMAIN edges : edges[i] = <<m, n>>

(* A root is a node no edge leads to, whatever order the crates come in    *)
(* and however many of them share the blob; so no traversal meets the root *)
(* of another one, and none of the lists is empty.                         *)
RootsHaveNoOlder == roots = {n \in nodes : ~\E m \in nodes : IsEdge(m, n)}

(* A blob is in one list at most, and there once: it is compressed once    *)
(* and stored once (blob_crate_storage.rs:428, 439).                       *)
EachBlobInOneList ==
  \A i, j \in DOMAIN res : \A k \in DOMAIN res[i], l \in DOMAIN res[j] :
    res[i][k] = res[j][l] => i = j /\ k = l

Listed == UNION {Range(res[i]) : i \in DOMAIN res}

(* Everything from which n can be reached: the sources of the edges into a *)
(* set, taken once more than there are nodes.                              *)
Sources(S) == {edges[i][1] : i \in {k \in DOMAIN edges : edges[k][2] \in S}}

Before(n) ==
  LET upTo[k \in 0..Cardinality(nodes)] ==
        IF k = 0 THEN Sources({n})
        ELSE LET S == upTo[k - 1] IN S \cup Sources(S)
  IN upTo[Cardinality(nodes)]

(* Some root leads to n.                                                   *)
Reached(n) == ({n} \cup Before(n)) \cap roots # {}

(* A blob is left out of all lists exactly when no root leads to it, and   *)
(* then it comes after a cycle: two crates, or two paths of one, that have *)
(* the same two contents in opposite order.                                *)
LeftOutIsAfterCycle ==
  phase = "listed" => \A n \in nodes :
    /\ n \in Listed <=> Reached(n)
    /\ n \notin Listed => \E m \in Before(n) : m \in Before(m)
=============================================================================
