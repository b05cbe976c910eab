------------------------------- MODULE FileList -------------------------------
(***************************************************************************)
(* The file list a Sender makes of a tree: Walk, the filter rules and the   *)
(* hard-link groups, as operators.                                          *)
(*                                                                          *)
(* A path is a sequence of names.  A tree maps every path to a node or to   *)
(* Absent; a file's id is its inode.  A segment of a pattern is the set of  *)
(* names it matches, or DeepStar, which is "**".                            *)
(*                                                                          *)
(* Walk sorts its list and nothing reorders it, nor the groups found in it: *)
(* a list is the set of its paths, a group the set of its members, and      *)
(* Order says which comes first.                                            *)
(***************************************************************************)
EXTENDS Integers, Sequences, SequencesExt, FiniteSetsExt

CONSTANTS Name,
          Order,      \* every path there is, in the byte order of their text
          DeepStar, Absent

Path == ToSet(Order)
PathsTo(p) == {SubSeq(p, 1, n) : n \in 1..Len(p)}
Above(p) == PathsTo(p) \ {p}

\* "d" sorts before "d/f": a directory comes before what it holds.
ASSUME OrderAssumption ==
  /\ Order \in Seq(Seq(Name)) /\ IsInjective(Order) /\ <<>> \notin Path
  /\ \A n \in 1..Len(Order) : \A q \in Above(Order[n]) : \E m \in 1..n - 1 : Order[m] = q

\* The first and the last of a set of paths.
Place(p) == CHOOSE n \in 1..Len(Order) : Order[n] = p
First(S) == CHOOSE p \in S : \A q \in S : Place(p) <= Place(q)
Final(S) == CHOOSE p \in S : \A q \in S : Place(p) >= Place(q)

IsDir(tree, p) == tree[p] # Absent /\ tree[p].kind = "dir"
IsFile(tree, p) == tree[p] # Absent /\ tree[p].kind = "file"
IsSymlink(tree, p) == tree[p] # Absent /\ tree[p].kind = "symlink"

-----------------------------------------------------------------------------
(* Walk.  walk is "all" (--recursive), "dirs" (--dirs) or "files". *)

Walk(tree, walk) ==
  {p \in Path : /\ tree[p] # Absent
                /\ walk = "all" \/ Len(p) = 1
                /\ walk = "files" => ~IsDir(tree, p)}

-----------------------------------------------------------------------------
(* Filter rules: [include, slash, segments, dirOnly], as compilePattern     *)
(* parses them; slash is a leading "/", or a "**" that is part of a name.   *)

Anchored(rule) == rule.slash \/ Len(rule.segments) > 1 \/ Contains(rule.segments, DeepStar)

\* m[<<a, b>>]: the pattern from its a-th segment on matches the path from its b-th.
matchSegments(pattern, path) ==
  LET m[at \in (1..Len(pattern) + 1) \X (1..Len(path) + 1)] ==
        LET a == at[1]
            b == at[2]
        IN IF a > Len(pattern) THEN b > Len(path)
           ELSE IF pattern[a] = DeepStar
             THEN m[<<a + 1, b>>] \/ (b <= Len(path) /\ m[<<a, b + 1>>])
             ELSE b <= Len(path) /\ path[b] \in pattern[a] /\ m[<<a + 1, b + 1>>]
  IN m[<<1, 1>>]

\* What that means: the segments cut the path into pieces, "**" taking any number of
\* names and every other segment one.
Takes(segment, path, from, to) ==
  IF segment = DeepStar THEN from <= to ELSE to = from + 1 /\ path[to] \in segment
Cuts(pattern, path) ==
  \E cut \in [0..Len(pattern) -> 0..Len(path)] :
    /\ cut[0] = 0 /\ cut[Len(pattern)] = Len(path)
    /\ \A n \in 1..Len(pattern) : Takes(pattern[n], path, cut[n - 1], cut[n])

Matches(rule, p, dir) ==
  /\ rule.dirOnly => dir
  /\ \/ matchSegments(rule.segments, p)
     \/ ~Anchored(rule) /\ \E n \in 1..Len(p) : matchSegments(rule.segments, SubSeq(p, n + 1, Len(p)))

\* The first rule that matches decides; what no rule matches is included.
Included(rules, p, dir) ==
  LET hits == {k \in 1..Len(rules) : Matches(rules[k], p, dir)}
  IN hits = {} \/ rules[Min(hits)].include

FilterEntries(tree, list, rules) ==
  {p \in list : Included(rules, p, IsDir(tree, p))}

-----------------------------------------------------------------------------
(* Hard links. *)

\* The regular files of list with p's inode.
SameInode(tree, list, p) == {q \in list : IsFile(tree, q) /\ tree[q].id = tree[p].id}

\* A group for every inode with two or more of its names in list.
DetectHardLinks(tree, list) ==
  {g \in {SameInode(tree, list, p) : p \in {q \in list : IsFile(tree, q)}} : Cardinality(g) > 1}
=============================================================================
