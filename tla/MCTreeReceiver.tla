--------------------------- MODULE MCTreeReceiver ---------------------------
(* d, d/e, d/e/h, d/f, d/s and g, the files hard links of each other or files  *)
(* of their own.  The destination may be any mix of missing, stale and current *)
(* names, with a read-only d, a file in place of d, or d/f and g one inode, and *)
(* have a symlink where the source has a directory or a file.                  *)
EXTENDS TreeReceiver

CONSTANTS x, y
D == <<"d">>
DE == <<"d", "e">>
DEH == <<"d", "e", "h">>
DF == <<"d", "f">>
DS == <<"d", "s">>
G == <<"g">>
Star == {"d", "e", "f", "g", "h", "s"}
MCOrder == <<D, DE, DEH, DF, DS, G>>
MCData == {<<>>, <<1>>, <<1, 2>>, <<2, 1>>}

Dir(m, t) == [kind |-> "dir", perm |-> m, time |-> t]
File(c, m, t, n) == [kind |-> "file", data |-> c, perm |-> m, time |-> t, id |-> n]
Link(to) == [kind |-> "symlink", target |-> to]
Tree(d, de, deh, df, ds, g) ==
  [p \in Path |-> CASE p = D -> d [] p = DE -> de [] p = DEH -> deh
                    [] p = DF -> df [] p = DS -> ds [] p = G -> g]

f == File(<<1, 2>>, "r", "t1", DF)
MCSources ==
  {Tree(Dir("w", "t1"), Dir("r", "t1"), f, f, Link(x), f),
   Tree(Dir("r", "t2"), Absent, Absent, File(<<2, 1>>, "w", "t2", DF), Link(y),
        File(<<1, 2>>, "w", "t1", G)),
   Tree(Dir("w", "t1"), Dir("w", "t2"), File(<<>>, "w", "t1", DEH), f, Absent,
        File(<<1, 2>>, "w", "t1", G))}

PlainDests ==
  {t \in {Tree(d, de, deh, df, ds, g) :
       d \in {Absent, Dir("w", "now"), Dir("r", "t1"), File(<<1>>, "w", "t1", D)},
       de \in {Absent, Dir("w", "t1")},
       deh \in {Absent, File(<<1>>, "w", "t1", DEH)},
       df \in {Absent, File(<<1, 2>>, "w", "t1", DF), File(<<2>>, "r", "now", DF)},
       ds \in {Absent, Link(x), File(<<1>>, "w", "t1", DS)},
       g \in {Absent, File(<<1, 2>>, "w", "t1", DF), File(<<2>>, "w", "now", G)}} :
   WellFormed(t)}

LinkDests ==
  {t \in {Tree(d, de, deh, df, ds, g) :
       d \in {Link(x), Dir("w", "now")},
       de \in {Absent, Link(y), Dir("r", "now")},
       deh \in {Absent, Link(x)},
       df \in {Absent, Link(x), File(<<1, 2>>, "w", "t1", DF)},
       ds \in {Absent, Link(x)},
       g \in {Absent, Link(y), File(<<1, 2>>, "w", "t1", DF)}} :
   WellFormed(t) /\ \E p \in Path \ {DS} : IsSymlink(t, p)}

MCDests == PlainDests \cup LinkDests

Rule(inc, slash, segs, dir) ==
  [include |-> inc, slash |-> slash, segments |-> segs, dirOnly |-> dir]
Opts(dry, as, l, h, w) ==
  [dryRun |-> dry, attrs |-> as, links |-> l, hardLinks |-> h, walk |-> w]
Cmd(o, rs) == [opts |-> o, rules |-> rs]
Both == {"perms", "times"}
MCCommands ==
  {Cmd(Opts(FALSE, Both, TRUE, TRUE, "all"), <<>>),
   Cmd(Opts(TRUE, Both, TRUE, TRUE, "all"), <<>>),
   Cmd(Opts(FALSE, {"times"}, TRUE, FALSE, "all"), <<>>),
   \* --exclude d/ --exclude e/: their contents stay listed
   Cmd(Opts(FALSE, {"perms"}, TRUE, TRUE, "all"),
       <<Rule(FALSE, FALSE, <<{"d"}>>, TRUE), Rule(FALSE, FALSE, <<{"e"}>>, TRUE)>>),
   \* --exclude f
   Cmd(Opts(FALSE, Both, FALSE, TRUE, "all"), <<Rule(FALSE, FALSE, <<{"f"}>>, FALSE)>>),
   \* --include "d/**" --exclude "*", the second rule bare
   Cmd(Opts(FALSE, Both, TRUE, TRUE, "all"),
       <<Rule(TRUE, FALSE, <<{"d"}, DeepStar>>, FALSE), Rule(FALSE, FALSE, <<Star>>, FALSE)>>),
   Cmd(Opts(FALSE, {"times"}, TRUE, TRUE, "dirs"), <<>>),
   Cmd(Opts(FALSE, {}, FALSE, FALSE, "files"), <<>>)}

\* matchSegments against its meaning, on every pattern of up to three segments.
Segments == {{"d"}, {"e", "h"}, Star, DeepStar}
ASSUME MatchesByCuts ==
  \A len \in 1..3 : \A pattern \in [1..len -> Segments] : \A path \in Path :
    matchSegments(pattern, path) <=> Cuts(pattern, path)
=============================================================================
