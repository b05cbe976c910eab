--------------------------- MODULE MCFileReceiver ---------------------------
(* Files a and c, b a hard link of a; contents where one is a prefix of        *)
(* another and two of equal length differ.                                     *)
EXTENDS FileReceiver, TLC

CONSTANTS a, b, c, n1, n2, n3, n4
MCPath == {a, b, c}
MCEntries == <<a, b, c>>
MCLinks == <<<<a, b>>>>
MCContent == {<<>>, <<1>>, <<1, 2>>, <<2>>}
Opt(d, ap, pt) == [dryRun |-> d, append |-> ap, partial |-> pt]
MCOptions == {Opt(FALSE, "off", "none"), Opt(FALSE, "off", "dir"), Opt(FALSE, "append", "none"),
              Opt(FALSE, "verify", "dir"), Opt(FALSE, "off", "keep"), Opt(TRUE, "off", "none"),
              Opt(TRUE, "off", "dir")}
Symmetry == Permutations(Inode)

\* Smaller: one file and one hard link, for the runs with two faults.
MCPair == {a, b}
MCPairEntries == <<a, b>>
MCCopyOptions == {Opt(FALSE, "off", "none"), Opt(FALSE, "off", "keep")}
MCDirOptions == {Opt(FALSE, "off", "dir")}
=============================================================================
