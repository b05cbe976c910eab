---------------------------- MODULE MCLocalSync ----------------------------
(* A source with one entry of each kind and a hard link, another that has a    *)
(* single file, an empty one, one with a named pipe; one source with and       *)
(* without a batch, two without.                                               *)
EXTENDS LocalSync

CONSTANTS d, f, g, h, l, p
E(name, kd) == [path |-> name, kind |-> kd]
Full == [entries |-> <<E(d, "dir"), E(f, "file"), E(g, "file"), E(h, "file"), E(l, "symlink")>>,
         groups |-> <<<<f, g>>>>]
One == [entries |-> <<E(f, "file")>>, groups |-> <<>>]
Empty == [entries |-> <<E(d, "dir")>>, groups |-> <<>>]
Fifo == [entries |-> <<E(f, "file"), E(p, "fifo")>>, groups |-> <<>>]
MCPath == {d, f, g, h, l, p}
MCJobs == {[sources |-> <<s>>, batch |-> b] : s \in {Full, One, Empty, Fifo}, b \in BOOLEAN}
            \cup {[sources |-> <<s, t>>, batch |-> FALSE] : s, t \in {Full, One}}
MCFifoJobs == {[sources |-> <<Fifo>>, batch |-> FALSE]}
=============================================================================
