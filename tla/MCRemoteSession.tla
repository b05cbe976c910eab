--------------------------- MODULE MCRemoteSession ---------------------------
(* Sources of no file, one and two, a delta longer than the pipes hold, with   *)
(* and without a batch file, a dry run, and two sources.  Signatures longer    *)
(* than the pipes occur with a batch file and without.                         *)
EXTENDS RemoteSession

CONSTANTS f, g
F(p, s, d) == [path |-> p, sig |-> s, delta |-> d]
Two == <<F(f, 1, 3), F(g, 3, 1)>>
One == <<F(g, 1, 1)>>
Job(ss, dry, b) == [sources |-> ss, opts |-> [dryRun |-> dry, attrs |-> {}], batch |-> b]
MCPath == {f, g}
MCJobs == {Job(<<Two>>, FALSE, FALSE), Job(<<Two>>, TRUE, FALSE), Job(<< <<>> >>, FALSE, TRUE),
           Job(<<Two>>, FALSE, TRUE), Job(<<One, Two>>, FALSE, FALSE)}
MCArchive == {[sources |-> <<One>>, opts |-> [dryRun |-> FALSE, attrs |-> Attr], batch |-> FALSE]}
=============================================================================
