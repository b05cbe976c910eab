-------------------------- MODULE MCDaemonSession --------------------------
(* A read-only module, an open one and one with users; every kind of request.  *)
EXTENDS DaemonSession

Mod(ro, ls, us, k) == [readOnly |-> ro, list |-> ls, users |-> us, files |-> k]
MCConfig == [pub |-> Mod(TRUE, TRUE, {}, 2), drop |-> Mod(FALSE, TRUE, {}, 1),
             team |-> Mod(FALSE, FALSE, {"ann", "bob"}, 0)]
Req(m, u, r, dir, dry, k) == [module |-> m, user |-> u, right |-> r, direction |-> dir,
                              dryRun |-> dry, files |-> k]
MCRequests == {Req("#list", "", TRUE, "get", FALSE, 0), Req("nosuch", "", TRUE, "put", FALSE, 1)}
  \cup {Req(m, "", TRUE, dir, dry, 2) : m \in {"pub", "drop"}, dir \in {"get", "put"}, dry \in BOOLEAN}
  \cup {Req("team", u, r, "put", FALSE, 1) : u \in {"ann", "bob", "eve"}, r \in BOOLEAN}
=============================================================================
