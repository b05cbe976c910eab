----------------------------- MODULE SyncCommand -----------------------------
(***************************************************************************)
(* What grsync promises of one sync command, whatever transport it uses:    *)
(* runSync syncs the sources in their order, the files of each in the order *)
(* of its file list, and reports one result.  It says "ok" only when every  *)
(* file has been applied, and nothing is applied after that.  A command may *)
(* fail at any moment; what it applied stays.                               *)
(***************************************************************************)
EXTENDS Integers, Sequences

CONSTANT Detached   \* whether the applying side can outlive a failed command

VARIABLES work,      \* for each source, the paths of the files to apply, by position
          applied,   \* pairs <<source, path>>
          result

vars == <<work, applied, result>>

Init == applied = {} /\ result = "running"

Files(s) == {<<s, work[s][n]>> : n \in DOMAIN work[s]}
All == UNION {Files(s) : s \in 1..Len(work)}

\* The next file in order is applied.
Apply ==
  /\ result = "running" \/ (Detached /\ result # "ok")
  /\ \E s \in 1..Len(work) : \E n \in DOMAIN work[s] :
       /\ UNION {Files(t) : t \in 1..s - 1} \subseteq applied
       /\ \A m \in DOMAIN work[s] : m < n => <<s, work[s][m]>> \in applied
       /\ applied' = applied \cup {<<s, work[s][n]>>}
  /\ UNCHANGED <<work, result>>

Succeed ==
  /\ result = "running" /\ All \subseteq applied
  /\ result' = "ok"
  /\ UNCHANGED <<work, applied>>

Fail ==
  /\ result = "running"
  /\ result' \notin {"running", "ok"}
  /\ UNCHANGED <<work, applied>>

Next == Apply \/ Succeed \/ Fail

Spec == Init /\ [][Next]_vars
=============================================================================
