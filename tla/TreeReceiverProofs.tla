-------------------------- MODULE TreeReceiverProofs --------------------------
(* Runs over whole trees, proved for every set of paths and nodes: the          *)
(* destination stays a file system, only listed paths are touched, dry runs     *)
(* print what real runs do, a successful run leaves nothing to change, no name  *)
(* is lost on the way, and what could be written stays writable.                *)
(* Last, filter patterns: matchSegments is right for every pattern and path.    *)
EXTENDS TreeReceiver, FiniteSetTheorems, SequenceTheorems, WellFoundedInduction, TLAPS

-----------------------------------------------------------------------------
(* Paths. *)

\* A set of numbers has a least one.
LEMMA Least == ASSUME NEW T \in SUBSET Nat, T # {} PROVE \E x \in T : \A y \in T : x <= y
<1>1. PICK x \in T : \A y \in T : ~(<<y, x>> \in OpToRel(<, Nat))
  BY NatLessThanWellFounded, WFMin
<1>2. \A y \in T : ~(y < x)
  BY <1>1 DEF OpToRel
<1> QED
  BY <1>2

\* The directories on the way to a path are paths, before it in Order.
LEMMA PlaceFacts ==
  ASSUME NEW p \in Path
  PROVE  /\ p \in Seq(Name) /\ Len(p) \in Nat \ {0}
         /\ Place(p) \in 1..Len(Order) /\ Order[Place(p)] = p
         /\ \A q \in Above(p) : q \in Path /\ Place(q) < Place(p)
<1>1. /\ Order \in Seq(Seq(Name)) /\ Path = {Order[n] : n \in 1..Len(Order)} /\ Len(Order) \in Nat
      /\ \A m, n \in 1..Len(Order) : Order[m] = Order[n] => m = n
  BY OrderAssumption DEF IsInjective, ToSet, Path
<1>2. PICK n \in 1..Len(Order) : Order[n] = p
  BY <1>1
<1>3. p \in Seq(Name) /\ p # <<>>
  BY <1>1, <1>2, OrderAssumption
<1>4. \A q \in Path : Place(q) \in 1..Len(Order) /\ Order[Place(q)] = q
  BY <1>1 DEF Place
<1>5. Place(p) = n
  BY <1>1, <1>2, <1>4
<1>6. ASSUME NEW q \in Above(p)
      PROVE  q \in Path /\ Place(q) < Place(p)
  <2>1. PICK m \in 1..n - 1 : Order[m] = q
    BY <1>2, <1>6, OrderAssumption
  <2>2. m \in 1..Len(Order)
    BY <1>1, <2>1
  <2>3. q \in Path
    BY <1>1, <2>1, <2>2
  <2>4. Place(q) = m
    BY <1>1, <1>4, <2>1, <2>2, <2>3
  <2> QED
    BY <1>5, <2>1, <2>3, <2>4
<1> QED
  BY <1>3, <1>4, <1>6, EmptySeq

LEMMA PathFacts ==
  ASSUME NEW p \in Path
  PROVE  /\ p \in PathsTo(p) /\ p \notin Above(p) /\ PathsTo(p) = Above(p) \cup {p}
         /\ PathsTo(p) \subseteq Path
         /\ \A q \in Above(p) : p \notin PathsTo(q) /\ PathsTo(q) \subseteq Above(p)
<1>1. p \in Seq(Name) /\ Len(p) \in Nat \ {0} /\ Above(p) \subseteq Path
  BY PlaceFacts
<1>2. SubSeq(p, 1, Len(p)) = p
  BY <1>1, SubSeqFull
<1>3. p \in PathsTo(p)
  <2>1. Len(p) \in 1..Len(p)
    BY <1>1
  <2> QED
    BY <1>2, <2>1 DEF PathsTo
<1>4. p \notin Above(p) /\ PathsTo(p) = Above(p) \cup {p}
  BY <1>3 DEF Above
<1>5. ASSUME NEW q \in Above(p)
      PROVE  p \notin PathsTo(q) /\ PathsTo(q) \subseteq Above(p)
  <2>1. PICK n \in 1..Len(p) : q = SubSeq(p, 1, n)
    BY DEF Above, PathsTo
  <2>2. n < Len(p) /\ Len(q) = n
    <3>1. n \in Nat /\ n <= Len(p) /\ n # Len(p)
      <4>1. q # p
        BY DEF Above
      <4>2. n # Len(p)
        BY <1>2, <2>1, <4>1
      <4> QED
        BY <1>1, <4>2
    <3>2. Len(SubSeq(p, 1, n)) = n
      BY <1>1, <3>1, SubSeqProperties
    <3> QED
      BY <1>1, <2>1, <3>1, <3>2
  <2>3. ASSUME NEW r \in PathsTo(q)
        PROVE  r \in Above(p) /\ r # p
    <3>1. PICK m \in 1..n : r = SubSeq(q, 1, m)
      BY <2>2 DEF PathsTo
    <3>2. r = SubSeq(p, 1, m) /\ Len(r) = m
      BY <1>1, <2>1, <2>2, <3>1
    <3> QED
      BY <1>1, <2>2, <3>1, <3>2 DEF Above, PathsTo
  <2> QED
    BY <2>3
<1> QED
  BY <1>1, <1>3, <1>4, <1>5

\* What holds a path is the destination itself or another path.
LEMMA ParentFacts ==
  ASSUME NEW p \in Path
  PROVE  /\ PathsTo(Parent(p)) = Above(p)
         /\ Len(p) = 1 => Parent(p) = <<>>
         /\ Len(p) # 1 => Parent(p) \in Above(p)
         /\ Parent(p) \in Path \cup {<<>>} /\ Parent(p) # p
<1>1. p \in Seq(Name) /\ Len(p) \in Nat \ {0} /\ Above(p) \subseteq Path
  BY PlaceFacts
<1>2. Parent(p) = SubSeq(p, 1, Len(p) - 1) /\ Parent(p) \in Seq(Name) /\ Len(Parent(p)) = Len(p) - 1
  <2>1. Parent(p) = SubSeq(p, 1, Len(p) - 1)
    BY DEF Parent, Front
  <2>2. Len(p) - 1 \in Int /\ 1 \in Int /\ \A n \in 1..Len(p) - 1 : p[n] \in Name
    BY <1>1
  <2>3. /\ SubSeq(p, 1, Len(p) - 1) \in Seq(Name)
        /\ Len(SubSeq(p, 1, Len(p) - 1)) = IF 1 <= Len(p) - 1 THEN (Len(p) - 1) - 1 + 1 ELSE 0
    BY ONLY <2>2, SubSeqProperties
  <2>4. Len(p) - 1 = IF 1 <= Len(p) - 1 THEN (Len(p) - 1) - 1 + 1 ELSE 0
    <3>1. Len(p) \in Int /\ Len(p) >= 1
      BY <1>1
    <3>2. \A m \in Int : m >= 1 => m - 1 = IF 1 <= m - 1 THEN (m - 1) - 1 + 1 ELSE 0
      OBVIOUS
    <3> QED
      BY ONLY <3>1, <3>2
  <2> QED
    BY ONLY <2>1, <2>3, <2>4
<1>3. \A n \in 1..Len(p) - 1 : SubSeq(Parent(p), 1, n) = SubSeq(p, 1, n)
  BY <1>1, <1>2
<1>4. \A n \in 1..Len(p) : SubSeq(p, 1, n) # p <=> n # Len(p)
  BY <1>1
<1>5. PathsTo(Parent(p)) = Above(p)
  <2>1. PathsTo(Parent(p)) = {SubSeq(p, 1, n) : n \in 1..Len(p) - 1}
    BY <1>1, <1>2, <1>3 DEF PathsTo
  <2> QED
    BY <1>1, <1>4, <2>1 DEF Above, PathsTo
<1>6. Len(p) = 1 => Parent(p) = <<>>
  BY <1>2, EmptySeq
<1>7. Len(p) # 1 => Parent(p) \in Above(p)
  BY <1>1, <1>2, <1>4 DEF Above, PathsTo
<1> QED
  BY <1>1, <1>2, <1>5, <1>6, <1>7

LEMMA TopFacts == PathsTo(<<>>) = {}
  BY DEF PathsTo

\* A set of paths has a first and a last one.
LEMMA FirstFacts ==
  ASSUME NEW S \in SUBSET Path, S # {}
  PROVE  First(S) \in S /\ \A q \in S : Place(First(S)) <= Place(q)
<1>1. \A p \in S : Place(p) \in Nat
  BY PlaceFacts
<1> DEFINE T == {Place(p) : p \in S}
<1>2. PICK n \in T : \A m \in T : n <= m
  <2>1. T \in SUBSET Nat /\ T # {}
    BY <1>1
  <2> QED
    BY <2>1, Least
<1>3. \E p \in S : \A q \in S : Place(p) <= Place(q)
  BY <1>2
<1> QED
  BY <1>3 DEF First

LEMMA FinalFacts ==
  ASSUME NEW S \in SUBSET Path, S # {}
  PROVE  Final(S) \in S
<1>1. /\ Len(Order) \in Nat /\ \A p \in S : Place(p) \in 1..Len(Order)
      /\ \A p \in S : Len(Order) - Place(p) \in Nat
  BY PlaceFacts, OrderAssumption
<1> DEFINE T == {Len(Order) - Place(p) : p \in S}
<1>2. PICK n \in T : \A m \in T : n <= m
  <2>1. T \in SUBSET Nat /\ T # {}
    BY <1>1
  <2> QED
    BY <2>1, Least
<1>3. PICK p \in S : n = Len(Order) - Place(p)
  BY <1>2
<1>4. \A q \in S : Place(p) >= Place(q)
  <2>1. ASSUME NEW q \in S
        PROVE  Place(p) >= Place(q)
    <3>1. n <= Len(Order) - Place(q)
      BY <1>2
    <3> QED
      BY <1>1, <1>3, <3>1
  <2> QED
    BY <2>1
<1> QED
  BY <1>4 DEF Final

-----------------------------------------------------------------------------
(* What one call does to a file system. *)

Tree == [Path -> Node \cup {Absent}]
Touched(n) == [n EXCEPT !.time = "now"]

\* q is as it was, or a directory that was made or had an entry changed.
Way(d, e, q) == \/ e[q] = d[q]
                \/ d[q] = Absent /\ e[q] = NewDir
                \/ IsDir(d, q) /\ e[q] = Touched(d[q])

\* From d to e nothing changes but p and, as directories, what is above it.
Reached(d, e, p) == /\ \A q \in Path \ {p} : e[q] = d[q] \/ (q \in Above(p) /\ Way(d, e, q))
                    /\ \A q \in Above(p) : IsDir(e, q)

LEMMA NodeFacts ==
  /\ Absent \notin Node
  /\ NewDir \in Node /\ NewDir.kind = "dir" /\ Touched(NewDir) = NewDir
  /\ \A n \in Node : n.kind = "dir" =>
       Touched(n) \in Node /\ Touched(n).kind = "dir" /\ Touched(Touched(n)) = Touched(n)
<1>1. Absent \notin Node
  BY TreeAssumption
<1>2. NewDir \in Node /\ NewDir.kind = "dir"
  BY DEF NewDir, Node, Perm
<1>3. Touched(NewDir) = NewDir
  BY DEF NewDir, Touched
<1>4. ASSUME NEW n \in Node, n.kind = "dir"
      PROVE  Touched(n) \in Node /\ Touched(n).kind = "dir" /\ Touched(Touched(n)) = Touched(n)
  <2>1. n \in [kind : {"dir"}, perm : Perm, time : Time \cup {"now"}]
    BY <1>4 DEF Node
  <2>2. Touched(n) \in [kind : {"dir"}, perm : Perm, time : Time \cup {"now"}]
    BY <2>1 DEF Touched
  <2>3. Touched(n) \in Node
    BY <2>2 DEF Node
  <2> QED
    BY <2>1, <2>2, <2>3 DEF Touched
<1> QED
  BY <1>1, <1>2, <1>3, <1>4

\* os.MkdirAll.
LEMMA MkdirAllFacts ==
  ASSUME NEW d \in Tree, NEW p \in Path \cup {<<>>}, CanMkdirAll(d, p)
  PROVE  /\ MkdirAll(d, p) \in Tree
         /\ \A q \in Path : \/ MkdirAll(d, p)[q] = d[q]
                            \/ q \in PathsTo(p) /\ Way(d, MkdirAll(d, p), q)
         /\ \A q \in PathsTo(p) : q \in Path /\ IsDir(MkdirAll(d, p), q)
<1> DEFINE e == MkdirAll(d, p)
<1>1. /\ PathsTo(p) \subseteq Path
      /\ \A r \in PathsTo(p) : PathsTo(r) \subseteq PathsTo(p)
  BY PathFacts, TopFacts
<1>2. \A q \in Path : e[q] = IF q \in Missing(d, p) THEN NewDir
                             ELSE IF \E r \in Missing(d, p) : Parent(r) = q THEN Touched(d[q])
                             ELSE d[q]
  BY DEF MkdirAll, Touched
<1>3. \A q \in Path : (\E r \in Missing(d, p) : Parent(r) = q) => q \in PathsTo(p)
  <2> SUFFICES ASSUME NEW r \in PathsTo(p), Parent(r) \in Path
               PROVE  Parent(r) \in PathsTo(p)
    BY DEF Missing
  <2>1. r \in Path /\ Parent(r) \in Above(r)
    BY <1>1, ParentFacts, OrderAssumption
  <2> QED
    BY <1>1, <2>1, PathFacts
<1>4. \A q \in PathsTo(p) : q \in Missing(d, p) \/ (d[q] # Absent /\ IsDir(d, q))
  BY DEF CanMkdirAll, Missing, IsDir
<1>5. ASSUME NEW q \in Path
      PROVE  /\ e[q] \in Node \cup {Absent}
             /\ e[q] = d[q] \/ (q \in PathsTo(p) /\ Way(d, e, q))
             /\ q \in PathsTo(p) => IsDir(e, q)
  <2> HIDE DEF e
  <2>1. d[q] \in Node \cup {Absent}
    BY DEF Tree
  <2>2. CASE q \in Missing(d, p)
    BY <1>2, <2>2, NodeFacts DEF Missing, Way, IsDir
  <2>3. CASE q \notin Missing(d, p) /\ \E r \in Missing(d, p) : Parent(r) = q
    <3>1. q \in PathsTo(p) /\ d[q] # Absent /\ IsDir(d, q) /\ e[q] = Touched(d[q])
      BY <1>2, <1>3, <1>4, <2>3
    <3> QED
      BY <2>1, <3>1, NodeFacts DEF Way, IsDir
  <2>4. CASE q \notin Missing(d, p) /\ ~\E r \in Missing(d, p) : Parent(r) = q
    <3>1. e[q] = d[q]
      BY <1>2, <2>4
    <3> QED
      BY <1>4, <2>1, <2>4, <3>1 DEF IsDir
  <2> QED
    BY <2>2, <2>3, <2>4
<1>6. e \in Tree
  <2>1. e = [q \in Path |-> e[q]]
    BY DEF MkdirAll
  <2> HIDE DEF e
  <2> QED
    BY <1>5, <2>1 DEF Tree
<1> QED
  BY <1>1, <1>5, <1>6

\* A directory made or touched, and touched again.
LEMMA WayTwice ==
  ASSUME NEW d \in Tree, NEW e \in Tree, NEW q \in Path, Way(d, e, q) \/ e[q] = d[q], IsDir(e, q),
         NEW g, g[q] = Touched(e[q])
  PROVE  g[q] \in Node /\ Way(d, g, q) /\ IsDir(g, q)
<1>1. d[q] \in Node \cup {Absent} /\ e[q] \in Node /\ e[q].kind = "dir"
  BY DEF Tree, IsDir
<1>2. g[q] \in Node /\ IsDir(g, q)
  BY <1>1, NodeFacts DEF IsDir
<1>3. CASE e[q] = d[q]
  <2>1. g[q] = Touched(d[q]) /\ d[q] # Absent /\ d[q].kind = "dir"
    BY <1>3, Zenon DEF IsDir
  <2> QED
    BY <1>2, <2>1 DEF Way, IsDir
<1>4. CASE d[q] = Absent /\ e[q] = NewDir
  <2>1. g[q] = NewDir
    BY <1>4, NodeFacts, Zenon
  <2> QED
    BY <1>2, <1>4, <2>1 DEF Way
<1>5. CASE IsDir(d, q) /\ e[q] = Touched(d[q])
  BY <1>1, <1>5, NodeFacts DEF Way, IsDir
<1> QED
  BY <1>2, <1>3, <1>4, <1>5 DEF Way

\* A name is created, removed or replaced, the directories above it made first.
LEMMA PutFacts ==
  ASSUME NEW d \in Tree, NEW p \in Path, NEW node \in Node \cup {Absent}, CanWrite(d, p)
  PROVE  /\ Put(MkdirAll(d, Parent(p)), p, node) \in Tree
         /\ Put(MkdirAll(d, Parent(p)), p, node)[p] = node
         /\ Reached(d, Put(MkdirAll(d, Parent(p)), p, node), p)
<1> DEFINE made == MkdirAll(d, Parent(p))
           e == Put(made, p, node)
<1>1. /\ Parent(p) \in Path \cup {<<>>} /\ Parent(p) # p /\ PathsTo(Parent(p)) = Above(p)
      /\ Len(p) # 1 => Parent(p) \in Above(p)
      /\ p \notin Above(p) /\ Above(p) \subseteq Path
  BY ParentFacts, PathFacts, PlaceFacts
<1>2. /\ made \in Tree
      /\ \A q \in Path : made[q] = d[q] \/ (q \in Above(p) /\ Way(d, made, q))
      /\ \A q \in Above(p) : IsDir(made, q)
  BY <1>1, MkdirAllFacts DEF CanWrite
<1> DEFINE top == Len(p) = 1
           f == [made EXCEPT ![p] = node]
<1>3. /\ f \in Tree /\ f[p] = node /\ \A q \in Path \ {p} : f[q] = made[q]
  BY <1>2 DEF Tree
<1>4. e = IF top THEN f ELSE [f EXCEPT ![Parent(p)].time = "now"]
  BY DEF Put, Touch
<1> HIDE DEF made, e, f, top
<1>5. CASE top
  <2>1. e = f
    BY <1>4, <1>5
  <2> QED
    BY <1>1, <1>2, <1>3, <2>1 DEF Reached, Way, IsDir, made, e
<1>6. CASE ~top
  <2>1. Parent(p) \in Above(p) /\ Parent(p) \in Path
    BY <1>1, <1>6 DEF top
  <2>2. e = [f EXCEPT ![Parent(p)] = Touched(f[Parent(p)])]
    BY <1>4, <1>6 DEF Touched
  <2>3. /\ e[Parent(p)] = Touched(made[Parent(p)])
        /\ \A q \in Path \ {Parent(p)} : e[q] = f[q]
        /\ e = [q \in Path |-> e[q]]
    BY <1>1, <1>3, <2>1, <2>2 DEF Tree
  <2>4. e[Parent(p)] \in Node /\ Way(d, e, Parent(p)) /\ IsDir(e, Parent(p))
    BY <1>2, <2>1, <2>3, WayTwice
  <2>5. \A q \in Path : e[q] \in Node \cup {Absent}
    BY <1>3, <2>3, <2>4 DEF Tree
  <2>6. e \in Tree
    BY <2>3, <2>5 DEF Tree
  <2>7. e[p] = node
    BY <1>1, <1>3, <2>3
  <2>8. \A q \in Path \ {p, Parent(p)} : e[q] = made[q]
    BY <1>3, <2>3
  <2>9. Reached(d, e, p)
    BY <1>1, <1>2, <2>1, <2>4, <2>8 DEF Reached, Way, IsDir
  <2> QED
    BY <2>6, <2>7, <2>9 DEF made, e
<1> QED
  BY <1>5, <1>6

\* Where the directories above p stand, none is made.
LEMMA Standing ==
  ASSUME NEW d \in Tree, NEW p \in Path, \A q \in Above(p) : IsDir(d, q)
  PROVE  /\ MkdirAll(d, Parent(p)) = d /\ CanMkdirAll(d, Parent(p))
<1>1. PathsTo(Parent(p)) = Above(p)
  BY ParentFacts
<1>2. Missing(d, Parent(p)) = {}
  BY <1>1 DEF Missing, IsDir
<1> QED
  BY <1>1, <1>2 DEF MkdirAll, CanMkdirAll, Tree

\* What is reached stays a file system, unless p is taken from under something or
\* given an inode that another name has with another content.
LEMMA ReachedWell ==
  ASSUME NEW d, WellFormed(d), NEW e \in Tree, NEW p \in Path, Reached(d, e, p),
         IsDir(e, p) \/ \A q \in Path : p \in Above(q) => d[q] = Absent,
         \A q \in Path \ {p} : /\ IsFile(d, q) /\ IsFile(e, p) /\ d[q].id = e[p].id
                               => d[q] = e[p]
  PROVE  WellFormed(e)
<1>1. d \in Tree /\ \A q \in Path : d[q] # Absent => \A r \in Above(q) : IsDir(d, r)
  BY DEF WellFormed, Tree
<1>2. \A q \in Path \ {p} : /\ IsDir(d, q) => IsDir(e, q)
                            /\ IsFile(e, q) => e[q] = d[q] /\ IsFile(d, q)
                            /\ e[q] # Absent => d[q] # Absent \/ q \in Above(p)
  BY <1>1, NodeFacts DEF Reached, Way, IsDir, IsFile, Tree
<1>3. ASSUME NEW q \in Path, e[q] # Absent, NEW r \in Above(q)
      PROVE  IsDir(e, r)
  <2>1. r \in Path
    BY PlaceFacts
  <2>2. CASE q = p
    BY <2>2, <1>3 DEF Reached
  <2>3. CASE q # p /\ q \in Above(p)
    <3>1. r \in Above(p)
      BY <2>3, <1>3, PathFacts
    <3> QED
      BY <3>1 DEF Reached
  <2>4. CASE q # p /\ q \notin Above(p)
    <3>1. d[q] # Absent /\ IsDir(d, r)
      BY <1>1, <1>2, <1>3, <2>4
    <3>2. r = p => IsDir(e, p)
      BY <1>3, <3>1
    <3> QED
      BY <1>2, <2>1, <3>1, <3>2
  <2> QED
    BY <2>2, <2>3, <2>4
<1>4. ASSUME NEW q \in Path, NEW r \in Path, IsFile(e, q), IsFile(e, r), e[q].id = e[r].id
      PROVE  e[q] = e[r]
  <2>1. CASE q # p /\ r # p
    BY <1>2, <1>4, <2>1 DEF WellFormed
  <2>2. CASE q = p \/ r = p
    BY <1>2, <1>4, <2>2
  <2> QED
    BY <2>1, <2>2
<1> QED
  BY <1>3, <1>4 DEF WellFormed, Tree

\* The names of p's inode.
SameNode(d, p, q) == q = p \/ (IsFile(d, p) /\ IsFile(d, q) /\ d[q].id = d[p].id)

\* n with the attributes of node that are kept.
With(n, node) == [n EXCEPT !.perm = IF "perms" \in opts.attrs THEN node.perm ELSE @,
                           !.time = IF "times" \in opts.attrs THEN node.time ELSE @]

Timed == {n \in Node : n.kind \in {"dir", "file"}}

LEMMA TimedFacts ==
  ASSUME NEW n \in Timed
  PROVE  /\ n \in Node /\ n.perm \in Perm /\ n.time \in Time \cup {"now"}
         /\ n.kind = "dir" => n \in [kind : {"dir"}, perm : Perm, time : Time \cup {"now"}]
         /\ n.kind = "file" => n \in [kind : {"file"}, data : Data, perm : Perm,
                                      time : Time \cup {"now"}, id : Path]
  BY DEF Timed, Node

LEMMA WithFacts ==
  ASSUME NEW n \in Timed, NEW node \in Timed
  PROVE  /\ With(n, node) \in Timed /\ With(n, node).kind = n.kind
         /\ n.kind = "file" => With(n, node).data = n.data /\ With(n, node).id = n.id
         /\ With(n, node).perm = IF "perms" \in opts.attrs THEN node.perm ELSE n.perm
         /\ With(n, node).time = IF "times" \in opts.attrs THEN node.time ELSE n.time
<1> DEFINE a == IF "perms" \in opts.attrs THEN node.perm ELSE n.perm
           b == IF "times" \in opts.attrs THEN node.time ELSE n.time
           m == [n EXCEPT !.perm = a, !.time = b]
<1>1. a \in Perm /\ b \in Time \cup {"now"}
  BY TimedFacts
<1>2. With(n, node) = m
  BY DEF With
<1> HIDE DEF a, b
<1>3. CASE n.kind = "dir"
  <2>1. n \in [kind : {"dir"}, perm : Perm, time : Time \cup {"now"}]
    BY <1>3, TimedFacts
  <2>2. m \in [kind : {"dir"}, perm : Perm, time : Time \cup {"now"}] /\ m.perm = a /\ m.time = b
    BY <1>1, <2>1
  <2> HIDE DEF m
  <2>3. With(n, node) \in Timed /\ With(n, node).kind = "dir"
    BY <1>2, <2>2 DEF Timed, Node
  <2> QED
    BY <1>2, <1>3, <2>2, <2>3 DEF a, b
<1>4. CASE n.kind = "file"
  <2>1. n \in [kind : {"file"}, data : Data, perm : Perm, time : Time \cup {"now"}, id : Path]
    BY <1>4, TimedFacts
  <2>2. /\ m \in [kind : {"file"}, data : Data, perm : Perm, time : Time \cup {"now"}, id : Path]
        /\ m.perm = a /\ m.time = b /\ m.data = n.data /\ m.id = n.id
    BY <1>1, <2>1
  <2> HIDE DEF m
  <2>3. With(n, node) \in Timed /\ With(n, node).kind = "file"
    BY <1>2, <2>2 DEF Timed, Node
  <2> QED
    BY <1>2, <1>4, <2>2, <2>3 DEF a, b
<1> QED
  BY <1>3, <1>4 DEF Timed

\* chmod and chtimes change every name of one inode, and nothing but attributes.
LEMMA AttributeFacts ==
  ASSUME NEW d, WellFormed(d), NEW p \in Path, IsDir(d, p) \/ IsFile(d, p), NEW node \in Timed
  PROVE  /\ WellFormed(ApplyAttributes(d, p, node))
         /\ \A q \in Path : ApplyAttributes(d, p, node)[q]
                              = IF SameNode(d, p, q) THEN With(d[q], node) ELSE d[q]
         /\ \A q \in Path : SameNode(d, p, q) => d[q] \in Timed
<1> DEFINE e == ApplyAttributes(d, p, node)
<1>1. d \in Tree
  BY DEF WellFormed, Tree
<1>2. e = [q \in Path |-> IF SameNode(d, p, q) THEN With(d[q], node) ELSE d[q]]
  BY DEF ApplyAttributes, SameNode, With
<1>3. \A q \in Path : SameNode(d, p, q) => d[q] \in Timed
  BY <1>1 DEF Tree, SameNode, IsDir, IsFile, Timed
<1> HIDE DEF e
<1>4. \A q \in Path : e[q] = IF SameNode(d, p, q) THEN With(d[q], node) ELSE d[q]
  BY <1>2
<1>5. \A q \in Path : /\ e[q] \in Node \cup {Absent} /\ (e[q] = Absent <=> d[q] = Absent)
                      /\ e[q] # Absent => e[q].kind = d[q].kind
                      /\ IsFile(d, q) => e[q].id = d[q].id
  <2> TAKE q \in Path
  <2>1. CASE SameNode(d, p, q)
    <3>1. d[q] \in Timed /\ e[q] = With(d[q], node)
      BY <1>3, <1>4, <2>1
    <3>2. e[q] \in Timed /\ e[q].kind = d[q].kind /\ (d[q].kind = "file" => e[q].id = d[q].id)
      BY <3>1, WithFacts
    <3> QED
      BY <3>1, <3>2, NodeFacts DEF Timed, IsFile
  <2>2. CASE ~SameNode(d, p, q)
    BY <1>1, <1>4, <2>2 DEF Tree
  <2> QED
    BY <2>1, <2>2
<1>6. \A q \in Path : (IsDir(e, q) <=> IsDir(d, q)) /\ (IsFile(e, q) <=> IsFile(d, q))
  BY <1>5 DEF IsDir, IsFile
<1>7. \A q, r \in Path : IsFile(e, q) /\ IsFile(e, r) /\ e[q].id = e[r].id => e[q] = e[r]
  <2> SUFFICES ASSUME NEW q \in Path, NEW r \in Path, IsFile(d, q), IsFile(d, r), d[q].id = d[r].id
               PROVE  e[q] = e[r]
    BY <1>5, <1>6
  <2>1. d[q] = d[r]
    BY DEF WellFormed
  <2>2. SameNode(d, p, q) <=> SameNode(d, p, r)
    BY <2>1 DEF SameNode
  <2> QED
    BY <1>4, <2>1, <2>2
<1>8. \A q \in Path : e[q] # Absent => \A r \in Above(q) : IsDir(e, r)
  BY <1>5, <1>6, PlaceFacts DEF WellFormed
<1>9. e \in Tree
  BY <1>2, <1>5 DEF Tree
<1> QED
  BY <1>3, <1>4, <1>7, <1>8, <1>9 DEF WellFormed, Tree, e

\* There is an inode that no other name has.
LEMMA FreshFacts ==
  ASSUME NEW d, NEW p \in Path
  PROVE  FreshId(d, p) \in Path /\ \A q \in Path \ {p} : IsFile(d, q) => d[q].id # FreshId(d, p)
<1>1. IsFiniteSet(Path)
  <2> DEFINE f == [n \in 1..Len(Order) |-> Order[n]]
  <2>1. Len(Order) \in Nat /\ Path = {Order[n] : n \in 1..Len(Order)}
    BY OrderAssumption DEF Path, ToSet
  <2>2. /\ f \in [1..Len(Order) -> Path]
        /\ \A q \in Path : \E n \in 1..Len(Order) : f[n] = q
    BY <2>1
  <2> HIDE DEF f
  <2>3. f \in Surjection(1..Len(Order), Path)
    BY ONLY <2>2, Zenon DEF Surjection
  <2>4. IsFiniteSet(1..Len(Order))
    BY <2>1, FS_Interval
  <2> QED
    BY ONLY <2>3, <2>4, FS_Surjection
<1>2. /\ IsFiniteSet(Path \ {p}) /\ Cardinality(Path) \in Nat
      /\ Cardinality(Path \ {p}) = Cardinality(Path) - 1
  BY <1>1, FS_RemoveElement, FS_CardinalityType
<1>3. \E n \in Path : \A q \in Path \ {p} : IsFile(d, q) => d[q].id # n
  <2> SUFFICES ASSUME \A n \in Path : \E q \in Path \ {p} : d[q].id = n
               PROVE  FALSE
    OBVIOUS
  <2> DEFINE f == [n \in Path |-> CHOOSE q \in Path \ {p} : d[q].id = n]
  <2>1. \A n \in Path : f[n] \in Path \ {p} /\ d[f[n]].id = n
    OBVIOUS
  <2>2. f \in [Path -> Path \ {p}]
    BY <2>1
  <2> HIDE DEF f
  <2>3. Cardinality(Path \ {p}) < Cardinality(Path)
    BY <1>2
  <2>4. PICK m \in Path, n \in Path : m # n /\ f[m] = f[n]
    BY <1>1, <1>2, <2>2, <2>3, FS_PigeonHole
  <2> QED
    BY <2>1, <2>4
<1> QED
  BY <1>3 DEF FreshId

-----------------------------------------------------------------------------
(* What the operations of a run leave. *)

\* ReachedWell for a path that can be removed.
LEMMA ReachedFits ==
  ASSUME NEW d, WellFormed(d), NEW e \in Tree, NEW p \in Path, Reached(d, e, p),
         IsDir(e, p) \/ CanRemove(d, p),
         \A q \in Path \ {p} : /\ IsFile(d, q) /\ IsFile(e, p) /\ d[q].id = e[p].id
                               => d[q] = e[p]
  PROVE  WellFormed(e)
<1>1. d \in Tree /\ \A q \in Path : p \in Above(q) /\ d[q] # Absent => IsDir(d, p)
  BY DEF WellFormed, Tree
<1> QED
  BY <1>1, ReachedWell DEF CanRemove

\* Making the directories above a path that can be written.
LEMMA MadeFacts ==
  ASSUME NEW d, WellFormed(d), NEW p \in Path, CanMkdirAll(d, p)
  PROVE  WellFormed(MkdirAll(d, p)) /\ Reached(d, MkdirAll(d, p), p) /\ IsDir(MkdirAll(d, p), p)
<1> DEFINE e == MkdirAll(d, p)
<1>1. d \in Tree /\ PathsTo(p) = Above(p) \cup {p}
  BY PathFacts DEF WellFormed, Tree
<1>2. e \in Tree /\ Reached(d, e, p) /\ IsDir(e, p)
  BY <1>1, MkdirAllFacts DEF Reached
<1> HIDE DEF e
<1>3. ~IsFile(e, p)
  BY <1>2 DEF IsDir, IsFile
<1>4. WellFormed(e)
  BY <1>2, <1>3, ReachedFits
<1> QED
  BY <1>2, <1>4 DEF e

\* A part of the directories that can be made can be made.
LEMMA PartFacts ==
  ASSUME NEW d, NEW p \in Path \cup {<<>>}, CanMkdirAll(d, p), NEW q \in PathsTo(p)
  PROVE  CanMkdirAll(d, q)
<1>1. q \in Path /\ PathsTo(q) \subseteq PathsTo(p)
  BY TopFacts, PathFacts, PlaceFacts
<1>2. ASSUME NEW r \in Missing(d, q)
      PROVE  Parent(r) \in Missing(d, q) \/ Writable(d, Parent(r))
  <2>1. r \in Path /\ r \in PathsTo(q) /\ r \in Missing(d, p)
    BY <1>1, PathFacts DEF Missing
  <2>2. CASE Len(r) = 1
    BY <2>1, <2>2, ParentFacts DEF Writable
  <2>3. CASE Len(r) # 1
    <3>1. Parent(r) \in PathsTo(q)
      <4>1. Parent(r) \in Above(r)
        BY <2>1, <2>3, ParentFacts
      <4>2. PathsTo(q) = Above(q) \cup {q} /\ \A x \in Above(q) : PathsTo(x) \subseteq Above(q)
        BY <1>1, PathFacts
      <4>3. PathsTo(r) = Above(r) \cup {r}
        BY <2>1, PathFacts
      <4> QED
        BY <2>1, <4>1, <4>2, <4>3
    <3>2. Parent(r) \in Missing(d, p) \/ Writable(d, Parent(r))
      BY <2>1 DEF CanMkdirAll
    <3> QED
      BY <3>1, <3>2 DEF Missing
  <2> QED
    BY <2>2, <2>3
<1>3. \A r \in PathsTo(q) : d[r] = Absent \/ IsDir(d, r)
  BY <1>1 DEF CanMkdirAll
<1> QED
  BY <1>2, <1>3 DEF CanMkdirAll

\* A file is written: a new inode with the source's bytes, or what was there already.
LEMMA WrittenFacts ==
  ASSUME NEW d, WellFormed(d), source \in Sources, NEW p \in Path, IsFile(source, p), ~IsDir(d, p),
         CanMkdirAll(d, Parent(p)), Changed(d, p) => CanWrite(d, p)
  PROVE  /\ WellFormed(Written(d, p)) /\ Reached(d, Written(d, p), p)
         /\ IsFile(Written(d, p), p) /\ Written(d, p)[p].data = source[p].data
         /\ ~Changed(d, p) => Written(d, p) = d
         /\ Changed(d, p) => /\ \A q \in Path \ {p} : ~SameNode(Written(d, p), p, q)
                             /\ Written(d, p)[p].perm = "new" /\ Written(d, p)[p].time = "now"
<1> DEFINE node == [kind |-> "file", data |-> source[p].data, perm |-> "new",
                    time |-> "now", id |-> FreshId(d, p)]
           made == MkdirAll(d, Parent(p))
           e == Written(d, p)
<1>1. d \in Tree /\ source \in Tree /\ source[p] \in Node /\ source[p].kind = "file"
  BY TreeAssumption DEF WellFormed, Tree, IsFile
<1>2. source[p].data \in Data
  BY <1>1 DEF Node
<1>3. CASE Changed(d, p)
  <2>1. FreshId(d, p) \in Path /\ \A q \in Path \ {p} : IsFile(d, q) => d[q].id # FreshId(d, p)
    BY FreshFacts
  <2>2. /\ node \in Node /\ node.kind = "file" /\ node.data = source[p].data
        /\ node.id = FreshId(d, p) /\ node.perm = "new" /\ node.time = "now"
    BY <1>2, <2>1 DEF Node, Perm
  <2>3. e = Put(made, p, node)
    BY <1>3 DEF Written
  <2> HIDE DEF node, e, made
  <2>4. e \in Tree /\ e[p] = node /\ Reached(d, e, p)
    BY <1>1, <1>3, <2>2, <2>3, PutFacts DEF made
  <2>5. IsFile(e, p)
    BY <2>2, <2>4, NodeFacts DEF IsFile
  <2>6. \A q \in Path \ {p} : IsFile(e, q) => IsFile(d, q) /\ e[q] = d[q]
    <3> TAKE q \in Path \ {p}
    <3> HAVE IsFile(e, q)
    <3>1. e[q] = d[q] \/ IsDir(e, q)
      BY <2>4 DEF Reached
    <3>2. ~IsDir(e, q)
      BY DEF IsDir, IsFile
    <3> QED
      BY <3>1, <3>2 DEF IsFile
  <2>7. \A q \in Path \ {p} : ~SameNode(e, p, q)
    BY <2>1, <2>2, <2>4, <2>6 DEF SameNode
  <2>8. WellFormed(e)
    <3>1. CanRemove(d, p)
      BY DEF CanRemove
    <3>2. \A q \in Path \ {p} : ~(IsFile(d, q) /\ IsFile(e, p) /\ d[q].id = e[p].id)
      BY <2>1, <2>2, <2>4
    <3> QED
      BY <2>4, <2>5, <3>1, <3>2, ReachedFits
  <2> QED
    BY <1>3, <2>2, <2>4, <2>5, <2>7, <2>8 DEF e
<1>4. CASE ~Changed(d, p)
  <2>1. IsFile(d, p) /\ d[p] # Absent /\ d[p].data = source[p].data
    BY <1>4 DEF Changed, IsFile
  <2>2. \A q \in Above(p) : IsDir(d, q)
    BY <2>1 DEF WellFormed
  <2>3. e = d
    BY <1>1, <1>4, <2>2, Standing DEF Written
  <2> HIDE DEF e
  <2>6. Reached(d, d, p)
    BY <2>2 DEF Reached
  <2> QED
    BY <1>4, <2>1, <2>3, <2>6 DEF e
<1> QED
  BY <1>3, <1>4

\* A name is removed.
LEMMA RemovedFacts ==
  ASSUME NEW d, WellFormed(d), NEW p \in Path, CanWrite(d, p), CanRemove(d, p), d[p] # Absent
  PROVE  WellFormed(Removed(d, p)) /\ Reached(d, Removed(d, p), p)
<1> DEFINE e == Removed(d, p)
<1>1. d \in Tree /\ \A q \in Above(p) : IsDir(d, q)
  BY DEF WellFormed, Tree
<1>2. e = Put(MkdirAll(d, Parent(p)), p, Absent)
  BY <1>1, Standing DEF Removed
<1> HIDE DEF e
<1>3. e \in Tree /\ e[p] = Absent /\ Reached(d, e, p)
  BY <1>1, <1>2, PutFacts
<1>4. ~IsFile(e, p)
  BY <1>3 DEF IsFile
<1>5. WellFormed(e)
  BY <1>3, <1>4, ReachedFits
<1> QED
  BY <1>3, <1>5 DEF e

\* A link is made in place of what p was.
LEMMA LinkFacts ==
  ASSUME NEW d, WellFormed(d), NEW p \in Path, CanWrite(d, p), CanRemove(d, p), NEW node \in Node,
         node.kind = "file" => \A q \in Path : IsFile(d, q) /\ d[q].id = node.id => d[q] = node
  PROVE  /\ WellFormed(Put(MkdirAll(d, Parent(p)), p, node))
         /\ Reached(d, Put(MkdirAll(d, Parent(p)), p, node), p)
         /\ Put(MkdirAll(d, Parent(p)), p, node)[p] = node
<1> DEFINE e == Put(MkdirAll(d, Parent(p)), p, node)
<1>1. e \in Tree /\ e[p] = node /\ Reached(d, e, p)
  BY PutFacts DEF WellFormed, Tree
<1> HIDE DEF e
<1>2. \A q \in Path \ {p} : IsFile(d, q) /\ IsFile(e, p) /\ d[q].id = e[p].id => d[q] = e[p]
  BY <1>1 DEF IsFile
<1>3. WellFormed(e)
  BY <1>1, <1>2, ReachedFits
<1> QED
  BY <1>1, <1>3 DEF e

\* From d to e only p and, as directories, what is above it change.
Within(d, e, p) == \A q \in Path \ {p} : e[q] = d[q] \/ (q \in Above(p) /\ Way(d, e, q))

\* What an attempt leaves is a file system, and what it touched is p or above it.
LEMMA AttemptsFacts ==
  ASSUME NEW d, d = dest, WellFormed(d), source \in Sources, NEW p \in Path, NEW e \in Attempts(p)
  PROVE  WellFormed(e) /\ Within(d, e, p)
<1>1. CASE e = d
  BY <1>1 DEF Within
<1>2. CASE CanWrite(d, p) /\ \E q \in PathsTo(Parent(p)) : e = MkdirAll(d, q)
  <2>1. PICK q \in Above(p) : e = MkdirAll(d, q) /\ q \in PathsTo(Parent(p))
    BY <1>2, ParentFacts
  <2>2. q \in Path /\ CanMkdirAll(d, q) /\ d \in Tree /\ PathsTo(q) \subseteq Above(p)
    BY <1>2, <2>1, PlaceFacts, PathFacts, ParentFacts, PartFacts DEF CanWrite, WellFormed, Tree
  <2>3. WellFormed(e)
    BY <2>1, <2>2, MadeFacts
  <2>4. \A r \in Path : e[r] = d[r] \/ (r \in PathsTo(q) /\ Way(d, e, r))
    BY <2>1, <2>2, MkdirAllFacts
  <2> QED
    BY <2>2, <2>3, <2>4 DEF Within
<1>3. CASE CanWrite(d, p) /\ IsFile(source, p) /\ ~IsDir(d, p) /\ e = Written(d, p)
  BY <1>3, WrittenFacts DEF CanWrite, Within, Reached
<1>4. CASE CanWrite(d, p) /\ CanRemove(d, p) /\ e = Removed(d, p)
  <2>1. CASE d[p] = Absent
    BY <1>4, <2>1 DEF Removed, Within
  <2>2. CASE d[p] # Absent
    BY <1>4, <2>2, RemovedFacts DEF Within, Reached
  <2> QED
    BY <2>1, <2>2
<1> QED
  BY <1>1, <1>2, <1>3, <1>4 DEF Attempts

-----------------------------------------------------------------------------
(* The invariant: the destination is sound, every pass has only listed names     *)
(* left that the source has, and the groups are the inodes of the list.          *)

TreeInv ==
  /\ TypeOK /\ WellFormed(dest)
  /\ \A p \in list : source[p] # Absent
  /\ groups \in {{}, DetectHardLinks(source, list)}
  /\ todo \subseteq list
  /\ pc = "links" => todo \subseteq Secondary
  /\ pc = "dirs" => todo \subseteq Dirs
  /\ pc = "done" => todo = {}
  /\ pc \in {"links", "dirs"} => ~opts.dryRun

LEMMA SourceFacts ==
  ASSUME TreeInv, NEW p \in list
  PROVE  /\ p \in Path /\ source[p] \in Node /\ source[p] # Absent
         /\ IsDir(source, p) \/ IsFile(source, p) => source[p] \in Timed
         /\ IsDir(source, p) \/ IsFile(source, p) \/ IsSymlink(source, p)
<1>1. p \in Path /\ source \in Tree /\ source[p] # Absent
  BY TreeAssumption DEF TreeInv, TypeOK, WellFormed, Tree
<1> QED
  BY <1>1 DEF Tree, Node, Timed, IsDir, IsFile, IsSymlink

\* The members of a group after its first have the inode of a file written before.
LEMMA GroupFacts ==
  ASSUME TreeInv, NEW p \in Secondary
  PROVE  /\ p \in list /\ IsFile(source, p)
         /\ Leader(p) \in list \ Secondary /\ Leader(p) # p /\ source[Leader(p)] = source[p]
<1>1. PICK g \in groups : p \in g \ {First(g)}
  BY DEF Secondary
<1>2. /\ list \subseteq Path /\ WellFormed(source)
      /\ groups = DetectHardLinks(source, list)
  BY <1>1, TreeAssumption DEF TreeInv, TypeOK
<1>3. \A h \in groups : \A q \in h : /\ q \in list /\ IsFile(source, q)
                                     /\ h = SameInode(source, list, q)
  BY <1>2 DEF DetectHardLinks, SameInode
<1>4. \A h \in groups : \A q \in h \cap g : h = g
  BY <1>3
<1>5. Group(p) = g
  BY <1>1, <1>4 DEF Group
<1>6. First(g) \in g
  BY <1>1, <1>2, <1>3, FirstFacts
<1>7. Leader(p) = First(g)
  BY <1>5 DEF Leader
<1>8. First(g) \notin Secondary
  BY <1>4, <1>6 DEF Secondary
<1>9. source[First(g)] = source[p]
  <2>1. IsFile(source, p) /\ IsFile(source, First(g)) /\ source[First(g)].id = source[p].id
    BY <1>1, <1>3, <1>6 DEF SameInode
  <2> QED
    BY <1>1, <1>2, <1>3, <1>6, <2>1 DEF WellFormed
<1> QED
  BY <1>1, <1>3, <1>6, <1>7, <1>8, <1>9

\* The entries come in order: what is still to come is not above the one at hand.
LEMMA EntryFacts ==
  ASSUME TreeInv, todo # {}
  PROVE  /\ Current \in todo /\ Current \in list /\ Current \in Path
         /\ \A q \in todo : q \notin Above(Current)
<1>1. todo \in SUBSET Path /\ todo \subseteq list
  BY DEF TreeInv, TypeOK
<1>2. Current \in todo /\ \A q \in todo : Place(Current) <= Place(q)
  BY <1>1, FirstFacts DEF Current
<1>3. \A q \in todo : q \notin Above(Current)
  <2>1. \A q \in Above(Current) : Place(q) < Place(Current)
    BY <1>1, <1>2, PlaceFacts
  <2>2. \A q \in todo : Place(q) \in Nat
    BY <1>1, PlaceFacts
  <2> QED
    BY <1>2, <2>1, <2>2
<1> QED
  BY <1>1, <1>2, <1>3

LEMMA LinkOrderFacts ==
  ASSUME TreeInv, pc = "links", todo # {}
  PROVE  NextLink(todo) \in todo /\ NextLink(todo) \in Secondary
<1>1. todo \in SUBSET Path /\ todo \subseteq Secondary /\ \A p \in todo : Leader(p) \in Path
  BY GroupFacts DEF TreeInv, TypeOK
<1> DEFINE H == {Leader(p) : p \in todo}
           T == {p \in todo : Leader(p) = First(H)}
<1>2. First(H) \in H
  <2>1. H \in SUBSET Path /\ H # {}
    BY <1>1
  <2> QED
    BY <2>1, FirstFacts
<1>3. First(T) \in T
  <2>1. T \in SUBSET Path /\ T # {}
    BY <1>1, <1>2
  <2> QED
    BY <2>1, FirstFacts
<1> QED
  BY <1>1, <1>3 DEF NextLink

LEMMA LineType ==
  ASSUME opts \in Options, NEW d, NEW p
  PROVE  Line(d, p) \subseteq Mark
<1>1. opts.attrs \subseteq {"perms", "times"}
  BY DEF Options
<1> QED
  BY <1>1 DEF Line, Marks, Mark

\* What an operation on p may do to the other paths: directories above it are made
\* or touched, and the other names of its inode get its attributes.
Effect(d, e, p) ==
  \A q \in Path \ {p} : \/ e[q] = d[q]
                        \/ q \in Above(p) /\ Way(d, e, q)
                        \/ SameNode(d, p, q) /\ IsFile(e, q) /\ e[q].data = d[q].data

LEMMA WithinEffect ==
  ASSUME NEW d, NEW e, NEW p, Within(d, e, p) \/ Reached(d, e, p) \/ e = d
  PROVE  Effect(d, e, p)
BY DEF Within, Reached, Effect

LEMMA AttributesEffect ==
  ASSUME NEW d, WellFormed(d), NEW p \in Path, IsDir(d, p) \/ IsFile(d, p), NEW node \in Timed
  PROVE  Effect(d, ApplyAttributes(d, p, node), p)
<1> DEFINE e == ApplyAttributes(d, p, node)
<1>1. /\ \A q \in Path : e[q] = IF SameNode(d, p, q) THEN With(d[q], node) ELSE d[q]
      /\ \A q \in Path : SameNode(d, p, q) => d[q] \in Timed
  BY AttributeFacts
<1> HIDE DEF e
<1>2. ASSUME NEW q \in Path \ {p}, SameNode(d, p, q)
      PROVE  IsFile(e, q) /\ e[q].data = d[q].data
  <2>1. d[q] \in Timed /\ d[q].kind = "file" /\ e[q] = With(d[q], node)
    BY <1>1, <1>2 DEF SameNode, IsFile
  <2>2. e[q] \in Timed /\ e[q].kind = "file" /\ e[q].data = d[q].data
    BY <2>1, WithFacts
  <2> QED
    BY <2>2, NodeFacts DEF IsFile, Timed
<1> QED
  BY <1>1, <1>2 DEF Effect, e

LEMMA DirStep ==
  ASSUME TreeInv, ReceiveDir
  PROVE  /\ WellFormed(dest') /\ Effect(dest, dest', Current)
         /\ ~opts.dryRun => Reached(dest, dest', Current) /\ IsDir(dest', Current)
         /\ IsSymlink(dest', Current) <=> IsSymlink(dest, Current)
<1>1. todo # {}
  BY DEF ReceiveDir, At
<1>2. Current \in Path
  BY <1>1, EntryFacts
<1>3. CASE opts.dryRun /\ dest' = dest
  BY <1>3, WithinEffect DEF TreeInv
<1>4. CASE CanMkdirAll(dest, Current) /\ dest' = MkdirAll(dest, Current)
  <2>1. /\ WellFormed(dest') /\ Reached(dest, dest', Current) /\ IsDir(dest', Current)
        /\ Effect(dest, dest', Current)
    BY <1>2, <1>4, MadeFacts, WithinEffect DEF TreeInv
  <2>2. dest[Current] = Absent \/ IsDir(dest, Current)
    BY <1>2, <1>4, PathFacts DEF CanMkdirAll
  <2>3. ~IsSymlink(dest', Current) /\ ~IsSymlink(dest, Current)
    BY <2>1, <2>2 DEF IsDir, IsSymlink
  <2> QED
    BY <2>1, <2>3
<1> QED
  BY <1>3, <1>4 DEF ReceiveDir

LEMMA SymlinkStep ==
  ASSUME TreeInv, ReceiveSymlink
  PROVE  /\ WellFormed(dest') /\ Effect(dest, dest', Current)
         /\ \/ (opts.dryRun \/ ~opts.links) /\ dest' = dest
            \/ Reached(dest, dest', Current) /\ dest'[Current] = source[Current]
<1>1. todo # {} /\ source[Current].kind = "symlink"
  BY DEF ReceiveSymlink, At
<1>2. Current \in Path /\ Current \in list
  BY <1>1, EntryFacts
<1>3. CASE (opts.dryRun \/ ~opts.links) /\ dest' = dest
  BY <1>3, WithinEffect DEF TreeInv
<1>4. CASE /\ CanWrite(dest, Current) /\ CanRemove(dest, Current)
           /\ dest' = Put(MkdirAll(dest, Parent(Current)), Current, source[Current])
  <2>1. source[Current] \in Node /\ IsSymlink(source, Current) /\ source \in Sources
    BY <1>1, <1>2, SourceFacts DEF IsSymlink, TreeInv, TypeOK
  <2>2. WellFormed(dest)
    BY DEF TreeInv
  <2>3. WellFormed(dest') /\ Reached(dest, dest', Current) /\ dest'[Current] = source[Current]
    BY <1>1, <1>2, <1>4, <2>1, <2>2, LinkFacts
  <2> QED
    BY <2>3, WithinEffect
<1> QED
  BY <1>3, <1>4 DEF ReceiveSymlink

\* A file gets the source's bytes, as a new inode unless it has them, and then the
\* attributes, with the other names of its inode.
LEMMA FileResult ==
  ASSUME TreeInv, ReceiveFile, ~opts.dryRun
  PROVE  /\ Current \in Path /\ source[Current] \in Timed
         /\ LET e == Written(dest, Current)
            IN /\ WellFormed(e) /\ Reached(dest, e, Current)
               /\ IsFile(e, Current) /\ e[Current].data = source[Current].data
               /\ e = dest \/ \A q \in Path \ {Current} : ~SameNode(e, Current, q)
               /\ dest' = ApplyAttributes(e, Current, source[Current])
<1>1. todo # {} /\ source[Current].kind = "file" /\ ~IsDir(dest, Current)
  BY DEF ReceiveFile, At
<1>2. /\ CanMkdirAll(dest, Parent(Current))
      /\ Changed(dest, Current) => CanWrite(dest, Current)
      /\ dest' = ApplyAttributes(Written(dest, Current), Current, source[Current])
  BY DEF ReceiveFile
<1>3. Current \in Path /\ Current \in list
  BY <1>1, EntryFacts
<1>4. IsFile(source, Current) /\ source[Current] \in Timed /\ source \in Sources /\ WellFormed(dest)
  BY <1>1, <1>3, SourceFacts DEF IsFile, TreeInv, TypeOK
<1> DEFINE e == Written(dest, Current)
<1>5. /\ WellFormed(e) /\ Reached(dest, e, Current)
      /\ IsFile(e, Current) /\ e[Current].data = source[Current].data
      /\ e = dest \/ \A q \in Path \ {Current} : ~SameNode(e, Current, q)
  BY <1>1, <1>2, <1>3, <1>4, WrittenFacts
<1> HIDE DEF e
<1>6. dest' = ApplyAttributes(e, Current, source[Current])
  BY <1>2 DEF e
<1> QED
  BY <1>3, <1>4, <1>5, <1>6 DEF e

LEMMA FileStep ==
  ASSUME TreeInv, ReceiveFile
  PROVE  WellFormed(dest') /\ Effect(dest, dest', Current)
<1>1. CASE opts.dryRun
  BY <1>1, WithinEffect DEF ReceiveFile, TreeInv
<1>2. CASE ~opts.dryRun
  <2> DEFINE e == Written(dest, Current)
  <2>1. Current \in Path /\ source[Current] \in Timed
    BY <1>2, FileResult
  <2>2. /\ WellFormed(e) /\ Reached(dest, e, Current) /\ IsFile(e, Current)
        /\ e = dest \/ \A q \in Path \ {Current} : ~SameNode(e, Current, q)
        /\ dest' = ApplyAttributes(e, Current, source[Current])
    BY <1>2, FileResult
  <2> HIDE DEF e
  <2>3. WellFormed(dest') /\ Effect(e, dest', Current)
    BY <2>1, <2>2, AttributeFacts, AttributesEffect
  <2>4. CASE e = dest
    BY <2>3, <2>4
  <2>5. CASE \A q \in Path \ {Current} : ~SameNode(e, Current, q)
    <3>1. \A q \in Path : dest'[q] = IF SameNode(e, Current, q) THEN With(e[q], source[Current]) ELSE e[q]
      BY <2>1, <2>2, AttributeFacts
    <3>2. \A q \in Path \ {Current} : dest'[q] = e[q]
      BY <2>5, <3>1
    <3>3. Effect(dest, dest', Current)
      BY <2>2, <3>2 DEF Reached, Way, Effect
    <3> QED
      BY <2>3, <3>3
  <2> QED
    BY <2>2, <2>4, <2>5
<1> QED
  BY <1>1, <1>2

LEMMA LinkStep ==
  ASSUME TreeInv, ApplyHardLink
  PROVE  /\ WellFormed(dest') /\ Reached(dest, dest', NextLink(todo))
         /\ dest'[NextLink(todo)] = dest[Leader(NextLink(todo))]
<1> DEFINE p == NextLink(todo)
<1>1. pc = "links" /\ todo # {}
  BY DEF ApplyHardLink
<1>2. p \in Secondary /\ p \in list /\ p \in Path /\ Leader(p) \in Path
  <2>1. p \in Secondary
    BY <1>1, LinkOrderFacts
  <2>2. list \subseteq Path
    BY DEF TreeInv, TypeOK
  <2> QED
    BY <2>1, <2>2, GroupFacts
<1>3. /\ dest[Leader(p)] # Absent /\ CanWrite(dest, p) /\ CanRemove(dest, p)
      /\ dest' = Put(MkdirAll(dest, Parent(p)), p, dest[Leader(p)])
  BY DEF ApplyHardLink
<1>4. WellFormed(dest) /\ dest \in Tree
  BY DEF TreeInv, WellFormed, Tree
<1> HIDE DEF p
<1>5. dest[Leader(p)] \in Node
  BY <1>2, <1>3, <1>4 DEF Tree
<1>6. dest[Leader(p)].kind = "file" =>
        \A q \in Path : IsFile(dest, q) /\ dest[q].id = dest[Leader(p)].id => dest[q] = dest[Leader(p)]
  BY <1>2, <1>3, <1>4 DEF WellFormed, IsFile
<1> QED
  BY <1>2, <1>3, <1>4, <1>5, <1>6, LinkFacts DEF p

LEMMA DirAttributesStep ==
  ASSUME TreeInv, ApplyDirAttributes
  PROVE  /\ Final(todo) \in todo /\ Final(todo) \in Dirs
         /\ WellFormed(dest') /\ Effect(dest, dest', Final(todo))
         /\ \/ /\ IsDir(dest, Final(todo)) /\ outside' = outside
               /\ dest' = ApplyAttributes(dest, Final(todo), source[Final(todo)])
            \/ Astray(dest, Final(todo)) /\ dest' = dest
<1> DEFINE p == Final(todo)
<1>1. pc = "dirs" /\ todo # {} /\ todo \in SUBSET Path /\ todo \subseteq Dirs /\ WellFormed(dest)
  BY DEF ApplyDirAttributes, TreeInv, TypeOK
<1>2. p \in todo /\ p \in Dirs
  BY <1>1, FinalFacts
<1>3. p \in Path /\ source[p] \in Timed
  BY <1>1, <1>2, SourceFacts DEF Dirs
<1>4. CASE /\ IsDir(dest, p) /\ outside' = outside
           /\ dest' = ApplyAttributes(dest, p, source[p])
  BY <1>1, <1>2, <1>3, <1>4, AttributeFacts, AttributesEffect
<1>5. CASE Astray(dest, p) /\ dest' = dest
  BY <1>1, <1>2, <1>5, WithinEffect
<1> QED
  BY <1>4, <1>5 DEF ApplyDirAttributes, Follow

LEMMA DueFacts ==
  ASSUME TreeInv, pc \in {"entry", "links", "dirs"}, todo # {}
  PROVE  Due \in todo /\ Due \in list /\ Due \in Path
<1>1. todo \in SUBSET Path /\ todo \subseteq list
  BY DEF TreeInv, TypeOK
<1>2. CASE pc = "links"
  BY <1>1, <1>2, LinkOrderFacts DEF Due
<1>3. CASE pc # "links"
  BY <1>1, <1>3, FirstFacts, FinalFacts DEF Due, Current
<1> QED
  BY <1>1, <1>2, <1>3

LEMMA FailsStep ==
  ASSUME TreeInv, Fails
  PROVE  WellFormed(dest') /\ (dest' = dest \/ \E p \in list : Effect(dest, dest', p))
<1>1. /\ todo # {} /\ pc \in {"entry", "links", "dirs"} /\ WellFormed(dest)
      /\ source \in Sources /\ list \subseteq Path
  BY DEF Fails, TreeInv, TypeOK
<1>2. CASE dest' = dest
  BY <1>1, <1>2
<1>3. ASSUME NEW p \in list, dest' \in Attempts(p)
      PROVE  WellFormed(dest') /\ Effect(dest, dest', p)
  BY <1>1, <1>3, AttemptsFacts, WithinEffect
<1>4. CASE dest' \in Attempts(Due)
  BY <1>1, <1>3, <1>4, DueFacts
<1>5. CASE dest' \in DirAttempts(Due)
  <2>1. ASSUME NEW q \in PathsTo(Due), CanMkdirAll(dest, Due), dest' = MkdirAll(dest, q)
        PROVE  WellFormed(dest') /\ Effect(dest, dest', Due)
    <3>1. Due \in list /\ Due \in Path
      BY <1>1, DueFacts
    <3> HIDE DEF Due
    <3>2. q \in Path /\ CanMkdirAll(dest, q) /\ PathsTo(q) \subseteq PathsTo(Due)
      BY <2>1, <3>1, PathFacts, PartFacts
    <3>3. WellFormed(dest') /\ \A x \in Path : dest'[x] = dest[x] \/ (x \in PathsTo(q) /\ Way(dest, dest', x))
      BY <1>1, <2>1, <3>2, MadeFacts, MkdirAllFacts DEF WellFormed, Tree
    <3> QED
      BY <3>1, <3>2, <3>3, PathFacts DEF Effect
  <2> QED
    BY <1>1, <1>2, <1>5, <2>1, DueFacts DEF DirAttempts
<1> QED
  BY <1>2, <1>4, <1>5 DEF Fails

-----------------------------------------------------------------------------
(* The theorems. *)

LEMMA InitTree == Init => TreeInv
<1> SUFFICES ASSUME Init PROVE TreeInv
  OBVIOUS
<1>1. source \in Sources /\ dest \in Dests /\ WellFormed(dest) /\ start = dest
  BY TreeAssumption DEF Init
<1>2. outside \in BOOLEAN
  BY DEF Init
<1>3. opts \in Options
  BY DEF Init, Flags, Options
<1>4. lines \in [Path -> SUBSET Mark]
  BY DEF Init, NoLines
<1>5. /\ list = {} /\ groups = {} /\ todo = {} /\ pc = "idle" /\ runs \in 0..MaxRuns
  BY CommandAssumption DEF Init
<1> QED
  BY <1>1, <1>2, <1>3, <1>4, <1>5 DEF TreeInv, TypeOK

LEMMA BeginTree == TreeInv /\ Begin => TreeInv'
<1> SUFFICES ASSUME TreeInv, Begin PROVE TreeInv'
  OBVIOUS
<1>1. PICK c \in Commands :
        LET kept == FilterEntries(source, Walk(source, c.opts.walk), c.rules)
        IN /\ opts' = c.opts /\ list' = kept /\ todo' = kept
           /\ groups' \in {{}, DetectHardLinks(source, kept)}
  BY DEF Begin, HardLinkGroups
<1>2. /\ source' = source /\ dest' = dest /\ start' = dest /\ pc' = "entry" /\ lines' = NoLines
      /\ outside' \in BOOLEAN
      /\ runs < MaxRuns /\ runs' = runs + 1
  BY DEF Begin
<1>3. list' \subseteq Path /\ \A p \in list' : source'[p] # Absent
  BY <1>1, <1>2 DEF FilterEntries, Walk
<1>4. groups' \in {{}, DetectHardLinks(source', list')}
  BY <1>1, <1>2
<1>5. groups' \subseteq SUBSET Path
  BY <1>3, <1>4 DEF DetectHardLinks, SameInode
<1>6. opts' \in Options /\ todo' = list'
  BY <1>1, CommandAssumption
<1>7. lines' \in [Path -> SUBSET Mark]
  BY <1>2 DEF NoLines
<1>8. source' \in Sources /\ WellFormed(dest') /\ WellFormed(dest') /\ WellFormed(start')
  BY <1>2 DEF TreeInv, TypeOK
<1>9. runs' \in 0..MaxRuns
  BY <1>2, CommandAssumption DEF TreeInv, TypeOK
<1> QED
  BY <1>2, <1>3, <1>4, <1>5, <1>6, <1>7, <1>8, <1>9 DEF TreeInv, TypeOK

LEMMA EditTree == TreeInv /\ EditSource => TreeInv'
<1> SUFFICES ASSUME TreeInv, EditSource PROVE TreeInv'
  OBVIOUS
<1>1. /\ source' \in Sources /\ dest' = dest /\ start' = dest /\ runs' = runs
      /\ list' = {} /\ groups' = {} /\ todo' = {} /\ pc' = "idle" /\ outside' \in BOOLEAN
  BY DEF EditSource
<1>2. opts' \in Options
  BY DEF EditSource, Flags, Options
<1>3. lines' \in [Path -> SUBSET Mark]
  BY DEF EditSource, NoLines
<1>4. WellFormed(dest') /\ WellFormed(dest') /\ WellFormed(start') /\ runs' \in 0..MaxRuns
  BY <1>1 DEF TreeInv, TypeOK
<1> QED
  BY <1>1, <1>2, <1>3, <1>4 DEF TreeInv, TypeOK

\* Within a run only what follows changes.
LEMMA RunTree ==
  ASSUME TreeInv, UNCHANGED run, WellFormed(dest'), todo' \subseteq list,
         lines' \in [Path -> SUBSET Mark],
         pc' \in {"entry", "links", "dirs", "done", "failed"},
         pc' = "links" => todo' \subseteq Secondary,
         pc' = "dirs" => todo' \subseteq Dirs,
         pc' = "done" => todo' = {},
         pc' \in {"links", "dirs"} => ~opts.dryRun, outside' \in BOOLEAN
  PROVE  TreeInv'
<1>1. /\ source' = source /\ opts' = opts /\ list' = list /\ groups' = groups
      /\ start' = start /\ runs' = runs
  BY DEF run
<1>2. Secondary' = Secondary /\ Dirs' = Dirs
  BY <1>1 DEF Secondary, Dirs, IsDir
<1>3. WellFormed(dest') /\ WellFormed(start')
  BY <1>1 DEF TreeInv, TypeOK
<1>4. todo' \subseteq Path
  BY DEF TreeInv, TypeOK
<1> QED
  BY <1>1, <1>2, <1>3, <1>4 DEF TreeInv, TypeOK

LEMMA EntryTree ==
  ASSUME TreeInv, Report, pc = "entry", WellFormed(dest'), outside' \in BOOLEAN
  PROVE  TreeInv'
<1>1. /\ lines' = [lines EXCEPT ![Current] = Line(dest, Current)]
      /\ todo' = todo \ {Current} /\ UNCHANGED run /\ pc' = pc
  BY DEF Report, Old
<1>2. Line(dest, Current) \subseteq Mark
  BY LineType DEF TreeInv, TypeOK
<1>3. lines' \in [Path -> SUBSET Mark]
  BY <1>1, <1>2 DEF TreeInv, TypeOK
<1>4. todo' \subseteq list
  BY <1>1 DEF TreeInv
<1> QED
  BY <1>1, <1>3, <1>4, RunTree

LEMMA PassTree == TreeInv /\ (EndPass \/ ApplyHardLink \/ LinkBehind \/ ApplyDirAttributes \/ Fails) => TreeInv'
<1> SUFFICES ASSUME TreeInv, EndPass \/ ApplyHardLink \/ LinkBehind \/ ApplyDirAttributes \/ Fails
             PROVE  TreeInv'
  OBVIOUS
<1>1. UNCHANGED <<run, lines>> /\ outside' \in BOOLEAN
  BY DEF EndPass, ApplyHardLink, LinkBehind, ApplyDirAttributes, Fails, Follow, TreeInv, TypeOK
<1>2. lines' \in [Path -> SUBSET Mark]
  BY <1>1 DEF TreeInv, TypeOK
<1>3. CASE EndPass
  <2>1. WellFormed(dest') /\ pc' \in {"links", "dirs", "done"}
    BY <1>3 DEF EndPass, TreeInv, Passes
  <2>2. todo' = IF pc' = "links" THEN Secondary ELSE IF pc' = "dirs" THEN Dirs ELSE {}
    BY <1>3 DEF EndPass
  <2>3. todo' \subseteq list /\ (pc' \in {"links", "dirs"} => ~opts.dryRun)
    BY <1>3, <2>2, GroupFacts DEF EndPass, Dirs
  <2> QED
    BY <1>1, <1>2, <2>1, <2>2, <2>3, RunTree
<1>4. CASE ApplyHardLink \/ LinkBehind \/ ApplyDirAttributes \/ Fails
  <2>1. WellFormed(dest')
    BY <1>4, LinkStep, DirAttributesStep, FailsStep DEF LinkBehind, Follow, TreeInv
  <2>2. todo' \subseteq todo /\ (pc' = pc \/ pc' = "failed") /\ pc \in {"entry", "links", "dirs"}
    BY <1>4 DEF ApplyHardLink, LinkBehind, ApplyDirAttributes, Fails
  <2> QED
    BY <1>1, <1>2, <2>1, <2>2, RunTree DEF TreeInv
<1> QED
  BY <1>3, <1>4

LEMMA NextTree == TreeInv /\ [Next]_vars => TreeInv'
<1> SUFFICES ASSUME TreeInv, [Next]_vars PROVE TreeInv'
  OBVIOUS
<1>1. CASE Begin
  BY <1>1, BeginTree
<1>2. CASE EditSource
  BY <1>2, EditTree
<1>3. CASE ReceiveDir \/ ReceiveSymlink \/ SkipSecondary \/ ReceiveFile \/ FollowLink
  <2>1. WellFormed(dest')
    BY <1>3, DirStep, SymlinkStep, FileStep DEF SkipSecondary, FollowLink, Follow, TreeInv
  <2>2. Report /\ pc = "entry" /\ outside' \in BOOLEAN
    BY <1>3 DEF ReceiveDir, ReceiveSymlink, SkipSecondary, ReceiveFile, FollowLink, Follow, At,
                TreeInv, TypeOK
  <2> QED
    BY <2>1, <2>2, EntryTree
<1>4. CASE EndPass \/ ApplyHardLink \/ LinkBehind \/ ApplyDirAttributes \/ Fails
  BY <1>4, PassTree
<1>5. CASE UNCHANGED vars
  BY <1>5 DEF vars, TreeInv, TypeOK, Secondary, Dirs, IsDir
<1> QED
  BY <1>1, <1>2, <1>3, <1>4, <1>5 DEF Next, Step

\* In every state the destination is a file system, and a pass has only paths of the
\* list before it that the source has: hard links to make, or directories.  No pass
\* after the entries is part of a dry run.
THEOREM TreeInvariant == Spec => []TreeInv
<1>1. Init => TreeInv
  BY InitTree
<1>2. TreeInv /\ [Next]_vars => TreeInv'
  BY NextTree
<1> QED
  BY <1>1, <1>2, PTL DEF Spec

\* Whatever a run does, completes or leaves behind when it fails: no name without
\* its directory, and one content and one set of attributes for each inode.
THEOREM TreeTypeCorrect == Spec => []TypeOK
<1>1. TreeInv => TypeOK
  BY DEF TreeInv
<1> QED
  BY <1>1, TreeInvariant, PTL

\* "Receiver only ever touches paths present in the sender's file list": another one
\* changes as a directory on the way to a listed one, which is made or touched, or
\* as a name of a listed file's inode, which gets attributes and keeps its content.
\* Behind a symlink of the destination something changes only if it is above a listed
\* path or in the place of what is no symlink in the source.
THEOREM OnlyListedCorrect == Spec => OnlyListed
<1> DEFINE Only(d, e) ==
             \A p \in Path \ list : e[p] # d[p] =>
               \/ /\ \E q \in list : p \in Above(q)
                  /\ d[p] = Absent \/ e[p] = [d[p] EXCEPT !.time = "now"]
               \/ /\ IsFile(d, p) /\ IsFile(e, p) /\ e[p].data = d[p].data
                  /\ \E q \in list : IsFile(d, q) /\ d[q].id = d[p].id
<1>1. ASSUME NEW d, NEW e, e = d \/ \E q \in list : Effect(d, e, q)
      PROVE  Only(d, e)
  <2> SUFFICES ASSUME NEW p \in Path \ list, NEW q \in list, Effect(d, e, q), e[p] # d[p]
               PROVE  \/ /\ p \in Above(q)
                         /\ d[p] = Absent \/ e[p] = [d[p] EXCEPT !.time = "now"]
                      \/ /\ IsFile(d, p) /\ IsFile(e, p) /\ e[p].data = d[p].data
                         /\ IsFile(d, q) /\ d[q].id = d[p].id
    BY <1>1
  <2>1. CASE p \in Above(q) /\ Way(d, e, p)
    BY <2>1 DEF Way, Touched
  <2>2. CASE SameNode(d, q, p) /\ IsFile(e, p) /\ e[p].data = d[p].data
    BY <2>2 DEF SameNode
  <2> QED
    BY <2>1, <2>2 DEF Effect
<1>2. ASSUME TreeInv, [Next]_vars
      PROVE  dest' = dest \/ \E q \in list : Effect(dest, dest', q)
  <2>1. CASE Begin \/ EditSource \/ SkipSecondary \/ EndPass \/ UNCHANGED vars
    BY <2>1 DEF Begin, EditSource, SkipSecondary, EndPass, vars
  <2>2. CASE ReceiveDir \/ ReceiveSymlink \/ ReceiveFile
    <3>1. Current \in list
      BY <1>2, <2>2, EntryFacts DEF ReceiveDir, ReceiveSymlink, ReceiveFile, At
    <3> QED
      BY <1>2, <2>2, <3>1, DirStep, SymlinkStep, FileStep
  <2>3. CASE ApplyHardLink
    <3>1. NextLink(todo) \in list
      BY <1>2, <2>3, LinkOrderFacts, GroupFacts DEF ApplyHardLink
    <3> QED
      BY <1>2, <2>3, <3>1, LinkStep, WithinEffect
  <2>4. CASE ApplyDirAttributes
    BY <1>2, <2>4, DirAttributesStep DEF Dirs
  <2>5. CASE FollowLink \/ LinkBehind
    BY <2>5 DEF FollowLink, LinkBehind, Follow
  <2>6. CASE Fails
    BY <1>2, <2>6, FailsStep
  <2> QED
    BY <1>2, <2>1, <2>2, <2>3, <2>4, <2>5, <2>6 DEF Next, Step
<1>3. ASSUME TreeInv, [Next]_vars, outside', ~outside
      PROVE  ~opts.dryRun /\ \E q \in list : Astray(dest, q)
  <2>1. FollowLink \/ LinkBehind \/ ApplyDirAttributes \/ Fails
    BY <1>3
    DEF vars, Next, Step, Begin, EditSource, ReceiveDir, ReceiveSymlink, SkipSecondary,
        ReceiveFile, EndPass, ApplyHardLink
  <2>2. CASE FollowLink
    BY <1>3, <2>2, EntryFacts DEF FollowLink, Follow
  <2>3. CASE LinkBehind
    <3>1. NextLink(todo) \in list /\ ~opts.dryRun
      BY <1>3, <2>3, LinkOrderFacts, GroupFacts DEF LinkBehind, TreeInv
    <3> QED
      BY <2>3, <3>1 DEF LinkBehind, Astray
  <2>4. CASE ApplyDirAttributes
    BY <1>3, <2>4, DirAttributesStep DEF ApplyDirAttributes, Dirs, TreeInv
  <2>5. CASE Fails
    BY <1>3, <2>5, DueFacts DEF Fails
  <2> QED
    BY <2>1, <2>2, <2>3, <2>4, <2>5
<1>4. TreeInv /\ [Next]_vars => Only(dest, dest')
  BY <1>1, <1>2
<1>5. TreeInv /\ [Next]_vars =>
        [/\ \A p \in Path \ list : dest'[p] # dest[p] =>
              \/ /\ \E q \in list : p \in Above(q)
                 /\ dest[p] = Absent \/ dest'[p] = [dest[p] EXCEPT !.time = "now"]
              \/ /\ IsFile(dest, p) /\ IsFile(dest', p) /\ dest'[p].data = dest[p].data
                 /\ \E q \in list : IsFile(dest, q) /\ dest[q].id = dest[p].id
         /\ outside' /\ ~outside => ~opts.dryRun /\ \E p \in list : Astray(dest, p)]_vars
  BY <1>3, <1>4
<1> QED
  BY <1>5, TreeInvariant, PTL DEF Spec, OnlyListed

-----------------------------------------------------------------------------
(* The lines of --itemize-changes. *)

\* A path of the list comes behind no symlink, nor from behind one: the source has
\* directories above it, and no operation replaces a symlink by one or the reverse.
LEMMA BehindStays ==
  ASSUME TreeInv, NEW d \in Tree, NEW e, NEW c, Effect(d, e, c),
         IsDir(source, c) => (IsSymlink(e, c) <=> IsSymlink(d, c)), NEW p \in list
  PROVE  Behind(e, p) <=> Behind(d, p)
<1> SUFFICES ASSUME NEW q \in Above(p)
             PROVE  IsSymlink(e, q) <=> IsSymlink(d, q)
  BY DEF Behind
<1>1. p \in Path /\ source[p] # Absent /\ WellFormed(source)
  BY SourceFacts, TreeAssumption DEF TreeInv, TypeOK
<1>2. q \in Path /\ IsDir(source, q)
  BY <1>1, PlaceFacts DEF WellFormed
<1>3. CASE q = c
  BY <1>2, <1>3
<1>4. CASE q # c /\ Way(d, e, q)
  <2>1. CASE e[q] = d[q]
    BY <2>1 DEF IsSymlink
  <2>2. CASE e[q] = NewDir /\ d[q] = Absent
    BY <2>2 DEF IsSymlink, NewDir
  <2>3. CASE IsDir(d, q) /\ e[q] = Touched(d[q])
    <3>1. d[q] \in Node /\ d[q].kind = "dir"
      BY <1>2, <2>3 DEF IsDir, Tree
    <3>2. e[q].kind = "dir"
      BY <2>3, <3>1, NodeFacts
    <3> QED
      BY <3>1, <3>2 DEF IsSymlink
  <2> QED
    BY <1>4, <2>1, <2>2, <2>3 DEF Way
<1>5. CASE IsFile(d, q) /\ IsFile(e, q)
  BY <1>5 DEF IsFile, IsSymlink
<1>6. CASE e[q] = d[q]
  BY <1>6 DEF IsSymlink
<1> QED
  BY <1>2, <1>3, <1>4, <1>5, <1>6 DEF Effect, SameNode

LEMMA StepBehind ==
  ASSUME TreeInv, Step, NEW p \in list
  PROVE  Behind(dest', p) <=> Behind(dest, p)
<1>1. dest \in Tree
  BY DEF TreeInv, WellFormed, Tree
<1>2. CASE dest' = dest
  BY <1>2
<1>3. CASE ReceiveDir
  BY <1>1, <1>3, DirStep, BehindStays
<1>4. CASE ReceiveSymlink
  <2>1. ~IsDir(source, Current)
    BY <1>4 DEF ReceiveSymlink, At, IsDir
  <2> QED
    BY <1>1, <1>4, <2>1, SymlinkStep, BehindStays
<1>5. CASE ReceiveFile
  <2>1. ~IsDir(source, Current)
    BY <1>5 DEF ReceiveFile, At, IsDir
  <2> QED
    BY <1>1, <1>5, <2>1, FileStep, BehindStays
<1>6. CASE ApplyHardLink
  <2>1. ~IsDir(source, NextLink(todo))
    BY <1>6, LinkOrderFacts, GroupFacts DEF ApplyHardLink, IsDir, IsFile
  <2>2. Effect(dest, dest', NextLink(todo))
    BY <1>6, LinkStep, WithinEffect
  <2> QED
    BY <1>1, <2>1, <2>2, BehindStays
<1>7. CASE ApplyDirAttributes /\ dest' # dest
  <2> DEFINE t == Final(todo)
  <2>1. /\ t \in Dirs /\ t \in Path /\ IsDir(dest, t) /\ Effect(dest, dest', t)
        /\ dest' = ApplyAttributes(dest, t, source[t])
    BY <1>7, DirAttributesStep DEF Dirs, TreeInv, TypeOK
  <2> HIDE DEF t
  <2>2. source[t] \in Timed /\ WellFormed(dest)
    BY <2>1, SourceFacts DEF Dirs, TreeInv
  <2>3. dest'[t] = With(dest[t], source[t]) /\ dest[t] \in Timed /\ dest[t].kind = "dir"
    BY <2>1, <2>2, AttributeFacts DEF SameNode, IsDir
  <2>4. dest'[t].kind = "dir"
    BY <2>2, <2>3, WithFacts
  <2> QED
    BY <1>1, <2>1, <2>3, <2>4, BehindStays DEF IsSymlink
<1> QED
  BY <1>2, <1>3, <1>4, <1>5, <1>6, <1>7
  DEF Step, SkipSecondary, FollowLink, EndPass, LinkBehind, Follow

\* No inode of the destination has two files that are written apart.
Apart == \A p \in list : Tangled(start, p) = {}

\* The line of an entry compares it with the destination as the run found it: the
\* earlier entries have not touched the ones still to come.
LinesInv ==
  pc \in {"entry", "links", "dirs", "done"} /\ Apart =>
    /\ \A p \in Path : lines[p] = IF p \in list /\ (pc = "entry" => p \notin todo)
                                    THEN Line(start, p) ELSE {}
    /\ pc = "entry" => \A q \in todo \ Secondary : dest[q] = start[q]
    /\ \A p \in list : Behind(dest, p) <=> Behind(start, p)

LEMMA SameLine ==
  ASSUME NEW d, NEW e, NEW p,
         (d[p] = e[p] /\ (Behind(d, p) <=> Behind(e, p))) \/ p \in Secondary
  PROVE  Line(d, p) = Line(e, p)
<1>1. CASE p \in Secondary
  BY <1>1 DEF Line
<1>2. CASE d[p] = e[p] /\ (Behind(d, p) <=> Behind(e, p))
  <2>1. Astray(d, p) <=> Astray(e, p)
    BY <1>2 DEF Astray, IsSymlink
  <2>2. Marks(d, p) = Marks(e, p)
    BY <1>2 DEF Marks, IsSymlink, IsFile, Changed
  <2> QED
    BY <2>1, <2>2 DEF Line
<1> QED
  BY <1>1, <1>2

\* What the entry at hand does leaves the ones still to come as they are.
LEMMA EntryLines ==
  ASSUME TreeInv, LinesInv, Apart, pc = "entry",
         ReceiveDir \/ ReceiveSymlink \/ SkipSecondary \/ ReceiveFile \/ FollowLink
  PROVE  \A q \in todo \ (Secondary \cup {Current}) : dest'[q] = dest[q]
<1>1. todo # {}
  BY DEF ReceiveDir, ReceiveSymlink, SkipSecondary, ReceiveFile, FollowLink, At
<1>2. Current \in todo /\ Current \in list /\ \A q \in todo : q \notin Above(Current)
  BY <1>1, EntryFacts
<1>3. CASE SkipSecondary \/ FollowLink
  BY <1>3 DEF SkipSecondary, FollowLink, Follow
<1>4. CASE ReceiveDir \/ ReceiveSymlink \/ ReceiveFile
  <2>1. Effect(dest, dest', Current)
    BY <1>4, DirStep, SymlinkStep, FileStep
  <2>2. Current \notin Secondary
    <3>1. CASE ReceiveFile
      BY <3>1 DEF ReceiveFile
    <3>2. CASE ReceiveDir \/ ReceiveSymlink
      <4>1. ~IsFile(source, Current)
        BY <3>2 DEF ReceiveDir, ReceiveSymlink, At, IsFile
      <4> QED
        BY <4>1, GroupFacts
    <3> QED
      BY <1>4, <3>1, <3>2
  <2>3. ASSUME NEW q \in todo \ (Secondary \cup {Current})
        PROVE  dest'[q] = dest[q]
    <3>1. q \in list /\ q \in Path
      BY DEF TreeInv, TypeOK
    <3>2. dest[q] = start[q] /\ dest[Current] = start[Current]
      BY <1>2, <2>2 DEF LinesInv
    <3>3. q \notin Tangled(start, Current)
      BY <1>2 DEF Apart
    <3>4. ~SameNode(dest, Current, q)
      BY <3>1, <3>2, <3>3 DEF SameNode, Tangled, IsFile
    <3> QED
      BY <1>2, <2>1, <3>1, <3>4 DEF Effect
  <2> QED
    BY <2>3
<1> QED
  BY <1>3, <1>4

LEMMA NextLines == TreeInv /\ LinesInv /\ [Next]_vars => LinesInv'
<1> SUFFICES ASSUME TreeInv, LinesInv, [Next]_vars PROVE LinesInv'
  OBVIOUS
<1>1. CASE Begin
  BY <1>1 DEF Begin, LinesInv, NoLines, Behind
<1>2. CASE EditSource \/ Fails
  BY <1>2 DEF EditSource, Fails, LinesInv
<1>3. CASE ReceiveDir \/ ReceiveSymlink \/ SkipSecondary \/ ReceiveFile \/ FollowLink
  <2>1. /\ lines' = [lines EXCEPT ![Current] = Line(dest, Current)]
        /\ todo' = todo \ {Current} /\ UNCHANGED run /\ pc' = pc /\ pc = "entry" /\ todo # {}
    BY <1>3 DEF ReceiveDir, ReceiveSymlink, SkipSecondary, ReceiveFile, FollowLink, Report, At, Old
  <2>2. /\ source' = source /\ opts' = opts /\ list' = list /\ groups' = groups /\ start' = start
        /\ Secondary' = Secondary
    BY <2>1 DEF run, Secondary
  <2>3. Apart' = Apart
    BY <2>2 DEF Apart, Tangled
  <2>4. \A p : Line(start, p)' = Line(start, p)
    BY <2>2 DEF Line, Marks, Changed, Astray, Behind, IsSymlink, IsFile
  <2> SUFFICES ASSUME Apart
               PROVE  /\ \A p \in Path : lines'[p] = IF p \in list /\ p \notin todo'
                                                       THEN Line(start, p) ELSE {}
                      /\ \A q \in todo' \ Secondary : dest'[q] = start[q]
                      /\ \A p \in list : Behind(dest', p) <=> Behind(start, p)
    BY <2>1, <2>2, <2>3, <2>4 DEF LinesInv
  <2>5. Current \in todo /\ Current \in list /\ Current \in Path
    BY <2>1, EntryFacts
  <2>6. Line(dest, Current) = Line(start, Current)
    BY <2>1, <2>5, SameLine DEF LinesInv
  <2>7. lines \in [Path -> SUBSET Mark]
    BY DEF TreeInv, TypeOK
  <2>8. \A p \in Path : lines'[p] = IF p = Current THEN Line(start, Current) ELSE lines[p]
    BY <2>1, <2>6, <2>7
  <2>9. \A q \in todo' \ Secondary : dest'[q] = start[q]
    BY <1>3, <2>1, EntryLines DEF LinesInv
  <2>10. \A p \in list : Behind(dest', p) <=> Behind(start, p)
    BY <1>3, <2>1, StepBehind DEF Step, LinesInv
  <2> QED
    BY <2>1, <2>5, <2>8, <2>9, <2>10 DEF LinesInv
<1>4. CASE EndPass \/ ApplyHardLink \/ LinkBehind \/ ApplyDirAttributes
  <2>1. /\ UNCHANGED <<run, lines>> /\ pc' \in {"links", "dirs", "done"}
        /\ pc \in {"entry", "links", "dirs"} /\ (pc = "entry" => todo = {})
    BY <1>4 DEF EndPass, ApplyHardLink, LinkBehind, ApplyDirAttributes, Passes
  <2>2. /\ source' = source /\ opts' = opts /\ list' = list /\ groups' = groups /\ start' = start
        /\ lines' = lines /\ Secondary' = Secondary
    BY <2>1 DEF run, Secondary
  <2>3. Apart' = Apart
    BY <2>2 DEF Apart, Tangled
  <2>4. \A p : Line(start, p)' = Line(start, p)
    BY <2>2 DEF Line, Marks, Changed, Astray, Behind, IsSymlink, IsFile
  <2>5. \A p \in list : Behind(dest', p) <=> Behind(dest, p)
    BY <1>4, StepBehind DEF Step
  <2> QED
    BY <2>1, <2>2, <2>3, <2>4, <2>5 DEF LinesInv, Behind
<1>5. CASE UNCHANGED vars
  <2>1. /\ source' = source /\ opts' = opts /\ list' = list /\ groups' = groups /\ start' = start
        /\ lines' = lines /\ pc' = pc /\ todo' = todo /\ dest' = dest /\ Secondary' = Secondary
    BY <1>5 DEF vars, Secondary
  <2>2. Apart' = Apart
    BY <2>1 DEF Apart, Tangled
  <2>3. \A p : Line(start, p)' = Line(start, p)
    BY <2>1 DEF Line, Marks, Changed, Astray, Behind, IsSymlink, IsFile
  <2> QED
    BY <2>1, <2>2, <2>3 DEF LinesInv, Behind
<1> QED
  BY <1>1, <1>2, <1>3, <1>4, <1>5 DEF Next, Step

\* "Output is identical between a dry run and the real run that would follow it":
\* where the destination has no inode for two files that are written apart, a run
\* that succeeds has printed for each entry the line of the destination it found,
\* and so what a dry run prints; not compared are the lines of what was behind a
\* symlink.
THEOREM SameAsDryRunCorrect == Spec => []SameAsDryRun
<1>1. Init => LinesInv
  BY DEF Init, LinesInv
<1>2. TreeInv /\ LinesInv => SameAsDryRun
  <2> SUFFICES ASSUME TreeInv, LinesInv, pc = "done", Apart
               PROVE  \A p \in Path : lines[p] = DryRunLines[p]
    BY DEF SameAsDryRun, Apart
  <2> QED
    BY DEF LinesInv, DryRunLines
<1>3. Spec => []LinesInv
  BY <1>1, NextLines, TreeInvariant, PTL DEF Spec
<1> QED
  BY <1>2, <1>3, TreeInvariant, PTL

-----------------------------------------------------------------------------
(* What a run has settled. *)

\* n has the attributes of m that are kept.
Agrees(n, m) == /\ "perms" \in opts.attrs => n.perm = m.perm
                /\ "times" \in opts.attrs => n.time = m.time

\* d has the entries of P that no symlink is in the way of: a file with the source's
\* bytes, and the attributes of an entry of P that is another name of its inode, or
\* its own.
Settles(d, P) ==
  /\ \A p \in P : IsDir(source, p) => IsDir(d, p) \/ Astray(d, p)
  /\ \A p \in P : IsSymlink(source, p) /\ opts.links => d[p] = source[p] \/ Astray(d, p)
  /\ \A p \in P \ Secondary : IsFile(source, p) /\ ~Astray(d, p) =>
       /\ IsFile(d, p) /\ d[p].data = source[p].data
       /\ \E q \in P \ Secondary : /\ IsFile(source, q) /\ SameNode(d, p, q)
                                   /\ Agrees(d[p], source[q])

\* The entries the run has come past.
Past == IF pc = "entry" THEN list \ todo ELSE list

SettledInv ==
  pc \in {"entry", "links", "dirs", "done"} /\ ~opts.dryRun =>
    /\ Settles(dest, Past)
    /\ pc \in {"dirs", "done"} =>
         \A p \in Dirs \ todo : Agrees(dest[p], source[p]) \/ Astray(dest, p)

\* What is settled stays so while only directories change.
LEMMA SettlesOn ==
  ASSUME TreeInv, NEW P \in SUBSET list, NEW d, NEW e, Settles(d, P),
         \A q \in P : Behind(e, q) <=> Behind(d, q),
         \A q \in P \ Secondary : \/ e[q] = d[q] \/ d[q] = Absent
                                  \/ IsDir(d, q) /\ IsDir(e, q)
  PROVE  Settles(e, P)
<1>1. \A p \in P \ Secondary : Astray(d, p) => Astray(e, p)
  BY DEF Astray, IsDir, IsSymlink
<1>2. ASSUME NEW p \in P, IsDir(source, p)
      PROVE  IsDir(e, p) \/ Astray(e, p)
  <2>1. p \notin Secondary
    BY <1>2, GroupFacts DEF IsDir, IsFile
  <2>2. IsDir(d, p) \/ Astray(d, p)
    BY <1>2 DEF Settles
  <2> QED
    BY <1>1, <2>1, <2>2 DEF IsDir
<1>3. ASSUME NEW p \in P, IsSymlink(source, p), opts.links
      PROVE  e[p] = source[p] \/ Astray(e, p)
  <2>1. p \notin Secondary
    BY <1>3, GroupFacts DEF IsSymlink, IsFile
  <2>2. CASE d[p] = source[p]
    BY <1>3, <2>1, <2>2 DEF IsDir, IsSymlink
  <2> QED
    BY <1>1, <1>3, <2>1, <2>2 DEF Settles
<1>4. \A p \in P \ Secondary : IsFile(d, p) => e[p] = d[p] /\ IsFile(e, p)
  BY DEF IsDir, IsFile
<1>5. ASSUME NEW p \in P \ Secondary, IsFile(source, p), ~Astray(e, p)
      PROVE  /\ IsFile(e, p) /\ e[p].data = source[p].data
             /\ \E q \in P \ Secondary : /\ IsFile(source, q) /\ SameNode(e, p, q)
                                         /\ Agrees(e[p], source[q])
  <2>1. ~Astray(d, p) /\ IsFile(d, p) /\ d[p].data = source[p].data
    BY <1>1, <1>5 DEF Settles
  <2>2. PICK q \in P \ Secondary : IsFile(source, q) /\ SameNode(d, p, q) /\ Agrees(d[p], source[q])
    BY <1>5, <2>1 DEF Settles
  <2>3. e[p] = d[p] /\ IsFile(e, p)
    BY <1>4, <2>1
  <2>4. SameNode(e, p, q)
    BY <1>4, <2>2, <2>3 DEF SameNode
  <2> QED
    BY <2>1, <2>2, <2>3, <2>4
<1> QED
  BY <1>2, <1>3, <1>5 DEF Settles

\* One more entry.
LEMMA SettlesMore ==
  ASSUME NEW P, NEW d, NEW p, Settles(d, P),
         \/ Astray(d, p)
         \/ /\ IsDir(source, p) => IsDir(d, p)
            /\ IsSymlink(source, p) /\ opts.links => d[p] = source[p]
            /\ IsFile(source, p) /\ p \notin Secondary =>
                 IsFile(d, p) /\ d[p].data = source[p].data /\ Agrees(d[p], source[p])
  PROVE  Settles(d, P \cup {p})
<1>1. SameNode(d, p, p)
  BY DEF SameNode
<1>2. \A q \in (P \cup {p}) \ Secondary : IsFile(source, q) /\ ~Astray(d, q) =>
        /\ IsFile(d, q) /\ d[q].data = source[q].data
        /\ \E r \in (P \cup {p}) \ Secondary : /\ IsFile(source, r) /\ SameNode(d, q, r)
                                               /\ Agrees(d[q], source[r])
  <2> TAKE q \in (P \cup {p}) \ Secondary
  <2> HAVE IsFile(source, q) /\ ~Astray(d, q)
  <2>1. CASE q = p
    BY <1>1, <2>1
  <2>2. CASE q \in P
    BY <2>2 DEF Settles
  <2> QED
    BY <2>1, <2>2
<1> QED
  BY <1>2 DEF Settles

\* A file that has its bytes gets its attributes, with the other names of its inode.
LEMMA SettlesAttributes ==
  ASSUME TreeInv, NEW P \in SUBSET list, NEW d, WellFormed(d), NEW p \in list, Settles(d, P),
         IsFile(source, p), p \notin Secondary, IsFile(d, p), d[p].data = source[p].data
  PROVE  Settles(ApplyAttributes(d, p, source[p]), P \cup {p})
<1> DEFINE e == ApplyAttributes(d, p, source[p])
<1>1. p \in Path /\ source[p] \in Timed /\ list \subseteq Path
  BY SourceFacts DEF TreeInv, TypeOK
<1>2. /\ \A q \in Path : e[q] = IF SameNode(d, p, q) THEN With(d[q], source[p]) ELSE d[q]
      /\ \A q \in Path : SameNode(d, p, q) => d[q] \in Timed
  BY <1>1, AttributeFacts
<1> HIDE DEF e
<1>3. ASSUME NEW q \in Path, SameNode(d, p, q)
      PROVE  /\ IsFile(d, q) /\ IsFile(e, q) /\ e[q].data = d[q].data /\ e[q].id = d[q].id
             /\ Agrees(e[q], source[p])
  <2>1. d[q] \in Timed /\ d[q].kind = "file" /\ e[q] = With(d[q], source[p]) /\ IsFile(d, q)
    BY <1>2, <1>3 DEF SameNode, IsFile
  <2>2. /\ e[q] \in Timed /\ e[q].kind = "file" /\ e[q].data = d[q].data /\ e[q].id = d[q].id
        /\ e[q].perm = IF "perms" \in opts.attrs THEN source[p].perm ELSE d[q].perm
        /\ e[q].time = IF "times" \in opts.attrs THEN source[p].time ELSE d[q].time
    BY <1>1, <2>1, WithFacts
  <2> QED
    BY <2>1, <2>2, NodeFacts DEF IsFile, Timed, Agrees
<1>4. SameNode(d, p, p) /\ IsFile(e, p) /\ e[p].id = d[p].id
  BY <1>1, <1>3 DEF SameNode
<1>5. \A q \in list : Astray(e, q) <=> Astray(d, q)
  <2>1. \A q \in Path : IsSymlink(e, q) <=> IsSymlink(d, q)
    BY <1>2, <1>3 DEF IsSymlink, IsFile
  <2>2. \A q \in list : Behind(e, q) <=> Behind(d, q)
    BY <1>1, <2>1, PlaceFacts DEF Behind
  <2> QED
    BY <1>1, <2>1, <2>2 DEF Astray
<1>6. ASSUME NEW q \in P, IsDir(source, q)
      PROVE  IsDir(e, q) \/ Astray(e, q)
  <2>1. q \in Path /\ (IsDir(d, q) \/ Astray(d, q))
    BY <1>1, <1>6 DEF Settles
  <2>2. IsDir(d, q) => ~SameNode(d, p, q)
    BY <1>3, <2>1 DEF IsDir, IsFile
  <2> QED
    BY <1>5, <1>2, <2>1, <2>2 DEF IsDir
<1>7. ASSUME NEW q \in P, IsSymlink(source, q), opts.links
      PROVE  e[q] = source[q] \/ Astray(e, q)
  <2>1. q \in Path /\ (d[q] = source[q] \/ Astray(d, q))
    BY <1>1, <1>7 DEF Settles
  <2>2. d[q] = source[q] => ~SameNode(d, p, q)
    BY <1>3, <1>7, <2>1 DEF IsSymlink, IsFile
  <2> QED
    BY <1>5, <1>2, <2>1, <2>2
<1>8. ASSUME NEW q \in (P \cup {p}) \ Secondary, IsFile(source, q), ~Astray(e, q)
      PROVE  /\ IsFile(e, q) /\ e[q].data = source[q].data
             /\ \E r \in (P \cup {p}) \ Secondary : /\ IsFile(source, r) /\ SameNode(e, q, r)
                                                    /\ Agrees(e[q], source[r])
  <2>1. q \in Path /\ IsFile(d, q) /\ d[q].data = source[q].data /\ ~Astray(d, q)
    BY <1>5, <1>1, <1>8 DEF Settles
  <2>2. CASE SameNode(d, p, q)
    <3>1. /\ IsFile(e, q) /\ e[q].data = d[q].data /\ e[q].id = d[q].id
          /\ Agrees(e[q], source[p])
      BY <1>3, <2>1, <2>2
    <3>2. SameNode(e, q, p)
      BY <1>4, <2>2, <3>1 DEF SameNode
    <3> QED
      BY <2>1, <3>1, <3>2
  <2>3. CASE ~SameNode(d, p, q)
    <3>1. q \in P /\ e[q] = d[q]
      BY <1>2, <1>4, <2>1, <2>3
    <3>2. PICK r \in P \ Secondary : IsFile(source, r) /\ SameNode(d, q, r) /\ Agrees(d[q], source[r])
      BY <1>8, <2>1, <3>1 DEF Settles
    <3>3. ~SameNode(d, p, r)
      BY <2>1, <2>3, <3>2 DEF SameNode
    <3>4. r \in Path /\ e[r] = d[r]
      BY <1>1, <1>2, <3>2, <3>3
    <3>5. SameNode(e, q, r)
      BY <3>1, <3>2, <3>4 DEF SameNode, IsFile
    <3> QED
      BY <2>1, <3>1, <3>2, <3>5 DEF IsFile
  <2> QED
    BY <2>2, <2>3
<1>9. \A q \in P \cup {p} : IsDir(source, q) => IsDir(e, q) \/ Astray(e, q)
  BY <1>6 DEF IsDir, IsFile
<1>10. \A q \in P \cup {p} : IsSymlink(source, q) /\ opts.links => e[q] = source[q] \/ Astray(e, q)
  BY <1>7 DEF IsSymlink, IsFile
<1> QED
  BY <1>8, <1>9, <1>10 DEF Settles, e

LEMMA ReachedOn ==
  ASSUME NEW d, NEW e, NEW p, Reached(d, e, p)
  PROVE  \A q \in Path \ {p} : e[q] = d[q] \/ d[q] = Absent \/ (IsDir(d, q) /\ IsDir(e, q))
BY DEF Reached, Way

LEMMA EntrySettles ==
  ASSUME TreeInv, SettledInv, ~opts.dryRun,
         ReceiveDir \/ ReceiveSymlink \/ SkipSecondary \/ ReceiveFile \/ FollowLink
  PROVE  Settles(dest', Past \cup {Current})
<1>1. pc = "entry" /\ todo # {}
  BY DEF ReceiveDir, ReceiveSymlink, SkipSecondary, ReceiveFile, FollowLink, At
<1>2. /\ Current \in todo /\ Current \in list /\ Current \in Path /\ source[Current] # Absent
      /\ Past \in SUBSET list /\ Current \notin Past /\ Past \subseteq Path
  BY <1>1, EntryFacts, SourceFacts DEF Past, TreeInv, TypeOK
<1>3. Settles(dest, Past)
  BY <1>1 DEF SettledInv
<1>4. ASSUME NEW e, Reached(dest, e, Current),
             IsDir(source, Current) => (IsSymlink(e, Current) <=> IsSymlink(dest, Current))
      PROVE  Settles(e, Past)
  <2>1. \A q \in Past \ Secondary : \/ e[q] = dest[q] \/ dest[q] = Absent
                                    \/ IsDir(dest, q) /\ IsDir(e, q)
    BY <1>2, <1>4, ReachedOn
  <2>2. dest \in Tree /\ Effect(dest, e, Current)
    BY <1>4, WithinEffect DEF TreeInv, WellFormed, Tree
  <2>3. \A q \in Past : Behind(e, q) <=> Behind(dest, q)
    BY <1>2, <1>4, <2>2, BehindStays
  <2> QED
    BY <1>2, <1>3, <2>1, <2>3, SettlesOn
<1>5. CASE ReceiveDir
  <2>1. Reached(dest, dest', Current) /\ IsDir(dest', Current)
    BY <1>5, DirStep
  <2>2. Settles(dest', Past)
    BY <1>4, <1>5, <2>1, DirStep
  <2>3. ~IsSymlink(source, Current) /\ ~IsFile(source, Current)
    BY <1>5 DEF ReceiveDir, At, IsSymlink, IsFile
  <2> QED
    BY <2>1, <2>2, <2>3, SettlesMore
<1>6. CASE ReceiveSymlink
  <2>1. ~IsDir(source, Current) /\ ~IsFile(source, Current)
    BY <1>6 DEF ReceiveSymlink, At, IsDir, IsFile
  <2>2. CASE ~opts.links /\ dest' = dest
    BY <1>3, <2>1, <2>2, SettlesMore
  <2>3. CASE Reached(dest, dest', Current) /\ dest'[Current] = source[Current]
    <3>1. Settles(dest', Past)
      BY <1>4, <2>1, <2>3
    <3> QED
      BY <2>1, <2>3, <3>1, SettlesMore
  <2> QED
    BY <1>6, <2>2, <2>3, SymlinkStep
<1>7. CASE SkipSecondary
  <2>1. Current \in Secondary /\ dest' = dest
    BY <1>7 DEF SkipSecondary
  <2>2. ~IsDir(source, Current) /\ ~IsSymlink(source, Current)
    BY <1>7 DEF SkipSecondary, At, IsDir, IsSymlink
  <2> QED
    BY <1>3, <2>1, <2>2, SettlesMore
<1>8. CASE ReceiveFile
  <2> DEFINE e == Written(dest, Current)
  <2>1. /\ WellFormed(e) /\ Reached(dest, e, Current)
        /\ IsFile(e, Current) /\ e[Current].data = source[Current].data
        /\ dest' = ApplyAttributes(e, Current, source[Current])
    BY <1>8, FileResult
  <2>2. IsFile(source, Current) /\ Current \notin Secondary
    BY <1>2, <1>8 DEF ReceiveFile, At, IsFile
  <2> HIDE DEF e
  <2>3. Settles(e, Past)
    <3>1. ~IsDir(source, Current)
      BY <2>2 DEF IsFile, IsDir
    <3> QED
      BY <1>4, <2>1, <3>1
  <2> QED
    BY <1>2, <2>1, <2>2, <2>3, SettlesAttributes
<1>9. CASE FollowLink
  <2>1. Astray(dest, Current) /\ dest' = dest
    BY <1>9 DEF FollowLink, Follow
  <2> QED
    BY <1>3, <2>1, SettlesMore
<1> QED
  BY <1>5, <1>6, <1>7, <1>8, <1>9

\* The links are made of names that are not written on their own, and a directory
\* has its attributes once its turn has come.
LEMMA PassSettles ==
  ASSUME TreeInv, SettledInv, ~opts.dryRun, ApplyHardLink \/ LinkBehind \/ ApplyDirAttributes
  PROVE  /\ Settles(dest', list)
         /\ pc = "dirs" => \A p \in Dirs \ todo' : Agrees(dest'[p], source[p]) \/ Astray(dest', p)
<1>1. /\ Settles(dest, list) /\ list \in SUBSET Path
      /\ pc = "dirs" => \A p \in Dirs \ todo : Agrees(dest[p], source[p]) \/ Astray(dest, p)
  BY DEF ApplyHardLink, LinkBehind, ApplyDirAttributes, SettledInv, Past, TreeInv, TypeOK
<1>2. \A q \in list : Behind(dest', q) <=> Behind(dest, q)
  BY StepBehind DEF Step
<1>3. CASE ApplyHardLink
  <2>1. NextLink(todo) \in Secondary /\ Reached(dest, dest', NextLink(todo)) /\ pc # "dirs"
    BY <1>3, LinkStep, LinkOrderFacts DEF ApplyHardLink
  <2>2. \A q \in list \ Secondary : \/ dest'[q] = dest[q] \/ dest[q] = Absent
                                    \/ IsDir(dest, q) /\ IsDir(dest', q)
    BY <1>1, <2>1, ReachedOn
  <2> QED
    BY <1>1, <1>2, <2>1, <2>2, SettlesOn
<1>4. CASE LinkBehind
  BY <1>1, <1>4 DEF LinkBehind, Follow
<1>5. CASE ApplyDirAttributes /\ Astray(dest, Final(todo)) /\ dest' = dest
  BY <1>1, <1>5 DEF ApplyDirAttributes
<1>6. CASE /\ ApplyDirAttributes /\ IsDir(dest, Final(todo))
           /\ dest' = ApplyAttributes(dest, Final(todo), source[Final(todo)])
  <2> DEFINE p == Final(todo)
  <2>1. p \in todo /\ p \in Dirs
    BY <1>6, DirAttributesStep
  <2>2. /\ p \in Path /\ source[p] \in Timed /\ IsDir(dest, p) /\ WellFormed(dest)
        /\ dest' = ApplyAttributes(dest, p, source[p]) /\ todo' = todo \ {p} /\ pc = "dirs"
    BY <1>1, <1>6, <2>1, SourceFacts DEF ApplyDirAttributes, Dirs, TreeInv
  <2> HIDE DEF p
  <2>3. /\ \A q \in Path : dest'[q] = IF SameNode(dest, p, q) THEN With(dest[q], source[p]) ELSE dest[q]
        /\ \A q \in Path : SameNode(dest, p, q) => dest[q] \in Timed
    BY <2>2, AttributeFacts
  <2>4. \A q \in Path : SameNode(dest, p, q) <=> q = p
    BY <2>2 DEF SameNode, IsDir, IsFile
  <2>5. dest'[p] = With(dest[p], source[p]) /\ dest[p] \in Timed /\ dest[p].kind = "dir"
    BY <2>2, <2>3, <2>4 DEF IsDir
  <2>6. IsDir(dest', p) /\ Agrees(dest'[p], source[p])
    <3>1. /\ dest'[p] \in Timed /\ dest'[p].kind = "dir"
          /\ dest'[p].perm = IF "perms" \in opts.attrs THEN source[p].perm ELSE dest[p].perm
          /\ dest'[p].time = IF "times" \in opts.attrs THEN source[p].time ELSE dest[p].time
      BY <2>2, <2>5, WithFacts
    <3> QED
      BY <3>1, NodeFacts DEF IsDir, Timed, Agrees
  <2>7. \A q \in Path \ {p} : dest'[q] = dest[q]
    BY <2>3, <2>4
  <2>8. Settles(dest', list)
    <3>1. \A q \in list \ Secondary : \/ dest'[q] = dest[q] \/ dest[q] = Absent
                                      \/ IsDir(dest, q) /\ IsDir(dest', q)
      BY <1>1, <2>2, <2>6, <2>7
    <3> QED
      BY <1>1, <1>2, <3>1, SettlesOn
  <2>9. \A q \in Dirs \ todo' : Agrees(dest'[q], source[q]) \/ Astray(dest', q)
    <3>1. \A q \in Dirs \ {p} : Astray(dest, q) => Astray(dest', q)
      BY <1>1, <1>2, <2>7 DEF Astray, IsSymlink, Dirs
    <3> QED
      BY <1>1, <2>2, <2>6, <2>7, <3>1 DEF Dirs
  <2> QED
    BY <2>8, <2>9
<1> QED
  BY <1>3, <1>6, <1>4, <1>5, DirAttributesStep

LEMMA RunSettles ==
  ASSUME UNCHANGED run, ~opts.dryRun => Settles(dest', Past'),
         ~opts.dryRun /\ pc' \in {"dirs", "done"} =>
           \A p \in Dirs \ todo' : Agrees(dest'[p], source[p]) \/ Astray(dest', p)
  PROVE  SettledInv'
<1>1. /\ source' = source /\ opts' = opts /\ list' = list /\ groups' = groups
      /\ Secondary' = Secondary /\ Dirs' = Dirs
  BY DEF run, Secondary, Dirs, IsDir
<1>2. \A n, m : Agrees(n, m)' <=> Agrees(n, m)
  BY <1>1 DEF Agrees
<1>3. \A p : Astray(dest, p)' <=> Astray(dest', p)
  BY <1>1 DEF Astray, Behind, IsSymlink
<1>4. Settles(dest', Past') => Settles(dest, Past)'
  BY <1>1, <1>2, <1>3 DEF Settles, Agrees
<1> QED
  BY <1>1, <1>2, <1>4, <1>3 DEF SettledInv, Agrees

LEMMA NextSettles == TreeInv /\ SettledInv /\ [Next]_vars => SettledInv'
<1> SUFFICES ASSUME TreeInv, SettledInv, [Next]_vars PROVE SettledInv'
  OBVIOUS
<1>1. CASE Begin
  <2>1. pc' = "entry" /\ Past' = {}
    BY <1>1 DEF Begin, Past
  <2> QED
    BY <2>1 DEF SettledInv, Settles
<1>2. CASE EditSource \/ Fails
  BY <1>2 DEF EditSource, Fails, SettledInv
<1>3. CASE ReceiveDir \/ ReceiveSymlink \/ SkipSecondary \/ ReceiveFile \/ FollowLink
  <2>1. todo' = todo \ {Current} /\ UNCHANGED run /\ pc' = pc /\ pc = "entry" /\ todo # {}
    BY <1>3 DEF ReceiveDir, ReceiveSymlink, SkipSecondary, ReceiveFile, FollowLink, Report, At
  <2>2. list' = list /\ Current \in list /\ todo \subseteq list
    BY <2>1, EntryFacts DEF run, TreeInv
  <2>3. Past' = Past \cup {Current}
    BY <2>1, <2>2 DEF Past
  <2>4. ~opts.dryRun => Settles(dest', Past')
    BY <1>3, <2>3, EntrySettles
  <2> QED
    BY <2>1, <2>4, RunSettles
<1>4. CASE EndPass
  <2>1. /\ UNCHANGED run /\ dest' = dest /\ pc \in {"entry", "links", "dirs"} /\ todo = {}
        /\ pc' = IF pc = "dirs" \/ opts.dryRun THEN "done"
                 ELSE IF pc = "entry" THEN "links" ELSE "dirs"
        /\ todo' = IF pc' = "links" THEN Secondary ELSE IF pc' = "dirs" THEN Dirs ELSE {}
    BY <1>4 DEF EndPass, Passes
  <2>2. Past' = Past
    BY <2>1 DEF Past, run
  <2>3. ~opts.dryRun => Settles(dest', Past')
    BY <2>1, <2>2 DEF SettledInv
  <2>4. ~opts.dryRun /\ pc' \in {"dirs", "done"} =>
          \A p \in Dirs \ todo' : Agrees(dest'[p], source[p]) \/ Astray(dest', p)
    BY <2>1 DEF SettledInv
  <2> QED
    BY <2>1, <2>3, <2>4, RunSettles
<1>5. CASE ApplyHardLink \/ LinkBehind \/ ApplyDirAttributes
  <2>1. UNCHANGED run /\ pc' = pc /\ pc \in {"links", "dirs"}
    BY <1>5 DEF ApplyHardLink, LinkBehind, ApplyDirAttributes
  <2>2. Past' = list
    BY <2>1 DEF Past, run
  <2> QED
    BY <1>5, <2>1, <2>2, PassSettles, RunSettles
<1>6. CASE UNCHANGED vars
  <2>1. /\ UNCHANGED run /\ pc' = pc /\ todo' = todo /\ dest' = dest /\ list' = list
    BY <1>6 DEF vars, run
  <2>2. Past' = Past
    BY <2>1 DEF Past
  <2>3. CASE pc \in {"entry", "links", "dirs", "done"}
    <3>1. ~opts.dryRun => Settles(dest', Past')
      BY <2>1, <2>2, <2>3 DEF SettledInv
    <3>2. ~opts.dryRun /\ pc' \in {"dirs", "done"} =>
            \A p \in Dirs \ todo' : Agrees(dest'[p], source[p]) \/ Astray(dest', p)
      BY <2>1, <2>3 DEF SettledInv
    <3> QED
      BY <2>1, <3>1, <3>2, RunSettles
  <2>4. CASE pc \notin {"entry", "links", "dirs", "done"}
    BY <2>1, <2>4 DEF SettledInv
  <2> QED
    BY <2>3, <2>4
<1> QED
  BY <1>1, <1>2, <1>3, <1>4, <1>5, <1>6 DEF Next, Step

\* An entry that is settled has no line.
LEMMA SettledLine ==
  ASSUME TreeInv, NEW p \in list \ Secondary, ~Astray(dest, p), Settles(dest, list),
         \A q \in Dirs : Agrees(dest[q], source[q]) \/ Astray(dest, q),
         \A q \in Tangled(dest, p) : [source[q] EXCEPT !.id = source[p].id] = source[p]
  PROVE  Line(dest, p) = {}
<1>1. p \in Path /\ opts.attrs \subseteq {"perms", "times"}
  BY DEF TreeInv, TypeOK, Options
<1>2. CASE IsSymlink(source, p)
  <2>1. opts.links => dest[p] = source[p]
    BY <1>2 DEF Settles
  <2> QED
    BY <1>2, <2>1 DEF Line, Marks, IsSymlink
<1>3. CASE IsDir(source, p)
  <2>1. IsDir(dest, p) /\ Agrees(dest[p], source[p])
    BY <1>3 DEF Settles, Dirs
  <2>2. ~IsSymlink(source, p) /\ ~IsFile(source, p) /\ dest[p] # Absent
    BY <1>3, <2>1 DEF IsDir, IsFile, IsSymlink
  <2> QED
    BY <1>1, <2>1, <2>2 DEF Line, Marks, Agrees
<1>4. CASE IsFile(source, p)
  <2>1. IsFile(dest, p) /\ dest[p].data = source[p].data
    BY <1>4 DEF Settles
  <2>2. PICK q \in list \ Secondary : /\ IsFile(source, q) /\ SameNode(dest, p, q)
                                      /\ Agrees(dest[p], source[q])
    BY <1>4 DEF Settles
  <2>3. source[q].perm = source[p].perm /\ source[q].time = source[p].time
    <3>1. CASE q = p
      BY <3>1
    <3>2. CASE q # p
      <4>1. q \in Tangled(dest, p)
        BY <2>2, <3>2 DEF SameNode, Tangled
      <4>2. [source[q] EXCEPT !.id = source[p].id] = source[p]
        BY <4>1
      <4>3. source[q] \in [kind : {"file"}, data : Data, perm : Perm, time : Time \cup {"now"}, id : Path]
        BY <2>2, SourceFacts, TimedFacts DEF IsFile
      <4> QED
        BY <4>2, <4>3
    <3> QED
      BY <3>1, <3>2
  <2>4. Agrees(dest[p], source[p])
    BY <2>2, <2>3 DEF Agrees
  <2>5. ~IsSymlink(source, p) /\ dest[p] # Absent /\ ~Changed(dest, p)
    BY <1>4, <2>1 DEF IsFile, IsSymlink, Changed
  <2> QED
    BY <1>1, <2>1, <2>4, <2>5 DEF Line, Marks, Agrees
<1> QED
  BY <1>2, <1>3, <1>4, SourceFacts

\* After a sync that reports success the next one finds nothing to change: what the
\* later entries, the links and the directories' attributes do undoes nothing that
\* was settled before, except for names of one inode whose sources differ, and for
\* paths that a symlink of the destination is in the way of.
THEOREM SettledCorrect == Spec => []Settled
<1>1. Init => SettledInv
  BY DEF Init, SettledInv
<1>2. TreeInv /\ SettledInv => Settled
  <2> SUFFICES ASSUME TreeInv, SettledInv, pc = "done", ~opts.dryRun, NEW p \in list \ Secondary,
                      ~Astray(dest, p),
                      \A q \in Tangled(dest, p) : [source[q] EXCEPT !.id = source[p].id] = source[p]
               PROVE  Line(dest, p) = {}
    BY DEF Settled
  <2>1. Settles(dest, list)
    BY DEF SettledInv, Past
  <2>2. \A q \in Dirs : Agrees(dest[q], source[q]) \/ Astray(dest, q)
    BY DEF SettledInv, TreeInv
  <2> QED
    BY <2>1, <2>2, SettledLine
<1>3. Spec => []SettledInv
  BY <1>1, NextSettles, TreeInvariant, PTL DEF Spec
<1> QED
  BY <1>2, <1>3, TreeInvariant, PTL

-----------------------------------------------------------------------------
(* What stays: the names of the destination, and the way to write them. *)

\* Where p is all that an operation is for, nothing else goes.
LEMMA EffectKeeps ==
  ASSUME NEW d \in Tree, NEW e, NEW p, Effect(d, e, p), NEW q \in Path \ {p}, d[q] # Absent
  PROVE  e[q] # Absent
<1>1. CASE Way(d, e, q)
  BY <1>1, NodeFacts DEF Way, IsDir, Tree
<1>2. CASE IsFile(e, q)
  BY <1>2 DEF IsFile
<1> QED
  BY <1>1, <1>2 DEF Effect

\* No operation that is completed removes a name.
LEMMA StepKeeps ==
  ASSUME TreeInv, Step, NEW q \in Path, dest[q] # Absent
  PROVE  dest'[q] # Absent
<1>1. dest \in Tree /\ WellFormed(dest)
  BY DEF TreeInv, WellFormed, Tree
<1>2. CASE dest' = dest
  BY <1>2
<1>3. CASE ReceiveDir /\ dest' # dest
  <2>1. Effect(dest, dest', Current) /\ IsDir(dest', Current)
    BY <1>3, DirStep DEF ReceiveDir
  <2> QED
    BY <1>1, <2>1, EffectKeeps DEF IsDir
<1>4. CASE ReceiveSymlink /\ dest' # dest
  <2>1. Effect(dest, dest', Current) /\ dest'[Current] = source[Current]
    BY <1>4, SymlinkStep
  <2>2. source[Current] # Absent
    BY <1>4, EntryFacts, SourceFacts DEF ReceiveSymlink, At
  <2> QED
    BY <1>1, <2>1, <2>2, EffectKeeps
<1>5. CASE ReceiveFile /\ dest' # dest
  <2> DEFINE e == Written(dest, Current)
  <2>1. ~opts.dryRun /\ Effect(dest, dest', Current)
    BY <1>5, FileStep DEF ReceiveFile
  <2>2. /\ Current \in Path /\ source[Current] \in Timed /\ WellFormed(e) /\ IsFile(e, Current)
        /\ dest' = ApplyAttributes(e, Current, source[Current])
    BY <1>5, <2>1, FileResult
  <2> HIDE DEF e
  <2>3. dest'[Current] = With(e[Current], source[Current]) /\ e[Current] \in Timed
    BY <2>2, AttributeFacts DEF SameNode
  <2>4. dest'[Current] # Absent
    BY <2>2, <2>3, WithFacts, NodeFacts DEF Timed
  <2> QED
    BY <1>1, <2>1, <2>4, EffectKeeps
<1>6. CASE ApplyHardLink
  <2>1. /\ Effect(dest, dest', NextLink(todo))
        /\ dest'[NextLink(todo)] = dest[Leader(NextLink(todo))]
    BY <1>6, LinkStep, WithinEffect
  <2>2. dest[Leader(NextLink(todo))] # Absent
    BY <1>6 DEF ApplyHardLink
  <2> QED
    BY <1>1, <2>1, <2>2, EffectKeeps
<1>7. CASE ApplyDirAttributes /\ dest' # dest
  <2> DEFINE p == Final(todo)
  <2>1. /\ p \in Dirs /\ IsDir(dest, p) /\ Effect(dest, dest', p)
        /\ dest' = ApplyAttributes(dest, p, source[p])
    BY <1>7, DirAttributesStep
  <2> HIDE DEF p
  <2>2. p \in Path /\ source[p] \in Timed
    BY <2>1, SourceFacts DEF Dirs
  <2>3. dest'[p] = With(dest[p], source[p]) /\ dest[p] \in Timed
    BY <1>1, <2>1, <2>2, AttributeFacts DEF SameNode
  <2>4. dest'[p] # Absent
    BY <2>2, <2>3, WithFacts, NodeFacts DEF Timed
  <2> QED
    BY <1>1, <2>1, <2>4, EffectKeeps
<1> QED
  BY <1>2, <1>3, <1>4, <1>5, <1>6, <1>7
  DEF Step, SkipSecondary, FollowLink, EndPass, LinkBehind, Follow

\* One that fails removes what it was to replace by a link, if anything.
LEMMA FailsKeeps ==
  ASSUME TreeInv, Fails, NEW q \in Path, dest[q] # Absent, dest'[q] = Absent
  PROVE  q = Due /\ q \in todo /\ (IsSymlink(source, q) \/ q \in Secondary)
<1>1. /\ Due \in todo /\ Due \in list /\ Due \in Path /\ pc \in {"entry", "links", "dirs"}
      /\ dest \in Tree /\ WellFormed(dest) /\ source \in Sources
  BY DueFacts DEF Fails, TreeInv, TypeOK, WellFormed, Tree
<1>2. ASSUME NEW r \in Path, CanMkdirAll(dest, r), dest' = MkdirAll(dest, r)
      PROVE  FALSE
  <2>1. dest'[q] = dest[q] \/ Way(dest, dest', q)
    BY <1>1, <1>2, MkdirAllFacts
  <2> QED
    BY <1>1, <2>1, NodeFacts DEF Way, IsDir, Tree
<1>3. CASE dest' \in DirAttempts(Due)
  <2>1. PICK r \in PathsTo(Due) : CanMkdirAll(dest, Due) /\ dest' = MkdirAll(dest, r)
    BY <1>3 DEF DirAttempts
  <2> HIDE DEF Due
  <2> QED
    BY <1>1, <1>2, <2>1, PathFacts, PartFacts
<1>4. CASE /\ dest' \in Attempts(Due)
           /\ pc = "links" \/ At("file") \/ (At("symlink") /\ opts.links)
  <2>1. q = Due
    BY <1>1, <1>4, AttemptsFacts, WithinEffect, EffectKeeps
  <2>2. ~(IsFile(source, Due) /\ Due \notin Secondary)
    <3>1. SUFFICES ASSUME IsFile(source, Due), Due \notin Secondary
                   PROVE  FALSE
      OBVIOUS
    <3> HIDE DEF Due
    <3>2. CASE CanWrite(dest, Due) /\ ~IsDir(dest, Due) /\ dest' = Written(dest, Due)
      <4>1. IsFile(dest', Due)
        BY <1>1, <3>1, <3>2, WrittenFacts DEF CanWrite
      <4> QED
        BY <2>1, <4>1 DEF IsFile
    <3>3. CASE CanWrite(dest, Due) /\ \E r \in PathsTo(Parent(Due)) : dest' = MkdirAll(dest, r)
      <4>1. PICK r \in PathsTo(Parent(Due)) : dest' = MkdirAll(dest, r)
        BY <3>3
      <4>2. Parent(Due) \in Path \cup {<<>>} /\ PathsTo(Parent(Due)) = Above(Due) /\ Above(Due) \subseteq Path
        BY <1>1, ParentFacts, PlaceFacts
      <4>3. r \in Path /\ CanMkdirAll(dest, r)
        BY <3>3, <4>1, <4>2, PartFacts DEF CanWrite
      <4> QED
        BY <1>2, <4>1, <4>3
    <3> QED
      BY <1>4, <3>1, <3>2, <3>3 DEF Attempts
  <2>3. pc = "links" => Due \in Secondary
    BY <1>1, LinkOrderFacts DEF Due
  <2>4. pc # "links" => source[Due].kind \in {"file", "symlink"}
    BY <1>4 DEF At, Due
  <2>5. source[Due] # Absent
    BY <1>1, SourceFacts
  <2> HIDE DEF Due
  <2> QED
    BY <1>1, <2>1, <2>2, <2>3, <2>4, <2>5 DEF IsFile, IsSymlink
<1> QED
  BY <1>3, <1>4 DEF Fails

\* A name that was in the destination when the run began is there when it ends,
\* except for one at most that a run which fails had removed to put a link there.
THEOREM NothingLostCorrect == Spec => []NothingLost
<1> DEFINE Gone == {p \in Path : start[p] # Absent /\ dest[p] = Absent}
<1>1. Init => NothingLost
  BY DEF Init, NothingLost
<1>2. ASSUME TreeInv, NothingLost, [Next]_vars
      PROVE  NothingLost'
  <2>1. CASE Begin \/ EditSource
    BY <2>1 DEF Begin, EditSource, NothingLost
  <2>2. CASE Step
    <3>1. pc # "failed" /\ start' = start
      BY <2>2 DEF Step, ReceiveDir, ReceiveSymlink, SkipSecondary, ReceiveFile, FollowLink,
                  EndPass, ApplyHardLink, LinkBehind, ApplyDirAttributes, Report, At, run
    <3>2. Gone = {}
      BY <1>2, <3>1 DEF NothingLost
    <3>3. Gone' = {}
      BY <1>2, <2>2, <3>1, <3>2, StepKeeps
    <3> QED
      BY <3>3 DEF NothingLost
  <2>3. CASE Fails
    <3>1. /\ pc # "failed" /\ start' = start /\ source' = source /\ todo' = todo
          /\ pc' = "failed" /\ Secondary' = Secondary
      BY <2>3 DEF Fails, run, Secondary
    <3>2. Gone = {}
      BY <1>2, <3>1 DEF NothingLost
    <3>3. \A q \in Gone' : q = Due /\ q \in todo /\ (IsSymlink(source, q) \/ q \in Secondary)
      BY <1>2, <2>3, <3>1, <3>2, FailsKeeps
    <3>4. Gone' # {} => /\ Gone' = {Due} /\ Due \in todo
                        /\ IsSymlink(source, Due) \/ Due \in Secondary
      <4> HIDE DEF Gone, Due
      <4> QED
        BY <3>3
    <3> QED
      BY <3>1, <3>4 DEF NothingLost, IsSymlink
  <2>4. CASE UNCHANGED vars
    BY <1>2, <2>4 DEF vars, NothingLost, Secondary, IsSymlink
  <2> QED
    BY <1>2, <2>1, <2>2, <2>3, <2>4 DEF Next
<1> QED
  BY <1>1, <1>2, TreeInvariant, PTL DEF Spec

\* What holds of a directory on the way to p holds after an operation that makes or
\* touches it.
LEMMA WayWritable ==
  ASSUME NEW d \in Tree, NEW e \in Tree, NEW q \in Path, Way(d, e, q),
         d[q] = Absent \/ Writable(d, q)
  PROVE  e[q] = Absent \/ Writable(e, q)
<1>1. q # <<>>
  BY PlaceFacts
<1>2. CASE e[q] = d[q]
  BY <1>1, <1>2 DEF Writable, IsDir
<1>3. CASE e[q] = NewDir
  BY <1>3, NodeFacts DEF Writable, IsDir, NewDir
<1>4. CASE IsDir(d, q) /\ e[q] = Touched(d[q])
  <2>1. d[q] \in Node /\ d[q].kind = "dir" /\ d[q].perm # "r"
    BY <1>1, <1>4 DEF Writable, IsDir, Tree
  <2>2. d[q] \in [kind : {"dir"}, perm : Perm, time : Time \cup {"now"}]
    BY <2>1 DEF Node
  <2>3. e[q].kind = "dir" /\ e[q].perm = d[q].perm
    BY <1>4, <2>1, <2>2 DEF Touched
  <2> QED
    BY <2>1, <2>3 DEF Writable, IsDir
<1> QED
  BY <1>2, <1>3, <1>4 DEF Way

\* And what can be written stays so.
LEMMA CanWriteStays ==
  ASSUME NEW d \in Tree, NEW e \in Tree, NEW p \in Path, \A q \in Above(p) : Way(d, e, q),
         CanWrite(d, p)
  PROVE  CanWrite(e, p)
<1> DEFINE top == Parent(p)
<1>1. PathsTo(top) = Above(p) /\ Above(p) \subseteq Path /\ top \in Path \cup {<<>>}
  BY ParentFacts, PlaceFacts
<1>2. \A q \in Above(p) : (d[q] = Absent \/ IsDir(d, q)) /\ (e[q] = Absent => d[q] = Absent)
  BY <1>1, NodeFacts DEF CanWrite, CanMkdirAll, Way, IsDir, Tree
<1>3. \A q \in Above(p) : e[q] = Absent \/ IsDir(e, q)
  BY <1>1, <1>2, NodeFacts DEF Way, IsDir, Tree
<1>4. ASSUME NEW q \in Missing(e, top)
      PROVE  Parent(q) \in Missing(e, top) \/ Writable(e, Parent(q))
  <2>1. q \in Above(p) /\ q \in Path /\ q \in Missing(d, top)
    BY <1>1, <1>2 DEF Missing
  <2>2. CASE Parent(q) = <<>>
    BY <2>2 DEF Writable
  <2>3. CASE Parent(q) # <<>>
    <3>1. Parent(q) \in Above(p) /\ Parent(q) \in Path
      BY <1>1, <2>1, <2>3, ParentFacts, PathFacts
    <3>2. d[Parent(q)] = Absent \/ Writable(d, Parent(q))
      BY <2>1 DEF CanWrite, CanMkdirAll, Missing
    <3>3. e[Parent(q)] = Absent \/ Writable(e, Parent(q))
      BY <3>1, <3>2, WayWritable
    <3> QED
      BY <1>1, <3>1, <3>3 DEF Missing
  <2> QED
    BY <2>2, <2>3
<1>5. CanMkdirAll(e, top)
  BY <1>1, <1>3, <1>4 DEF CanMkdirAll
<1>6. Writable(MkdirAll(e, top), top)
  <2>1. CASE top = <<>>
    BY <2>1 DEF Writable
  <2>2. CASE top # <<>>
    <3>1. top \in Path /\ top \in Above(p)
      BY <1>1, <2>2, ParentFacts
    <3>2. /\ \A q \in Path : MkdirAll(d, top)[q] = d[q] \/ Way(d, MkdirAll(d, top), q)
          /\ MkdirAll(d, top) \in Tree /\ Writable(MkdirAll(d, top), top)
      BY <1>1, MkdirAllFacts DEF CanWrite
    <3>3. /\ MkdirAll(e, top)[top] = e[top] \/ Way(e, MkdirAll(e, top), top)
          /\ MkdirAll(e, top) \in Tree /\ IsDir(MkdirAll(e, top), top)
      BY <1>1, <1>5, <3>1, MkdirAllFacts
    <3>4. d[top] = Absent \/ Writable(d, top)
      <4>1. CASE MkdirAll(d, top)[top] = d[top]
        BY <3>2, <4>1 DEF Writable, IsDir
      <4>2. CASE IsDir(d, top) /\ MkdirAll(d, top)[top] = Touched(d[top])
        <5>1. d[top] \in [kind : {"dir"}, perm : Perm, time : Time \cup {"now"}]
          BY <3>1, <4>2 DEF IsDir, Tree, Node
        <5>2. MkdirAll(d, top)[top].perm = d[top].perm
          BY <4>2, <5>1 DEF Touched
        <5> QED
          BY <2>2, <3>2, <4>2, <5>2 DEF Writable
      <4> QED
        BY <3>1, <3>2, <4>1, <4>2 DEF Way
    <3>5. e[top] = Absent \/ Writable(e, top)
      BY <3>1, <3>4, WayWritable
    <3>6. MkdirAll(e, top)[top] = Absent \/ Writable(MkdirAll(e, top), top)
      BY <3>1, <3>3, <3>5, WayWritable DEF Way
    <3> QED
      BY <3>3, <3>6 DEF IsDir
  <2> QED
    BY <2>1, <2>2
<1> QED
  BY <1>5, <1>6 DEF CanWrite

\* An entry or a link changes the directories above a listed path only by making or
\* touching them.
LEMMA StepWritable ==
  ASSUME TreeInv, Step, pc \in {"entry", "links"}, NEW p \in list, CanWrite(dest, p)
  PROVE  CanWrite(dest', p)
<1>1. /\ p \in Path /\ Above(p) \subseteq Path /\ dest \in Tree /\ WellFormed(source)
      /\ \A q \in Above(p) : IsDir(source, q)
  BY SourceFacts, PlaceFacts, TreeAssumption DEF TreeInv, TypeOK, WellFormed, Tree
<1>2. \A q \in Above(p) : ~IsFile(dest, q)
  BY ParentFacts, <1>1 DEF CanWrite, CanMkdirAll, IsDir, IsFile
<1>3. ASSUME NEW c, Effect(dest, dest', c), WellFormed(dest'),
             IsDir(source, c) => Way(dest, dest', c)
      PROVE  CanWrite(dest', p)
  <2>1. \A q \in Above(p) : Way(dest, dest', q)
    BY <1>1, <1>2, <1>3 DEF Effect, SameNode, Way
  <2> QED
    BY <1>1, <1>3, <2>1, CanWriteStays DEF WellFormed, Tree
<1>4. CASE dest' = dest
  BY <1>4
<1>5. CASE ReceiveDir /\ dest' # dest
  <2>1. /\ Current \in Path /\ CanMkdirAll(dest, Current) /\ dest' = MkdirAll(dest, Current)
    BY <1>5, EntryFacts DEF ReceiveDir, At
  <2>2. Way(dest, dest', Current)
    BY <1>1, <2>1, MkdirAllFacts DEF Way
  <2> QED
    BY <1>3, <1>5, <2>2, DirStep
<1>6. CASE ReceiveSymlink
  BY <1>3, <1>6, SymlinkStep DEF ReceiveSymlink, At, IsDir
<1>7. CASE ReceiveFile
  BY <1>3, <1>7, FileStep DEF ReceiveFile, At, IsDir
<1>8. CASE ApplyHardLink
  <2>1. ~IsDir(source, NextLink(todo))
    BY <1>8, LinkOrderFacts, GroupFacts DEF ApplyHardLink, IsDir, IsFile
  <2> QED
    BY <1>3, <1>8, <2>1, LinkStep, WithinEffect
<1> QED
  BY <1>4, <1>5, <1>6, <1>7, <1>8
  DEF Step, SkipSecondary, FollowLink, EndPass, LinkBehind, ApplyDirAttributes, Follow

\* What a run has yet to write it can write if it could when it began: directories
\* get their attributes only after the last entry and the last link.
THEOREM StaysWritableCorrect == Spec => []StaysWritable
<1> DEFINE Open == pc \in {"entry", "links"} =>
                     \A p \in list : CanWrite(start, p) => CanWrite(dest, p)
<1>1. Init => Open
  BY DEF Init
<1>2. ASSUME TreeInv, Open, [Next]_vars
      PROVE  Open'
  <2>1. CASE Begin \/ EditSource \/ Fails
    BY <2>1 DEF Begin, EditSource, Fails
  <2>2. CASE Step
    <3>1. start' = start /\ list' = list /\ (pc' \in {"entry", "links"} => pc \in {"entry", "links"})
      BY <2>2 DEF Step, ReceiveDir, ReceiveSymlink, SkipSecondary, ReceiveFile, FollowLink,
                  EndPass, ApplyHardLink, LinkBehind, ApplyDirAttributes, Report, run, Passes
    <3> QED
      BY <1>2, <2>2, <3>1, StepWritable
  <2>3. CASE UNCHANGED vars
    BY <1>2, <2>3 DEF vars
  <2> QED
    BY <1>2, <2>1, <2>2, <2>3 DEF Next
<1>3. TreeInv /\ Open => StaysWritable
  BY DEF StaysWritable, TreeInv
<1> QED
  BY <1>1, <1>2, <1>3, TreeInvariant, PTL DEF Spec

-----------------------------------------------------------------------------
(* Filter patterns. *)

\* The segments from the a-th on cut what is left of the path from its b-th name on.
CutsFrom(pattern, path, a, b) ==
  \E cut \in [a - 1..Len(pattern) -> 0..Len(path)] :
    /\ cut[a - 1] = b - 1 /\ cut[Len(pattern)] = Len(path)
    /\ \A n \in a..Len(pattern) : Takes(pattern[n], path, cut[n - 1], cut[n])

\* Cuts from a segment on, by what that segment takes.
LEMMA CutFirst ==
  ASSUME NEW pattern, NEW path, Len(pattern) \in Nat, Len(path) \in Nat,
         NEW a \in 1..Len(pattern), NEW b \in 1..Len(path) + 1
  PROVE  CutsFrom(pattern, path, a, b)
           <=> \E c \in 0..Len(path) : /\ Takes(pattern[a], path, b - 1, c)
                                       /\ CutsFrom(pattern, path, a + 1, c + 1)
<1> DEFINE n == Len(pattern)
           q == Len(path)
<1>1. ASSUME CutsFrom(pattern, path, a, b)
      PROVE  \E c \in 0..q : Takes(pattern[a], path, b - 1, c) /\ CutsFrom(pattern, path, a + 1, c + 1)
  <2>1. PICK cut \in [a - 1..n -> 0..q] :
               /\ cut[a - 1] = b - 1 /\ cut[n] = q
               /\ \A i \in a..n : Takes(pattern[i], path, cut[i - 1], cut[i])
    BY <1>1 DEF CutsFrom
  <2> DEFINE d == [i \in (a + 1) - 1..n |-> cut[i]]
  <2>2. cut[a] \in 0..q /\ Takes(pattern[a], path, b - 1, cut[a])
    BY <2>1
  <2>3. d \in [(a + 1) - 1..n -> 0..q] /\ d[(a + 1) - 1] = (cut[a] + 1) - 1 /\ d[n] = q
    BY <2>1
  <2>4. ASSUME NEW i \in a + 1..n PROVE Takes(pattern[i], path, d[i - 1], d[i])
    <3>1. d[i - 1] = cut[i - 1] /\ d[i] = cut[i] /\ i \in a..n
      OBVIOUS
    <3> QED
      BY <2>1, <3>1
  <2>5. CutsFrom(pattern, path, a + 1, cut[a] + 1)
    <3> HIDE DEF d
    <3> QED
      BY <2>3, <2>4 DEF CutsFrom
  <2> QED
    BY <2>2, <2>5
<1>2. ASSUME NEW c \in 0..q, Takes(pattern[a], path, b - 1, c), CutsFrom(pattern, path, a + 1, c + 1)
      PROVE  CutsFrom(pattern, path, a, b)
  <2>1. PICK cut \in [(a + 1) - 1..n -> 0..q] :
               /\ cut[(a + 1) - 1] = (c + 1) - 1 /\ cut[n] = q
               /\ \A i \in a + 1..n : Takes(pattern[i], path, cut[i - 1], cut[i])
    BY <1>2 DEF CutsFrom
  <2> DEFINE d == [i \in a - 1..n |-> IF i = a - 1 THEN b - 1 ELSE cut[i]]
  <2>2. d \in [a - 1..n -> 0..q] /\ d[a - 1] = b - 1 /\ d[n] = q
    BY <2>1
  <2>3. ASSUME NEW i \in a..n PROVE Takes(pattern[i], path, d[i - 1], d[i])
    <3>1. CASE i = a
      <4>1. d[i - 1] = b - 1 /\ d[i] = c
        BY <2>1, <3>1
      <4> QED
        BY <1>2, <3>1, <4>1
    <3>2. CASE i # a
      <4>1. d[i - 1] = cut[i - 1] /\ d[i] = cut[i] /\ i \in a + 1..n
        BY <3>2
      <4> QED
        BY <2>1, <4>1
    <3> QED
      BY <3>1, <3>2
  <2> HIDE DEF d
  <2> QED
    BY <2>2, <2>3 DEF CutsFrom
<1> QED
  BY <1>1, <1>2

\* CutsFrom satisfies the equation by which matchSegments is computed.
LEMMA CutEquation ==
  ASSUME NEW pattern, NEW path, Len(pattern) \in Nat, Len(path) \in Nat,
         NEW a \in 1..Len(pattern) + 1, NEW b \in 1..Len(path) + 1
  PROVE  CutsFrom(pattern, path, a, b)
           <=> IF a > Len(pattern) THEN b > Len(path)
               ELSE IF pattern[a] = DeepStar
                 THEN \/ CutsFrom(pattern, path, a + 1, b)
                      \/ b <= Len(path) /\ CutsFrom(pattern, path, a, b + 1)
                 ELSE b <= Len(path) /\ path[b] \in pattern[a] /\ CutsFrom(pattern, path, a + 1, b + 1)
<1> DEFINE n == Len(pattern)
           q == Len(path)
           C(i, j) == CutsFrom(pattern, path, i, j)
<1>1. CASE a > n
  <2>1. a = n + 1 /\ a - 1 = n /\ ~(\E i \in a..n : TRUE)
    BY <1>1
  <2>2. ASSUME C(a, b) PROVE b > q
    <3>1. PICK cut \in [a - 1..n -> 0..q] : cut[a - 1] = b - 1 /\ cut[n] = q
      BY <2>2 DEF CutsFrom
    <3> QED
      BY <2>1, <3>1
  <2>3. ASSUME b > q PROVE C(a, b)
    <3> DEFINE cut == [i \in a - 1..n |-> q]
    <3>1. cut \in [a - 1..n -> 0..q] /\ cut[a - 1] = b - 1 /\ cut[n] = q
      BY <2>1, <2>3
    <3> HIDE DEF cut
    <3> QED
      BY <2>1, <3>1 DEF CutsFrom
  <2> QED
    BY <1>1, <2>2, <2>3
<1>2. CASE a <= n
  <2>1. a \in 1..n
    BY <1>2
  <2>2. C(a, b) <=> \E c \in 0..q : Takes(pattern[a], path, b - 1, c) /\ C(a + 1, c + 1)
    BY <2>1, CutFirst
  <2>3. CASE pattern[a] = DeepStar
    <3>1. ASSUME C(a, b) PROVE C(a + 1, b) \/ (b <= q /\ C(a, b + 1))
      <4>1. PICK c \in 0..q : b - 1 <= c /\ C(a + 1, c + 1)
        BY <2>2, <2>3, <3>1 DEF Takes
      <4>2. CASE c = b - 1
        <5>1. c + 1 = b
          BY <4>2
        <5> QED
          BY <4>1, <5>1
      <4>3. CASE c # b - 1
        <5>1. b <= c /\ b <= q /\ b + 1 \in 1..q + 1 /\ (b + 1) - 1 = b
          BY <4>1, <4>3
        <5>2. Takes(pattern[a], path, (b + 1) - 1, c)
          BY <2>3, <5>1 DEF Takes
        <5> QED
          BY <2>1, <4>1, <5>1, <5>2, CutFirst
      <4> QED
        BY <4>2, <4>3
    <3>2. ASSUME C(a + 1, b) PROVE C(a, b)
      <4>1. b - 1 \in 0..q /\ (b - 1) + 1 = b /\ b - 1 <= b - 1
        OBVIOUS
      <4> QED
        BY <2>2, <2>3, <3>2, <4>1 DEF Takes
    <3>3. ASSUME b <= q, C(a, b + 1) PROVE C(a, b)
      <4>1. b + 1 \in 1..q + 1
        BY <3>3
      <4>2. PICK c \in 0..q : Takes(pattern[a], path, (b + 1) - 1, c) /\ C(a + 1, c + 1)
        BY <2>1, <3>3, <4>1, CutFirst
      <4>3. b - 1 <= c
        BY <2>3, <4>2 DEF Takes
      <4> QED
        BY <2>2, <2>3, <4>2, <4>3 DEF Takes
    <3> QED
      BY <1>2, <2>3, <3>1, <3>2, <3>3
  <2>4. CASE pattern[a] # DeepStar
    <3>1. ASSUME C(a, b) PROVE b <= q /\ path[b] \in pattern[a] /\ C(a + 1, b + 1)
      <4>1. PICK c \in 0..q : c = (b - 1) + 1 /\ path[c] \in pattern[a] /\ C(a + 1, c + 1)
        BY <2>2, <2>4, <3>1 DEF Takes
      <4>2. c = b
        BY <4>1
      <4> QED
        BY <4>1, <4>2
    <3>2. ASSUME b <= q, path[b] \in pattern[a], C(a + 1, b + 1) PROVE C(a, b)
      <4>1. b \in 0..q /\ b = (b - 1) + 1
        BY <3>2
      <4>2. Takes(pattern[a], path, b - 1, b)
        BY <2>4, <3>2, <4>1 DEF Takes
      <4> QED
        BY <2>2, <3>2, <4>1, <4>2
    <3> QED
      BY <1>2, <2>4, <3>1, <3>2
  <2> QED
    BY <2>3, <2>4
<1> QED
  BY <1>1, <1>2

\* An entry of matchSegments' table, computed from the others.
Entry(pattern, path, m, a, b) ==
  IF a > Len(pattern) THEN b > Len(path)
  ELSE IF pattern[a] = DeepStar
    THEN m[<<a + 1, b>>] \/ (b <= Len(path) /\ m[<<a, b + 1>>])
    ELSE b <= Len(path) /\ path[b] \in pattern[a] /\ m[<<a + 1, b + 1>>]

LEMMA EntryIsBoolean ==
  ASSUME NEW pattern, NEW path, NEW m, NEW a, NEW b
  PROVE  Entry(pattern, path, m, a, b) \in BOOLEAN
<1>1. CASE a > Len(pattern)
  <2>1. Entry(pattern, path, m, a, b) = (b > Len(path))
    BY <1>1, Zenon DEF Entry
  <2> QED
    BY <2>1
<1>2. CASE ~(a > Len(pattern)) /\ pattern[a] = DeepStar
  <2>1. Entry(pattern, path, m, a, b) = (m[<<a + 1, b>>] \/ (b <= Len(path) /\ m[<<a, b + 1>>]))
    BY <1>2, Zenon DEF Entry
  <2> QED
    BY <2>1, Zenon
<1>3. CASE ~(a > Len(pattern)) /\ pattern[a] # DeepStar
  <2>1. Entry(pattern, path, m, a, b)
          = (b <= Len(path) /\ path[b] \in pattern[a] /\ m[<<a + 1, b + 1>>])
    BY <1>3, Zenon DEF Entry
  <2> QED
    BY <2>1, Zenon
<1> QED
  BY <1>1, <1>2, <1>3, Zenon

\* So matchSegments looks up a table that satisfies the equation.
LEMMA MatchTable ==
  ASSUME NEW pattern, NEW path, Len(pattern) \in Nat, Len(path) \in Nat
  PROVE  \E m : /\ matchSegments(pattern, path) = m[<<1, 1>>]
                /\ \A a \in 1..Len(pattern) + 1, b \in 1..Len(path) + 1 :
                     m[<<a, b>>] = Entry(pattern, path, m, a, b)
<1> DEFINE n == Len(pattern)
           q == Len(path)
           D == (1..n + 1) \X (1..q + 1)
           C == [at \in D |-> CutsFrom(pattern, path, at[1], at[2])]
           m == CHOOSE m : m = [at \in D |-> Entry(pattern, path, m, at[1], at[2])]
<1>1. ASSUME NEW at \in D
      PROVE  CutsFrom(pattern, path, at[1], at[2]) = Entry(pattern, path, C, at[1], at[2])
  <2>1. PICK a \in 1..n + 1, b \in 1..q + 1 : at = <<a, b>>
    OBVIOUS
  <2>2. at[1] = a /\ at[2] = b
    BY <2>1
  <2>3. ASSUME NEW i \in 1..n + 1, NEW j \in 1..q + 1 PROVE C[<<i, j>>] = CutsFrom(pattern, path, i, j)
    <3>1. <<i, j>> \in D /\ <<i, j>>[1] = i /\ <<i, j>>[2] = j
      OBVIOUS
    <3> QED
      BY <3>1
  <2>4. CutsFrom(pattern, path, a, b) <=> Entry(pattern, path, C, a, b)
    <3>1. CASE a > n
      BY <3>1, CutEquation DEF Entry
    <3>2. CASE a <= n
      <4>1. C[<<a + 1, b>>] = CutsFrom(pattern, path, a + 1, b)
        BY <2>3, <3>2
      <4>2. b <= q => /\ C[<<a, b + 1>>] = CutsFrom(pattern, path, a, b + 1)
                      /\ C[<<a + 1, b + 1>>] = CutsFrom(pattern, path, a + 1, b + 1)
        BY <2>3, <3>2
      <4> HIDE DEF C
      <4> QED
        BY <3>2, <4>1, <4>2, CutEquation DEF Entry
    <3> QED
      BY <3>1, <3>2
  <2>5. CutsFrom(pattern, path, a, b) \in BOOLEAN
    BY Zenon DEF CutsFrom
  <2> HIDE DEF C
  <2>6. Entry(pattern, path, C, a, b) \in BOOLEAN
    BY EntryIsBoolean, Zenon
  <2>7. CutsFrom(pattern, path, a, b) = Entry(pattern, path, C, a, b)
    BY <2>4, <2>5, <2>6
  <2> QED
    BY <2>2, <2>7
<1>2. C = [at \in D |-> Entry(pattern, path, C, at[1], at[2])]
  <2> DEFINE e(at) == Entry(pattern, path, C, at[1], at[2])
  <2>1. \A at \in D : CutsFrom(pattern, path, at[1], at[2]) = e(at)
    BY <1>1
  <2> HIDE DEF e
  <2>2. C = [at \in D |-> e(at)]
    BY <2>1
  <2> QED
    BY <2>2 DEF e
<1>3. m = [at \in D |-> Entry(pattern, path, m, at[1], at[2])]
  BY <1>2, Zenon
<1>4. matchSegments(pattern, path) = m[<<1, 1>>]
  BY DEF matchSegments, Entry
<1> HIDE DEF m
<1>5. ASSUME NEW a \in 1..n + 1, NEW b \in 1..q + 1
      PROVE  m[<<a, b>>] = Entry(pattern, path, m, a, b)
  <2>1. <<a, b>> \in D /\ <<a, b>>[1] = a /\ <<a, b>>[2] = b
    OBVIOUS
  <2> QED
    BY <1>3, <2>1
<1> QED
  BY <1>4, <1>5

\* matchSegments finds exactly the paths that the pattern's segments can be laid out on:
\* trying each "**" name by name, from the left, misses none and invents none.
THEOREM MatchSegmentsCorrect ==
  ASSUME NEW pattern, NEW path, Len(pattern) \in Nat, Len(path) \in Nat
  PROVE  matchSegments(pattern, path) <=> Cuts(pattern, path)
<1>1. PICK m :
        /\ matchSegments(pattern, path) = m[<<1, 1>>]
        /\ \A a \in 1..Len(pattern) + 1, b \in 1..Len(path) + 1 :
             m[<<a, b>>] = Entry(pattern, path, m, a, b)
  BY MatchTable
<1> DEFINE n == Len(pattern)
           q == Len(path)
           C(i, j) == CutsFrom(pattern, path, i, j)
           Wrong(i, j) == ~(m[<<i, j>>] <=> C(i, j))
           T == {t \in Nat : \E i \in 1..n + 1, j \in 1..q + 1 : t = n + q + 2 - i - j /\ Wrong(i, j)}
<1>2. T = {}
  <2> HIDE DEF Wrong
  <2> SUFFICES ASSUME T # {} PROVE FALSE
    OBVIOUS
  <2>1. PICK t \in T : \A u \in T : t <= u
    BY Least
  <2>2. PICK a \in 1..n + 1, b \in 1..q + 1 : t = n + q + 2 - a - b /\ Wrong(a, b)
    OBVIOUS
  <2>3. ASSUME NEW i \in 1..n + 1, NEW j \in 1..q + 1, i + j > a + b
        PROVE  ~Wrong(i, j)
    <3> SUFFICES ASSUME Wrong(i, j) PROVE FALSE
      OBVIOUS
    <3>1. n + q + 2 - i - j \in T /\ t = n + q + 2 - a - b
      BY <2>2
    <3> HIDE DEF T
    <3> QED
      BY <2>1, <2>2, <2>3, <3>1
  <2>4. m[<<a, b>>] = Entry(pattern, path, m, a, b)
    BY <1>1
  <2>5. CASE a > n
    <3>1. C(a, b) <=> b > q
      BY <2>5, CutEquation
    <3>2. Entry(pattern, path, m, a, b) <=> b > q
      BY <2>5 DEF Entry
    <3> QED
      BY <2>2, <2>4, <3>1, <3>2 DEF Wrong
  <2>6. CASE a <= n
    <3>1. m[<<a + 1, b>>] <=> C(a + 1, b)
      BY <2>3, <2>6 DEF Wrong
    <3>2. b <= q => (m[<<a, b + 1>>] <=> C(a, b + 1)) /\ (m[<<a + 1, b + 1>>] <=> C(a + 1, b + 1))
      BY <2>3, <2>6 DEF Wrong
    <3>3. C(a, b) <=> IF a > n THEN b > q
                      ELSE IF pattern[a] = DeepStar THEN C(a + 1, b) \/ (b <= q /\ C(a, b + 1))
                      ELSE b <= q /\ path[b] \in pattern[a] /\ C(a + 1, b + 1)
      BY CutEquation, Zenon
    <3> HIDE DEF C
    <3>4. Entry(pattern, path, m, a, b) <=> C(a, b)
      BY <2>6, <3>1, <3>2, <3>3 DEF Entry
    <3> QED
      BY <2>2, <2>4, <3>4 DEF Wrong
  <2> QED
    BY <2>5, <2>6
<1>3. m[<<1, 1>>] <=> C(1, 1)
  <2>1. n + q \in Nat /\ n + q = n + q + 2 - 1 - 1 /\ 1 \in 1..n + 1 /\ 1 \in 1..q + 1
    OBVIOUS
  <2> QED
    BY <1>2, <2>1
<1>4. C(1, 1) <=> Cuts(pattern, path)
  BY DEF Cuts, CutsFrom
<1> QED
  BY <1>1, <1>3, <1>4

\* One segment matches a path of that one name only.
LEMMA OneSegment ==
  ASSUME NEW s, s # DeepStar, NEW path, Len(path) \in Nat
  PROVE  matchSegments(<<s>>, path) <=> Len(path) = 1 /\ path[1] \in s
<1>1. Len(<<s>>) = 1 /\ <<s>>[1] = s
  OBVIOUS
<1>2. matchSegments(<<s>>, path) <=> Cuts(<<s>>, path)
  BY <1>1, MatchSegmentsCorrect
<1>3. ASSUME Cuts(<<s>>, path) PROVE Len(path) = 1 /\ path[1] \in s
  <2>1. PICK cut \in [0..1 -> 0..Len(path)] :
               cut[0] = 0 /\ cut[1] = Len(path) /\ Takes(s, path, cut[1 - 1], cut[1])
    BY <1>1, <1>3 DEF Cuts
  <2> QED
    BY <2>1 DEF Takes
<1>4. ASSUME Len(path) = 1, path[1] \in s PROVE Cuts(<<s>>, path)
  <2> DEFINE cut == [i \in 0..1 |-> i]
  <2>1. cut \in [0..1 -> 0..Len(path)] /\ cut[0] = 0 /\ cut[1] = Len(path) /\ cut[1 - 1] = 0
    BY <1>4
  <2>2. Takes(s, path, 0, 1)
    BY <1>4 DEF Takes
  <2> HIDE DEF cut
  <2> QED
    BY <1>1, <1>4, <2>1, <2>2 DEF Cuts
<1> QED
  BY <1>2, <1>3, <1>4

\* A bare name, such as *.log, matches at any depth and against the last name only.
THEOREM BareNameMatchesLast ==
  ASSUME NEW rule, NEW s, rule.segments = <<s>>, s # DeepStar, ~rule.slash,
         NEW p \in Path, NEW dir \in BOOLEAN
  PROVE  Matches(rule, p, dir) <=> (rule.dirOnly => dir) /\ p[Len(p)] \in s
<1>1. p \in Seq(Name) /\ Len(p) \in Nat /\ Len(p) >= 1
  <2>1. p \in Seq(Name) /\ Len(p) \in Nat \ {0}
    BY PlaceFacts
  <2>2. \A k \in Nat \ {0} : k >= 1
    OBVIOUS
  <2> QED
    BY <2>1, <2>2
<1>2. ~Anchored(rule)
  <2>1. Len(<<s>>) = 1 /\ \A i \in 1..Len(<<s>>) : <<s>>[i] = s
    OBVIOUS
  <2> QED
    BY <2>1 DEF Anchored, Contains
<1>3. ASSUME NEW n \in 1..Len(p)
      PROVE  matchSegments(<<s>>, SubSeq(p, n + 1, Len(p))) <=> n = Len(p) - 1 /\ p[Len(p)] \in s
  <2>1. Len(SubSeq(p, n + 1, Len(p))) = Len(p) - n
    BY <1>1, SubSeqProperties
  <2>2. n = Len(p) - 1 => SubSeq(p, n + 1, Len(p))[1] = p[Len(p)]
    BY <1>1, SubSeqProperties
  <2> DEFINE rest == SubSeq(p, n + 1, Len(p))
  <2>3. Len(rest) \in Nat /\ (Len(rest) = 1 <=> n = Len(p) - 1)
    BY <1>1, <2>1
  <2> HIDE DEF rest
  <2>4. matchSegments(<<s>>, rest) <=> Len(rest) = 1 /\ rest[1] \in s
    BY <2>3, OneSegment
  <2> QED
    BY <2>2, <2>3, <2>4 DEF rest
<1>4. matchSegments(<<s>>, p) <=> Len(p) = 1 /\ p[Len(p)] \in s
  BY <1>1, OneSegment
<1>5. (matchSegments(<<s>>, p) \/ \E n \in 1..Len(p) : matchSegments(<<s>>, SubSeq(p, n + 1, Len(p))))
        <=> p[Len(p)] \in s
  <2>1. CASE Len(p) = 1
    BY <1>1, <1>3, <1>4, <2>1
  <2>2. CASE Len(p) # 1
    <3>1. Len(p) - 1 \in 1..Len(p)
      <4>1. \A k \in Nat : k >= 1 /\ k # 1 => k - 1 \in 1..k
        OBVIOUS
      <4> QED
        BY <1>1, <2>2, <4>1, Zenon
    <3> QED
      BY <1>3, <1>4, <2>2, <3>1
  <2> QED
    BY <2>1, <2>2
<1> QED
  BY <1>2, <1>5 DEF Matches
===============================================================================
