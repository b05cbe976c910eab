----------------------------- MODULE TreeReceiver -----------------------------
(***************************************************************************)
(* The receiving side of syncs of a whole tree: directories, symlinks,      *)
(* regular files and hard links, with their permissions and times and the   *)
(* lines of --itemize-changes.  A file's bytes are replaced in one step     *)
(* here; FileReceiver has the steps of that.                                *)
(*                                                                          *)
(* The destination's file system is part of the model: a name created,      *)
(* removed or replaced touches the directory that holds it, and only a      *)
(* writable directory allows that.  Files with one id are one inode.  The   *)
(* destination itself is a writable directory, and syncs run as its owner,  *)
(* without privileges.                                                      *)
(*                                                                          *)
(* Symlinks lead out of both trees, to another file system.  What is there  *)
(* is no state of the model: a call that follows one may find anything, and *)
(* succeed or fail; what it changes there is one flag, outside.             *)
(***************************************************************************)
EXTENDS FileList

CONSTANTS Data, Target, Time,  \* contents (sequences), link targets, times
          Sources,             \* trees the source may be
          Dests,               \* trees the destination may be at first
          Commands,            \* [opts, rules] a run may be started with
          MaxRuns              \* bound on the runs

Perm == {"w", "r", "new"}      \* writable, read-only, what a new node gets
Options == [dryRun : BOOLEAN, attrs : SUBSET {"perms", "times"}, links : BOOLEAN,
            hardLinks : BOOLEAN, walk : {"all", "dirs", "files"}]
Node == [kind : {"dir"}, perm : Perm, time : Time \cup {"now"}]
        \cup [kind : {"symlink"}, target : Target]
        \cup [kind : {"file"}, data : Data, perm : Perm, time : Time \cup {"now"}, id : Path]

\* What holds p is a directory, and one inode has one content.
WellFormed(tree) ==
  /\ tree \in [Path -> Node \cup {Absent}]
  /\ \A p \in Path : tree[p] # Absent => \A q \in Above(p) : IsDir(tree, q)
  /\ \A p, q \in Path : /\ IsFile(tree, p) /\ IsFile(tree, q)
                        /\ tree[p].id = tree[q].id
                        => tree[p] = tree[q]

ASSUME TreeAssumption == /\ \A tree \in Sources \cup Dests : WellFormed(tree)
                         /\ Data \subseteq Seq(Nat) /\ "now" \notin Time /\ Absent \notin Node
ASSUME CommandAssumption == (\A c \in Commands : c.opts \in Options) /\ MaxRuns \in Nat

VARIABLES source, dest,
          opts, list, groups, \* the running sync: its flags, what it was sent
          start,              \* the destination when it began
          pc, todo,           \* "entry", "links", "dirs": the passes of Receiver,
                              \* and the paths the pass has yet to come to
          lines,              \* the itemized line of each path, as its marks
          outside,            \* it has changed something behind a symlink
          runs                \* how many were begun

vars == <<source, dest, opts, list, groups, start, pc, todo, lines, outside, runs>>
run == <<source, opts, list, groups, start, runs>>

NoLines == [p \in Path |-> {}]
Flags == [dryRun |-> FALSE, attrs |-> {}, links |-> FALSE, hardLinks |-> FALSE, walk |-> "files"]

Init ==
  /\ source \in Sources /\ dest \in Dests
  /\ opts = Flags /\ list = {} /\ groups = {} /\ start = dest
  /\ pc = "idle" /\ todo = {} /\ lines = NoLines /\ outside = FALSE /\ runs = 0

-----------------------------------------------------------------------------
(* The destination's file system. *)

Parent(p) == Front(p)
Writable(d, p) == p # <<>> => IsDir(d, p) /\ d[p].perm # "r"
NewDir == [kind |-> "dir", perm |-> "new", time |-> "now"]

\* d with the directory of p touched.
Touch(d, p) == IF Len(p) = 1 THEN d ELSE [d EXCEPT ![Parent(p)].time = "now"]

\* d with p replaced by node.
Put(d, p, node) == Touch([d EXCEPT ![p] = node], p)

\* An inode no other name has.
FreshId(d, p) == CHOOSE n \in Path : \A q \in Path \ {p} : IsFile(d, q) => d[q].id # n

Missing(d, p) == {q \in PathsTo(p) : d[q] = Absent}

\* Mutant: os.Mkdir.
MkdirAll_Last(d, p) == IF p = <<>> \/ d[p] # Absent THEN d ELSE [d EXCEPT ![p] = NewDir]

\* os.MkdirAll: each directory on the way to p that is not there.
MkdirAll(d, p) ==
  [q \in Path |-> IF q \in Missing(d, p) THEN NewDir
                  ELSE IF \E r \in Missing(d, p) : Parent(r) = q THEN [d[q] EXCEPT !.time = "now"]
                  ELSE d[q]]

CanMkdirAll(d, p) ==
  /\ \A q \in PathsTo(p) : d[q] = Absent \/ IsDir(d, q)
  /\ \A q \in Missing(d, p) : Parent(q) \in Missing(d, p) \/ Writable(d, Parent(q))

\* p can be created, removed or replaced in its directory once that is there.
CanWrite(d, p) == CanMkdirAll(d, Parent(p)) /\ Writable(MkdirAll(d, Parent(p)), Parent(p))

\* Calls on p follow a symlink above it; those that lead elsewhere where p is no
\* symlink for them to make follow one at p as well.
Behind(d, p) == \E q \in Above(p) : IsSymlink(d, q)
Astray(d, p) == Behind(d, p) \/ (IsSymlink(d, p) /\ ~IsSymlink(source, p))

\* A call on something behind a symlink: whether it changes anything there is not
\* known.
Follow(changes) == dest' = dest /\ outside' \in {outside, outside \/ changes}

\* os.Lstat answers inside the destination, if only that there is no such file.
CanStat(d, p) == \A q \in Above(p) : d[q] = Absent \/ IsDir(d, q)

\* A directory with something in it cannot be removed.
CanRemove(d, p) == IsDir(d, p) => \A q \in Path : p \in Above(q) => d[q] = Absent

\* chmod and chtimes reach every name of the inode.
ApplyAttributes(d, p, node) ==
  LET set(n) == [n EXCEPT !.perm = IF "perms" \in opts.attrs THEN node.perm ELSE @,
                          !.time = IF "times" \in opts.attrs THEN node.time ELSE @]
  IN [q \in Path |-> IF q = p \/ (IsFile(d, p) /\ IsFile(d, q) /\ d[q].id = d[p].id)
                     THEN set(d[q]) ELSE d[q]]

-----------------------------------------------------------------------------
(* The lists of a run. *)

\* A group's first member is written, the others are linked to it.
Group(p) == CHOOSE g \in groups : p \in g
Leader(p) == First(Group(p))
Secondary == UNION {g \ {First(g)} : g \in groups}

\* The next of ps to be linked: group after group, each in its order.
NextLink(ps) == LET h == First({Leader(p) : p \in ps})
                IN First({p \in ps : Leader(p) = h})

Dirs == {p \in list : IsDir(source, p)}

\* Of a symlink in place of p the bytes behind it count: Changed where they differ.
Changed(d, p) == ~IsFile(d, p) \/ d[p].data # source[p].data

-----------------------------------------------------------------------------
(* Itemized changes. *)

Mark == {"new", "target", "times", "perms", "size", ">", "hard", "astray"}

\* The positions of the code that are not ".": s(ize), t(imes), p(erms), the
\* target of a link, and ">" for data sent.
Marks(d, p) ==
  IF d[p] = Absent THEN {"new"}
  ELSE IF IsSymlink(source, p)
    THEN IF IsSymlink(d, p) /\ d[p].target = source[p].target THEN {} ELSE {"target"}
  ELSE {m \in opts.attrs : \/ m = "times" /\ d[p].time # source[p].time
                           \/ m = "perms" /\ d[p].perm # source[p].perm}
       \cup {m \in {"size", ">"} : /\ IsFile(source, p)
                                   /\ m = "size" => Len(d[p].data) # Len(source[p].data)
                                   /\ m = ">" => Changed(d, p)}

\* The line p gets, if any, when d is what the destination was found to be.  That of
\* an astray path compares with what is behind the symlink, or with the symlink.
Line(d, p) == IF p \in Secondary THEN {"hard"}
              ELSE IF IsSymlink(source, p) /\ ~opts.links THEN {}
              ELSE IF Astray(d, p) THEN {"astray"}
              ELSE Marks(d, p)

\* Mutant: an entry is looked up after it was written.
Old_Written == dest'
Old == dest

-----------------------------------------------------------------------------
(* Between two runs. *)

\* Mutant: links are detected in everything Walk found.
HardLinkGroups_Walked(walked, kept) == DetectHardLinks(source, walked)
HardLinkGroups(walked, kept) == DetectHardLinks(source, kept)

Begin ==
  /\ pc \in {"idle", "done", "failed"} /\ runs < MaxRuns /\ runs' = runs + 1
  /\ \E c \in Commands :
       LET walked == Walk(source, c.opts.walk)
           kept == FilterEntries(source, walked, c.rules)
       IN /\ opts' = c.opts /\ list' = kept /\ todo' = kept
          /\ groups' = IF c.opts.hardLinks THEN HardLinkGroups(walked, kept) ELSE {}
  /\ start' = dest /\ pc' = "entry" /\ lines' = NoLines /\ outside' = FALSE
  /\ UNCHANGED <<source, dest>>

EditSource ==
  /\ pc \in {"idle", "done", "failed"}
  /\ source' \in Sources
  /\ opts' = Flags /\ list' = {} /\ groups' = {} /\ start' = dest
  /\ pc' = "idle" /\ todo' = {} /\ lines' = NoLines /\ outside' = FALSE
  /\ UNCHANGED <<dest, runs>>

-----------------------------------------------------------------------------
(* The entries. *)

Current == First(todo)
At(kind) == pc = "entry" /\ todo # {} /\ source[Current].kind = kind
Report == /\ lines' = [lines EXCEPT ![Current] = Line(Old, Current)]
          /\ todo' = todo \ {Current} /\ UNCHANGED <<run, pc>>

\* Mutant: a directory has its attributes from the start.
ReceiveDir_WithAttributes ==
  /\ At("dir") /\ CanStat(dest, Current)
  /\ \/ opts.dryRun /\ dest' = dest
     \/ /\ ~opts.dryRun /\ CanMkdirAll(dest, Current)
        /\ dest' = ApplyAttributes(MkdirAll(dest, Current), Current, source[Current])
  /\ Report /\ UNCHANGED outside

ReceiveDir ==
  /\ At("dir") /\ CanStat(dest, Current)
  /\ \/ opts.dryRun /\ dest' = dest
     \/ ~opts.dryRun /\ CanMkdirAll(dest, Current) /\ dest' = MkdirAll(dest, Current)
  /\ Report /\ UNCHANGED outside

Removed(d, p) == IF d[p] = Absent THEN d ELSE Put(d, p, Absent)

\* Mutants: a symlink that could not be made is passed over; it gets attributes
\* too, which lands on what it points to.
ReceiveSymlink_Ignored ==
  /\ At("symlink") /\ (opts.links => CanStat(dest, Current))
  /\ \/ (opts.dryRun \/ ~opts.links) /\ dest' = dest
     \/ /\ opts.links /\ ~opts.dryRun
        /\ CanWrite(dest, Current) /\ CanRemove(dest, Current)
        /\ dest' \in {Removed(dest, Current),
                     Put(MkdirAll(dest, Parent(Current)), Current, source[Current])}
  /\ Report /\ UNCHANGED outside
ReceiveSymlink_Attributes ==
  /\ At("symlink") /\ (opts.links => CanStat(dest, Current))
  /\ \/ (opts.dryRun \/ ~opts.links) /\ dest' = dest /\ outside' = outside
     \/ /\ opts.links /\ ~opts.dryRun
        /\ CanWrite(dest, Current) /\ CanRemove(dest, Current)
        /\ dest' = Put(MkdirAll(dest, Parent(Current)), Current, source[Current])
        /\ outside' = (outside \/ opts.attrs # {})
  /\ Report

\* A symlink is made anew even when it is there already; perms and times would
\* follow it and are left alone.
ReceiveSymlink ==
  /\ At("symlink") /\ (opts.links => CanStat(dest, Current))
  /\ \/ (opts.dryRun \/ ~opts.links) /\ dest' = dest
     \/ /\ opts.links /\ ~opts.dryRun
        /\ CanWrite(dest, Current) /\ CanRemove(dest, Current)
        /\ dest' = Put(MkdirAll(dest, Parent(Current)), Current, source[Current])
  /\ Report /\ UNCHANGED outside

SkipSecondary == /\ At("file") /\ Current \in Secondary
                 /\ Report /\ UNCHANGED <<dest, outside>>

\* A new file has the temp file's mode, and replaces a symlink as it does a file.
Written(d, p) ==
  LET made == MkdirAll(d, Parent(p))
  IN IF Changed(d, p)
       THEN Put(made, p, [kind |-> "file", data |-> source[p].data, perm |-> "new",
                          time |-> "now", id |-> FreshId(d, p)])
     ELSE made

ReceiveFile ==
  /\ At("file") /\ Current \notin Secondary
  /\ CanStat(dest, Current) /\ ~IsDir(dest, Current)
  /\ \/ opts.dryRun /\ dest' = dest
     \/ /\ ~opts.dryRun /\ CanMkdirAll(dest, Parent(Current))
        /\ Changed(dest, Current) => CanWrite(dest, Current)
        /\ dest' = ApplyAttributes(Written(dest, Current), Current, source[Current])
  /\ Report /\ UNCHANGED outside

\* Above Current is a symlink, or in its place: a directory that MkdirAll finds
\* there, or a file with Current's bytes, which then gets Current's attributes.
FollowLink ==
  /\ pc = "entry" /\ todo # {} /\ Current \notin Secondary /\ Astray(dest, Current)
  /\ IsSymlink(source, Current) => opts.links
  /\ Follow(~opts.dryRun /\ \/ Behind(dest, Current)
                            \/ IsFile(source, Current) /\ opts.attrs # {})
  /\ Report

-----------------------------------------------------------------------------
(* The passes after the entries. *)

\* Mutant: directories get their attributes before the hard links are made.
Passes_DirsFirst == <<"dirs", "links">>
Passes == <<"links", "dirs">>

EndPass ==
  /\ pc \in {"entry", "links", "dirs"} /\ todo = {}
  /\ pc' = IF pc = Passes[2] \/ opts.dryRun THEN "done"
           ELSE IF pc = "entry" THEN Passes[1] ELSE Passes[2]
  /\ todo' = IF pc' = "links" THEN Secondary ELSE IF pc' = "dirs" THEN Dirs ELSE {}
  /\ UNCHANGED <<run, dest, lines, outside>>

\* A symlink is linked like a file.
ApplyHardLink ==
  /\ pc = "links" /\ todo # {}
  /\ LET p == NextLink(todo)
     IN /\ dest[Leader(p)] # Absent /\ ~IsDir(dest, Leader(p))
        /\ CanWrite(dest, p) /\ CanRemove(dest, p)
        /\ dest' = Put(MkdirAll(dest, Parent(p)), p, dest[Leader(p)])
        /\ todo' = todo \ {p}
  /\ UNCHANGED <<run, pc, lines, outside>>

\* Behind symlinks both; a link from the one file system to the other fails.
LinkBehind ==
  /\ pc = "links" /\ todo # {}
  /\ LET p == NextLink(todo)
     IN /\ Behind(dest, Leader(p)) /\ Behind(dest, p)
        /\ Follow(TRUE) /\ todo' = todo \ {p}
  /\ UNCHANGED <<run, pc, lines>>

\* Deepest first.
ApplyDirAttributes ==
  /\ pc = "dirs" /\ todo # {}
  /\ LET p == Final(todo)
     IN /\ \/ /\ IsDir(dest, p) /\ outside' = outside
              /\ dest' = ApplyAttributes(dest, p, source[p])
           \/ Astray(dest, p) /\ Follow(opts.attrs # {})
        /\ todo' = todo \ {p}
  /\ UNCHANGED <<run, pc, lines>>

-----------------------------------------------------------------------------
\* What a call that fails, or a kill, leaves of an attempt to replace p: some
\* of its directories, p removed, and, for a file, p without its attributes.
Attempts(p) ==
  {dest} \cup
  IF opts.dryRun \/ ~CanWrite(dest, p) THEN {}
  ELSE {MkdirAll(dest, q) : q \in PathsTo(Parent(p))} \cup
       (IF IsFile(source, p) /\ p \notin Secondary
          THEN IF IsDir(dest, p) THEN {} ELSE {Written(dest, p)}
        ELSE IF CanRemove(dest, p) THEN {Removed(dest, p)} ELSE {})

\* The same of an attempt to make the directory p.
DirAttempts(p) ==
  {dest} \cup IF opts.dryRun \/ ~CanMkdirAll(dest, p) THEN {}
              ELSE {MkdirAll(dest, q) : q \in PathsTo(p)}

\* The path the pass has come to.
Due == IF pc = "links" THEN NextLink(todo) ELSE IF pc = "dirs" THEN Final(todo) ELSE Current

Fails ==
  /\ pc \in {"entry", "links", "dirs"} /\ todo # {}
  /\ dest' \in IF pc = "links" \/ At("file") \/ (At("symlink") /\ opts.links)
                 THEN Attempts(Due)
               ELSE IF At("dir") THEN DirAttempts(Due) ELSE {dest}
  /\ outside' \in {outside, outside \/ (~opts.dryRun /\ Astray(dest, Due))}
  /\ pc' = "failed"
  /\ UNCHANGED <<run, todo, lines>>

Step == \/ ReceiveDir \/ ReceiveSymlink \/ SkipSecondary \/ ReceiveFile \/ FollowLink
        \/ EndPass \/ ApplyHardLink \/ LinkBehind \/ ApplyDirAttributes

Next == Begin \/ EditSource \/ Step \/ Fails

Spec == Init /\ [][Next]_vars

-----------------------------------------------------------------------------
(* Properties. *)

\* Every variable keeps its type, and the destination stays a file system: no
\* name without its directory, and one inode has one content and attributes.
TypeOK ==
  /\ source \in Sources /\ WellFormed(dest) /\ WellFormed(start)
  /\ opts \in Options
  /\ list \subseteq Path /\ groups \subseteq SUBSET Path /\ todo \subseteq Path
  /\ pc \in {"idle", "entry", "links", "dirs", "done", "failed"} /\ runs \in 0..MaxRuns
  /\ lines \in [Path -> SUBSET Mark] /\ outside \in BOOLEAN

\* The files d links with p that are written on their own.
Tangled(d, p) ==
  {q \in list \ Secondary : q # p /\ IsFile(d, q) /\ IsFile(d, p) /\ d[q].id = d[p].id}

\* After a sync that reports success the next one finds nothing to change: the
\* later entries, the links and the other passes have not undone what an earlier
\* one did, such as the time of a directory.  Not so for names of one inode of
\* the destination whose sources want it to have different attributes, and where
\* a symlink is in the way of something else: one whose file has the bytes, or
\* that leads to a directory, is taken for it and stays.
Settled ==
  pc = "done" /\ ~opts.dryRun =>
    \A p \in list \ Secondary :
      /\ ~Astray(dest, p)
      /\ \A q \in Tangled(dest, p) : [source[q] EXCEPT !.id = source[p].id] = source[p]
      => Line(dest, p) = {}

\* The lines a dry run prints: each entry against the destination as it was.
DryRunLines == [p \in Path |-> IF p \in list THEN Line(start, p) ELSE {}]

\* "Output is identical between a dry run and the real run that would follow it"
\* unless the destination has one inode for two files that are written apart:
\* the real run changes the second one's attributes before it looks at it.  The
\* lines of paths behind symlinks are not compared, since what they tell is the
\* state of what is there.
SameAsDryRun ==
  pc = "done" /\ (\A p \in list : Tangled(start, p) = {}) =>
    \A p \in Path : ~Astray(start, p) => lines[p] = DryRunLines[p]

\* "Receiver only ever touches paths present in the sender's file list": a path
\* that is not listed changes only as a directory on the way to a listed one,
\* which is made or touched, or as another name of a listed file's inode, which
\* keeps its content.  Outside of the destination nothing changes either, with one
\* exception the sentence does not make: a symlink of the destination that is
\* above a listed path, or where the source has no symlink, is followed.
OnlyListed ==
  [][/\ \A p \in Path \ list : dest'[p] # dest[p] =>
          \/ /\ \E q \in list : p \in Above(q)
             /\ dest[p] = Absent \/ dest'[p] = [dest[p] EXCEPT !.time = "now"]
          \/ /\ IsFile(dest, p) /\ IsFile(dest', p) /\ dest'[p].data = dest[p].data
             /\ \E q \in list : IsFile(dest, q) /\ dest[q].id = dest[p].id
     /\ outside' /\ ~outside => ~opts.dryRun /\ \E p \in list : Astray(dest, p)]_vars

\* A name that was in the destination stays in it: what is replaced is gone only
\* between its removal and the making of the new link, so a run that fails loses
\* one at most, that of a symlink or of a hard link it had come to, and one that
\* succeeds none.
NothingLost ==
  LET gone == {p \in Path : start[p] # Absent /\ dest[p] = Absent}
  IN gone # {} => /\ pc = "failed"
                  /\ \E p \in todo : gone = {p} /\ (IsSymlink(source, p) \/ p \in Secondary)

\* What the run has yet to write in the destination it can still write there if it
\* could at the start: no attributes given so far, such as a read-only mode, are in
\* the way of a later entry or link.
StaysWritable ==
  pc \in {"entry", "links"} => \A p \in todo : CanWrite(start, p) => CanWrite(dest, p)
=============================================================================
