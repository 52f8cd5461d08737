----------------------------- MODULE FileStore -----------------------------
(***************************************************************************)
(* What internal/atomicfile and internal/cas do to a directory tree, as    *)
(* processes read it and as a power failure leaves it.                     *)
(*                                                                         *)
(* A store is a record: now[p] is what a process reads at path p, kept[p]  *)
(* is what the disk holds for certain.  A rename is visible at once and    *)
(* certain only after an fsync of its directory; until then a power        *)
(* failure may undo it.  A directory is a path whose content is Dir.     *)
(***************************************************************************)
CONSTANTS Paths,     \* the paths of the tree
          Root,      \* the output root, its own parent here
          Parent,    \* the directory each path is an entry of
          Absent,    \* the content of a path that does not exist
          Dir        \* the content of a directory

\* A tree in which nothing but the root may exist.
Bare(root) == LET tree == [p \in Paths |-> IF p = Root THEN root ELSE Absent]
              IN [now |-> tree, kept |-> tree]

Present(store, p) == store.now[p] # Absent

Children(d) == {p \in Paths \ {Root} : Parent[p] = d}

\* os.Rename, os.MkdirAll and the creation of a file: visible, not yet certain.
Put(store, p, content) == [store EXCEPT !.now[p] = content]

MkdirAll(store, d) == IF Present(store, d) THEN store ELSE Put(store, d, Dir)

\* fsync of directory d makes its entries certain, but not the entry of d itself.
SyncDir(store, d) ==
    [store EXCEPT !.kept = [p \in Paths |-> IF p \in Children(d) THEN store.now[p] ELSE @[p]]]

\* An entry is reachable when every directory above it is; trees are four deep.
Reachable(tree, p) == \A q \in {p, Parent[p], Parent[Parent[p]], Parent[Parent[Parent[p]]]} : tree[q] # Absent

\* The trees a power failure may leave: each uncertain entry is kept or undone.
Survivors(store) ==
    LET uncertain == {p \in Paths : store.now[p] # store.kept[p]}
        Left(lost) == [p \in Paths |-> IF p \in lost THEN store.kept[p] ELSE store.now[p]]
        Mounted(tree) == [p \in Paths |-> IF Reachable(tree, p) THEN tree[p] ELSE Absent]
    IN {[now |-> Mounted(Left(lost)), kept |-> Mounted(Left(lost))] : lost \in SUBSET uncertain}
=============================================================================
