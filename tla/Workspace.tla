------------------------------ MODULE Workspace ------------------------------
(***************************************************************************)
(* What a run sees of the tree it works on (workspace/git-workspace.ts,    *)
(* workspace/file-workspace.ts): snapshots, and differences against a      *)
(* baseline, in a git repository and in a plain directory.  A tree maps    *)
(* every path to its content; a difference is a set of records of what     *)
(* became of a path.                                                       *)
(***************************************************************************)
EXTENDS FiniteSets

CONSTANTS
  Files,      \* the paths of the tree
  Contents,   \* what a file may hold
  None,       \* no file
  Excluded    \* paths kept out of every view: goaly's own state, caches

ASSUME NoneIsNoContent == None \notin Contents
ASSUME ExcludedAreFiles == Excluded \subseteq Files

EmptyTree == [f \in Files |-> None]

Only(t, S) == [f \in Files |-> IF f \in S THEN t[f] ELSE None]

Change(f, from, to) == [file |-> f, from |-> from, to |-> to]

Changes(t, u) == {Change(f, t[f], u[f]) : f \in {g \in Files : t[g] # u[g]}}

----------------------------------------------------------------------------
(* A git work tree: disk is what its files hold, index the paths git        *)
(* tracks, head the last commit's tree (empty on an unborn branch), ignored *)
(* the paths its exclude files name.                                        *)

\* A snapshot stages everything into an index of its own.
GitSnapshot(w) == Only(w.disk, Files \ (w.ignored \cup Excluded))

\* git compares a tree with the files its index knows, and nothing else.
GitTracked(w, tree) ==
  {c \in Changes(tree, Only(w.disk, w.index)) : c.file \notin Excluded}

Untracked(w) ==
  {f \in Files \ (w.index \cup w.ignored \cup Excluded) : w.disk[f] # None}

\* Paths a difference shows even where git hides them.
Forced(w, includes) ==
  {f \in includes \ Untracked(w) : w.disk[f] # None}

GitDiff(w, tree, includes) ==
  GitTracked(w, tree)
    \cup {Change(f, None, w.disk[f]) : f \in Untracked(w) \cup Forced(w, includes)}

----------------------------------------------------------------------------
(* A plain directory: every file is walked.                                 *)

FileSnapshot(w) == Only(w.disk, Files \ Excluded)

\* An included path is added where the manifests' comparison names it nowhere.
FileForced(w, tree, includes) ==
  {f \in includes :
     /\ tree[f] = None
     /\ FileSnapshot(w)[f] # None
     /\ \A c \in Changes(tree, FileSnapshot(w)) : c.file # f}

FileDiff(w, tree, includes) ==
  Changes(tree, FileSnapshot(w))
    \cup {Change(f, None, w.disk[f]) : f \in FileForced(w, tree, includes)}
=============================================================================
