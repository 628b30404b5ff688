---------------------------- MODULE Enhancements -----------------------------
(***************************************************************************)
(* The zsh enhancement trees on the disk (materialize_enhancements,        *)
(* gc_stale_versions of enhancements_io.rs).  Each session that is opened  *)
(* looks for the tree of its program's version, or builds one beside it    *)
(* and renames it into place, then sweeps the trees of other versions.     *)
(* Programs of several versions run at once, any call to the file system   *)
(* may fail, and a program may die in the middle.                          *)
(*                                                                         *)
(* Removing a tree is not atomic: its files go one by one, in any order,   *)
(* and the directory last.  The directory of versions is listed at once,   *)
(* and staging trees, swept only after an hour, are their builders' own.   *)
(***************************************************************************)
EXTENDS Naturals, FiniteSets, Sequences

CONSTANTS VERSIONS,   \* version_key of the programs
          INSTALLED,  \* what may be there at the start: sequences of them, oldest first
          MAX_CALLS,  \* bound: calls of materialize_enhancements, numbered as they begin
          MAX_OVERLAP \* bound: calls under way at once

VARIABLES
  tree,    \* per version, its directory: how much of it is there, the marker, which build it is
  builder, \* per call: its version and step, what removes are left to do and on which build, an I/O error
  builds,  \* trees put into place so far
  cut,     \* history: builds whose removal has begun
  shell    \* history: what the shell found that was started after the call

vars == <<tree, builder, builds, cut, shell>>

BUILDERS == 1..MAX_CALLS
None == "none"
Missing == [files |-> "none", marker |-> FALSE, build |-> 0]
Whole(n) == [files |-> "all", marker |-> TRUE, build |-> n]
Idle == [version |-> None, at |-> "idle", victims |-> {}, on |-> 0, io |-> FALSE]
Removal == {"none", "empty", "some", "all"}

TypeOK ==
  /\ builds \in Nat /\ cut \subseteq 1..builds
  /\ tree \in [VERSIONS -> [files : Removal, marker : BOOLEAN, build : 0..builds]]
  /\ builder \in [BUILDERS ->
       [version : VERSIONS \cup {None},
        at : {"idle", "staging", "staged", "blocked", "clearing", "cleared", "sweeping",
              "removing", "ready", "failed", "done"},
        victims : SUBSET VERSIONS, on : 0..builds, io : BOOLEAN]]
  /\ shell \in [BUILDERS -> {"none", "whole", "torn", "bare"}]

Init ==
  \E there \in INSTALLED :
    /\ tree = [v \in VERSIONS |->
                IF \E n \in DOMAIN there : there[n] = v
                THEN Whole(CHOOSE n \in DOMAIN there : there[n] = v) ELSE Missing]
    /\ builds = Len(there)
    /\ builder = [b \in BUILDERS |-> Idle] /\ shell = [b \in BUILDERS |-> "none"] /\ cut = {}

At(b, step) == builder[b].at = step
Goes(b, step) == builder' = [builder EXCEPT ![b].at = step]
Own(b) == tree[builder[b].version]
Underway == {b \in BUILDERS : ~At(b, "idle") /\ ~At(b, "done")}
There(t) == t.files # "none"

\* An error of the file system ends the call; open_pty goes on without the layer.
Errs(b) == builder' = [builder EXCEPT ![b].at = "failed", ![b].io = TRUE]

-----------------------------------------------------------------------------
(* materialize_enhancements.                                               *)

\* A session is opened by a program of version v; one stat when its tree is there.
Lookup(b, v) ==
  /\ At(b, "idle") /\ (b > 1 => ~At(b - 1, "idle")) /\ Cardinality(Underway) < MAX_OVERLAP
  /\ builder' = [builder EXCEPT ![b].version = v,
                   ![b].at = IF tree[v].marker THEN "ready" ELSE "staging"]
  /\ UNCHANGED <<tree, builds, cut, shell>>

\* Nobody else knows the staging directory: its name has the process and a nonce.
Stage(b) ==
  /\ At(b, "staging")
  /\ Goes(b, "staged") \/ Errs(b)
  /\ UNCHANGED <<tree, builds, cut, shell>>

\* (mutation) the marker of the tree comes before its files
PlaceMarkerFirst(b) ==
  /\ Own(b).files \in {"none", "empty"}
  /\ builds' = builds + 1
  /\ tree' = [tree EXCEPT ![builder[b].version] =
                [files |-> "some", marker |-> TRUE, build |-> builds + 1]]
  /\ Goes(b, "sweeping")
  /\ UNCHANGED <<cut, shell>>

\* The staged tree, marker and all, appears in place of nothing or of an empty directory.
Place(b) ==
  /\ Own(b).files \in {"none", "empty"}
  /\ builds' = builds + 1
  /\ tree' = [tree EXCEPT ![builder[b].version] = Whole(builds + 1)]
  /\ Goes(b, "sweeping")
  /\ UNCHANGED <<cut, shell>>

Rename(b) ==
  /\ At(b, "staged")
  /\ \/ Place(b)
     \/ /\ IF Own(b).files \in {"all", "some"} THEN Goes(b, "blocked")
           ELSE builder' = [builder EXCEPT ![b].at = "blocked", ![b].io = TRUE]
        /\ UNCHANGED <<tree, builds, cut, shell>>

\* (mutation) whatever blocks the rename is replaced
BlockedReplacing(b) ==
  /\ At(b, "blocked")
  /\ Goes(b, IF There(Own(b)) THEN "clearing" ELSE "failed")
  /\ UNCHANGED <<tree, builds, cut, shell>>

\* Why the rename failed: another call was first, an incomplete tree, or neither.
Blocked(b) ==
  /\ At(b, "blocked")
  /\ Goes(b, IF Own(b).marker THEN "sweeping"
             ELSE IF There(Own(b)) THEN "clearing" ELSE "failed")
  /\ UNCHANGED <<tree, builds, cut, shell>>

Install(b) ==
  /\ At(b, "cleared")
  /\ \/ Place(b)
     \/ /\ IF Own(b).files \in {"all", "some"} THEN Goes(b, "failed") ELSE Errs(b)
        /\ UNCHANGED <<tree, builds, cut, shell>>

-----------------------------------------------------------------------------
(* remove_dir_all of a tree, by the one who opened that build of it.       *)

\* Some file has gone, the marker among them or not; then all of them.
Removes(b, v) ==
  /\ builder[b].on # 0 /\ tree[v].build = builder[b].on
  /\ cut' = cut \cup {tree[v].build}
  /\ \/ /\ tree[v].files = "all"
        /\ \E marker \in BOOLEAN : tree' = [tree EXCEPT ![v].files = "some", ![v].marker = marker]
     \/ /\ tree[v].files = "some"
        /\ tree' = [tree EXCEPT ![v].files = "empty", ![v].marker = FALSE]
  /\ UNCHANGED <<builder, builds, shell>>

\* The directory itself, by its name: gone before, or with another tree in it, is an error.
Emptied(b, v) ==
  builder[b].on # 0 /\ (tree[v].files \in {"empty", "none"} \/ tree[v].build # builder[b].on)
RemovesDirectory(v) ==
  tree' = IF tree[v].files = "empty" THEN [tree EXCEPT ![v].files = "none"] ELSE tree

Opens(b, v) == builder' = [builder EXCEPT ![b].on = tree[v].build]

\* The incomplete tree of the own version.
Clear(b) ==
  LET v == builder[b].version IN
  /\ At(b, "clearing")
  /\ \/ Removes(b, v)
     \/ /\ builder[b].on = 0 /\ There(tree[v]) /\ Opens(b, v)
        /\ UNCHANGED <<tree, builds, cut, shell>>
     \/ /\ builder[b].on = 0 /\ ~There(tree[v]) /\ Goes(b, "failed")
        /\ UNCHANGED <<tree, builds, cut, shell>>
     \/ /\ Emptied(b, v) /\ RemovesDirectory(v)
        /\ builder' = [builder EXCEPT ![b].on = 0,
                         ![b].at = IF tree[v].files = "empty" THEN "cleared" ELSE "failed"]
        /\ UNCHANGED <<builds, cut, shell>>
     \/ Errs(b) /\ UNCHANGED <<tree, builds, cut, shell>>

-----------------------------------------------------------------------------
(* gc_stale_versions.                                                      *)

Others(b) == {v \in VERSIONS \ {builder[b].version} : There(tree[v])}
CompleteOthers(b) == {v \in Others(b) : tree[v].marker}

\* The most recent of them; what removes files makes a directory recent.
Newest(v, trees) ==
  \A u \in trees : u = v \/ tree[u].build < tree[v].build \/ tree[v].build \in cut

\* (mutation) only the current version is kept
SweepEverything(b) ==
  /\ At(b, "sweeping")
  /\ builder' = [builder EXCEPT ![b].at = "removing", ![b].victims = Others(b)]
  /\ UNCHANGED <<tree, builds, cut, shell>>

\* Incomplete trees go, and the complete ones but the most recent; or the listing fails.
Sweep(b) ==
  /\ At(b, "sweeping")
  /\ \/ \E kept \in SUBSET CompleteOthers(b) :
          /\ Cardinality(kept) = (IF CompleteOthers(b) = {} THEN 0 ELSE 1)
          /\ \A v \in kept : Newest(v, CompleteOthers(b))
          /\ builder' = [builder EXCEPT ![b].at = "removing", ![b].victims = Others(b) \ kept]
     \/ Goes(b, "ready")
  /\ UNCHANGED <<tree, builds, cut, shell>>

\* One after the other; what fails is left.
Remove(b) ==
  /\ At(b, "removing")
  /\ \/ \E v \in builder[b].victims :
          \/ builder[b].on = tree[v].build /\ Removes(b, v)
          \/ /\ builder[b].on = 0 /\ There(tree[v]) /\ Opens(b, v)
             /\ UNCHANGED <<tree, builds, cut, shell>>
          \/ /\ Emptied(b, v) /\ RemovesDirectory(v)
             /\ builder' = [builder EXCEPT ![b].on = 0, ![b].victims = @ \ {v}]
             /\ UNCHANGED <<builds, cut, shell>>
          \/ /\ builder' = [builder EXCEPT ![b].on = 0, ![b].victims = @ \ {v}]
             /\ UNCHANGED <<tree, builds, cut, shell>>
     \/ /\ builder[b].victims = {} /\ Goes(b, "ready")
        /\ UNCHANGED <<tree, builds, cut, shell>>

-----------------------------------------------------------------------------
(* The shell is started, with the layer or bare, and reads its files.      *)

Start(b) ==
  /\ At(b, "ready") \/ At(b, "failed")
  /\ shell' = [shell EXCEPT ![b] = IF At(b, "failed") THEN "bare"
                                   ELSE IF Own(b).files = "all" THEN "whole" ELSE "torn"]
  /\ builder' = [builder EXCEPT ![b].at = "done", ![b].victims = {}, ![b].on = 0]
  /\ UNCHANGED <<tree, builds, cut>>

\* The program dies; what it did to the disk stays.
Dies(b) ==
  /\ builder[b].at \notin {"idle", "done"}
  /\ builder' = [builder EXCEPT ![b].at = "done", ![b].victims = {}, ![b].on = 0]
  /\ UNCHANGED <<tree, builds, cut, shell>>

Next ==
  \E b \in BUILDERS :
    \/ \E v \in VERSIONS : Lookup(b, v)
    \/ Stage(b) \/ Rename(b) \/ Blocked(b) \/ Clear(b) \/ Install(b)
    \/ Sweep(b) \/ Remove(b) \/ Start(b) \/ Dies(b)

Spec == Init /\ [][Next]_vars

-----------------------------------------------------------------------------
(* Properties.                                                             *)

Present == {v \in VERSIONS : tree[v].build # 0 \/ \E b \in BUILDERS : builder[b].version = v}
CutTrees == {v \in VERSIONS : tree[v].build \in cut}

(* A tree is whole when its marker is there, unless somebody has begun to  *)
(* remove it ("its presence under the version dir proves the whole tree    *)
(* arrived").                                                              *)
MarkerMeansWhole ==
  \A v \in VERSIONS : tree[v].marker /\ v \notin CutTrees => tree[v].files = "all"

(* With one version and its successor running side by side no tree is ever *)
(* removed, neither by a sweep nor by a call of its own version that finds *)
(* it in the way: every shell is started on a whole tree, and bare only    *)
(* after an error of the file system, whatever calls overlap and wherever  *)
(* one dies ("concurrent_materializers_coexist_and_converge"; "a           *)
(* long-lived session may still be pointing at it").                       *)
TreesKept ==
  Cardinality(Present) <= 2 =>
    /\ cut = {}
    /\ \A b \in BUILDERS : /\ shell[b] # "torn"
                           /\ shell[b] = "bare" => builder[b].io

=============================================================================
