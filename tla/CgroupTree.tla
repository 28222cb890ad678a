----------------------------- MODULE CgroupTree -----------------------------
(***************************************************************************)
(* src/sandbox.mjs: findDelegatedRoot(), ensureParentSlice() and            *)
(* configureCgroup(), for one process, over the branch of the cgroup tree  *)
(* from the root of the file system (0) down to the process's own cgroup.  *)
(*                                                                         *)
(* The kernel, external: a cgroup offers its children the controllers in    *)
(* its subtree_control; it enables all of a list or none, none that it does *)
(* not have itself, and none while processes live in it, unless it is the  *)
(* root.                                                                   *)
(***************************************************************************)
EXTENDS Naturals

CONSTANT MaxDepth

ASSUME DepthAssumption == MaxDepth \in Nat

NEEDED_CONTROLLERS == {"cpu", "memory", "pids"}

VARIABLES
    kernel,     \* the controllers of the root
    own,        \* the depth of the process's own cgroup
    subtree,    \* cgroup.subtree_control of each cgroup of the branch
    occupied,   \* the cgroups of the branch that hold processes
    writable,   \* those the process may write to
    root,       \* CG_ROOT
    slice,      \* cgroup.subtree_control of CG_PARENT
    place       \* how far the set-up of a run has come

treeVars == <<kernel, own, subtree, occupied, writable, root, slice, place>>

Dirs == 0..MaxDepth

Available(dir) == IF dir = 0 THEN kernel ELSE subtree[dir - 1]

alreadyEnabled(dir) == NEEDED_CONTROLLERS \subseteq subtree[dir]

canHostDelegation(dir) ==
    /\ NEEDED_CONTROLLERS \subseteq Available(dir)
    /\ alreadyEnabled(dir) \/ dir \notin occupied

\* The nearest ancestor that can host, or the process's own cgroup; the root
\* itself is not tried.
findDelegatedRoot ==
    LET hosts == {d \in 1..own : canHostDelegation(d)}
    IN  IF hosts = {} THEN own ELSE CHOOSE d \in hosts : \A e \in hosts : e <= d

TreeInit ==
    /\ kernel \in SUBSET NEEDED_CONTROLLERS
    /\ own \in Dirs
    /\ subtree \in [Dirs -> SUBSET NEEDED_CONTROLLERS]
    /\ \A d \in Dirs : subtree[d] \subseteq Available(d)
    /\ occupied \in SUBSET Dirs
    /\ own \in occupied
    /\ \A d \in occupied \ {0} : subtree[d] = {}
    /\ writable \in {n..MaxDepth : n \in 0..(MaxDepth + 1)}
    /\ root = findDelegatedRoot
    /\ slice \in SUBSET subtree[root]
    /\ place = "called"

(***************************************************************************)
(* Other processes, which come and go after CG_ROOT has been found.        *)
(***************************************************************************)
Enters(d) ==
    /\ d \notin occupied
    /\ d = 0 \/ subtree[d] = {}
    /\ occupied' = occupied \cup {d}
    /\ UNCHANGED <<kernel, own, subtree, writable, root, slice, place>>

Leaves(d) ==
    /\ d \in occupied \ {own}
    /\ occupied' = occupied \ {d}
    /\ UNCHANGED <<kernel, own, subtree, writable, root, slice, place>>

(***************************************************************************)
(* ensureParentSlice()                                                     *)
(***************************************************************************)
Advance(from, to) == place = from /\ place' = to

\* The slice may be there from an earlier run.
MakeSlice ==
    /\ \/ Advance("called", "slice_made")
       \/ root \notin writable /\ Advance("called", "thrown")
    /\ UNCHANGED <<kernel, own, subtree, occupied, writable, root, slice>>

\* enableControllers(CG_ROOT).  EBUSY and its like are passed over.
EnableRoot ==
    /\ Advance("slice_made", "root_enabled")
    /\ subtree' = IF root \in writable /\ (root = 0 \/ root \notin occupied)
                  THEN [subtree EXCEPT ![root] = @ \cup
                           (NEEDED_CONTROLLERS \cap Available(root))]
                  ELSE subtree
    /\ UNCHANGED <<kernel, own, occupied, writable, root, slice>>

\* enableControllers(CG_PARENT), in which no process lives.
EnableSlice ==
    /\ Advance("root_enabled", "prepared")
    /\ slice' = slice \cup subtree[root]
    /\ UNCHANGED <<kernel, own, subtree, occupied, writable, root>>

\* A write that is refused for another reason ends the run.
EnableFails ==
    /\ Advance("slice_made", "thrown") \/ Advance("root_enabled", "thrown")
    /\ UNCHANGED <<kernel, own, subtree, occupied, writable, root, slice>>

\* Mutant: a control file that cannot be written is passed over.
ConfigureAnyway == Advance("prepared", "configured")

\* configureCgroup(): there is no memory.max, or pids.max, where the controller
\* is not enabled, and its write throws.
configureCgroup ==
    \/ {"memory", "pids"} \subseteq slice /\ Advance("prepared", "configured")
    \/ Advance("prepared", "thrown")

TreeNext ==
    \/ \E d \in Dirs : Enters(d) \/ Leaves(d)
    \/ MakeSlice \/ EnableRoot \/ EnableSlice \/ EnableFails
=============================================================================
