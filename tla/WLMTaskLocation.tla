--------------------------- MODULE WLMTaskLocation ---------------------------
(***************************************************************************)
(* ResolveWLMTaskLocationPass::safeRunOnFunc (VPUMI40XX/passes/           *)
(* resolve_WLM_task_locations.cpp).  For every tile and task type the pass *)
(* declares 2 * groupSize task buffers and walks the chain of execution    *)
(* groups of that list, giving the k-th task of the type in a group the    *)
(* buffer groupCtr + k; groupCtr alternates between the two halves, so a   *)
(* group's descriptors can be fetched while the previous group runs.       *)
(*                                                                         *)
(* A group's ops are read once, when the loop reaches it, so they are      *)
(* chosen then; a group's op is a task type, and the ops of other types    *)
(* that the loop skips are kept.                                           *)
(***************************************************************************)
EXTENDS Integers, Sequences, SequencesExt

CONSTANTS
  TaskTypeOrder, \* the four solveGroupOps calls per tile, in order (lines 86-89)
  TilesCount,    \* IE::getTileExecutor(...).getCount()
  GroupSize,     \* the sizes map: task type -> half the runtime's descriptor count
  MaxGroups,     \* bound on the length of a list's chain of execution groups
  MaxOps,        \* bound on the number of task ops in one group
  None

ASSUME \A t \in Range(TaskTypeOrder) : GroupSize[t] \in Nat \ {0}

VARIABLES
  pending,   \* <<taskType, tileIdx>> pairs the outer loop has still to visit
  list,      \* the pair whose groups are being walked, or None
  groupIdx,  \* how many groups of the current list have been walked
  groupCtr,  \* first buffer of the current group's half
  loc        \* setTaskLocation calls of the current list

vars == <<pending, list, groupIdx, groupCtr, loc>>

TaskTypes == Range(TaskTypeOrder)

(* Lines 85-90: tiles outermost, the four task types within each tile.    *)
OuterLoop ==
  FlattenSeq([i \in 1 .. TilesCount |-> [j \in DOMAIN TaskTypeOrder |-> <<TaskTypeOrder[j], i - 1>>]])

(* Mutants of lines 76 and 80: taskCtr counted from 1, the ring index   *)
(* without its modulo, and the modulo taken by one half.                   *)
TaskSlotOffByOne(ctr, k) == ctr + k - 2
NextGroupCtrNoWrap(ctr, size) == ctr + size
NextGroupCtrSameHalf(ctr, size) == (ctr + size) % size

(* Line 76: the task with taskCtr = k - 1 gets taskBuffers[groupCtr + k - 1]. *)
TaskSlot(ctr, k) == ctr + k - 1

(* Line 80.                                                                *)
NextGroupCtr(ctr, size) == (ctr + size) % (size * 2)

(* The ops of a group, in order; the grouping pass puts at most groupSize *)
(* tasks of a type in one group.                                           *)
GroupOps(type) ==
  {ops \in BoundedSeq(TaskTypes, MaxOps) :
     Len(SelectSeq(ops, LAMBDA o : o = type)) <= GroupSize[type]}

Init ==
  /\ pending = OuterLoop
  /\ list = None
  /\ groupIdx = 0
  /\ groupCtr = 0
  /\ loc = {}

(* Lines 58-60: mpi.getListHead returned null; nothing to do for the pair. *)
SkipEmptyList ==
  /\ list = None /\ pending # <<>>
  /\ pending' = Tail(pending)
  /\ UNCHANGED <<list, groupIdx, groupCtr, loc>>

(* Lines 62-69: the list has a first group; its 2 * groupSize buffers are *)
(* declared (populate, lines 43-52) and groupCtr starts at 0.              *)
StartList ==
  /\ list = None /\ pending # <<>>
  /\ list' = Head(pending)
  /\ pending' = Tail(pending)
  /\ groupIdx' = 0
  /\ groupCtr' = 0
  /\ loc' = {}

(* Lines 71-81, one iteration of the while loop: the tasks of the list's   *)
(* type in this group, skipping the others (line 74), get consecutive      *)
(* buffers from groupCtr; taskCtr restarts at 0 for every group.           *)
SolveGroup ==
  /\ list # None /\ groupIdx < MaxGroups
  /\ \E ops \in GroupOps(list[1]) :
       LET mine == SelectSeq(ops, LAMBDA o : o = list[1])
       IN loc' = loc \cup {[group |-> groupIdx, task |-> k, slot |-> TaskSlot(groupCtr, k)] :
                             k \in 1 .. Len(mine)}
  /\ groupCtr' = NextGroupCtr(groupCtr, GroupSize[list[1]])
  /\ groupIdx' = groupIdx + 1
  /\ UNCHANGED <<pending, list>>

(* Line 81: getNextGroup returned null after at least the first group.     *)
EndList ==
  /\ list # None /\ groupIdx > 0
  /\ list' = None
  /\ UNCHANGED <<pending, groupIdx, groupCtr, loc>>

Next == SkipEmptyList \/ StartList \/ SolveGroup \/ EndList

Spec == Init /\ [][Next]_vars

(***************************************************************************)
(* Properties.                                                             *)
(***************************************************************************)
TypeOK ==
  /\ pending \in Seq(TaskTypes \X (0 .. TilesCount - 1))
  /\ list \in (TaskTypes \X (0 .. TilesCount - 1)) \cup {None}
  /\ groupIdx \in 0 .. MaxGroups
  /\ groupCtr \in Nat
  /\ loc \subseteq [group: 0 .. MaxGroups - 1, task: 1 .. MaxOps, slot: Nat]

(* Every task location the pass sets indexes one of the 2 * groupSize task *)
(* buffers it declared for the list (line 76 indexes a std::vector).       *)
SlotsInBounds ==
  list # None => \A a \in loc : a.slot < 2 * GroupSize[list[1]]

(* Double buffering: two tasks of one group, or of two consecutive groups  *)
(* of a list, never share a task buffer, so the runtime can load a group's *)
(* descriptors while the group before it still runs.                       *)
AdjacentGroupsDisjoint ==
  \A a, b \in loc :
    /\ a # b
    /\ b.group \in {a.group, a.group + 1}
    => a.slot # b.slot

=============================================================================
