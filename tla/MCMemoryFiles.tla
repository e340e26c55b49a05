---------------------------- MODULE MCMemoryFiles ----------------------------
(***************************************************************************)
(* Small instances of MemoryFiles.  The requests cover every operation,    *)
(* the ends of the index ranges, a list of two operations and a content    *)
(* that contains the delimiter.  Snapshot ids are interchangeable.         *)
(***************************************************************************)
EXTENDS MemoryFiles, TLC

CONSTANTS a, b, x

Add(c) == [type |-> "add", content |-> c]
Reorder(m, n) == [type |-> "reorder", from |-> m, to |-> n]

MCRequest ==
    { <<Add(<<>>)>>, <<Add(<<a>>)>>, <<Add(<<b, a>>)>>,
      <<[type |-> "replace", index |-> 1, content |-> <<a>>]>>,
      <<[type |-> "remove", index |-> 0]>>,
      <<Reorder(0, 1)>>, <<Reorder(0, 2)>>, <<Reorder(1, 0)>>,
      <<[type |-> "remove", index |-> 0], Add(<<x>>)>>,
      <<[type |-> "remove", index |-> 0], Add(<<a>>)>> }

SnapshotSymmetry == Permutations(SnapshotId)

=============================================================================
