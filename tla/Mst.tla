--------------------------------- MODULE Mst ---------------------------------
(***************************************************************************)
(* The Merkle search tree of a repository: how repo.rs builds it from the  *)
(* sorted records, and how mst.rs looks a key up in the blocks of a CAR    *)
(* file, of which some may be missing.                                     *)
(*                                                                         *)
(* A key is a sequence of numbers, its bytes.  Blocks are named by their   *)
(* contents, so a link is the set of the node it leads to, {} if it is     *)
(* null, and a CAR file is a set of nodes.  The depth of a key, which the  *)
(* code counts in its hash, is any function.                               *)
(***************************************************************************)
EXTENDS Naturals, Sequences, FiniteSetsExt

\* Bytewise order.
Before(a, b) ==
  \E i \in 1 .. Len(b) :
    /\ i <= Len(a) + 1 /\ SubSeq(a, 1, i - 1) = SubSeq(b, 1, i - 1)
    /\ i <= Len(a) => a[i] < b[i]

\* common_prefix_len.
CommonPrefix(a, b) ==
  Max({n \in 0 .. Min({Len(a), Len(b)}) : SubSeq(a, 1, n) = SubSeq(b, 1, n)})

\* The elements of a set in order.
Sorted(S, before(_, _)) ==
  [i \in 1 .. Cardinality(S) |->
    CHOOSE x \in S : Cardinality({y \in S : before(y, x)}) = i - 1]

-----------------------------------------------------------------------------

\* Mutant of Entry: the last key's length is taken for the common prefix.
EntryCut(records, at, i, child) ==
  LET key == records[at[i]].key
      n == IF i = 1 THEN 0 ELSE Min({Len(records[at[i - 1]].key), Len(key)})
  IN [prefix |-> n, suffix |-> SubSeq(key, n + 1, Len(key)),
      value |-> records[at[i]].value, right |-> child]

\* An entry of a node: what the key adds to the one before, its value, and the
\* node of the keys after it.
Entry(records, at, i, child) ==
  LET key == records[at[i]].key
      n == IF i = 1 THEN 0 ELSE CommonPrefix(records[at[i - 1]].key, key)
  IN [prefix |-> n, suffix |-> SubSeq(key, n + 1, Len(key)),
      value |-> records[at[i]].value, right |-> child]

\* mst_subtree and mst_node_block: the node of the records lo to hi at a level
\* has those of that depth as entries, and a node for each gap between them.
\* (The code counts levels upwards from the root.)
Subtree(records, depth, top) ==
  LET node[lo \in 1 .. Len(records) + 1, hi \in 0 .. Len(records), level \in 0 .. top + 1] ==
        LET at == Sorted({i \in lo .. hi : depth[records[i].key] = level}, <)
            from(i) == IF i = 0 THEN lo ELSE at[i] + 1
            to(i) == IF i = Len(at) THEN hi ELSE at[i + 1] - 1
            child(i) == IF from(i) > to(i) THEN {}
                        ELSE {node[from(i), to(i), level + 1]}
        IN [left |-> child(0),
            entries |-> [i \in 1 .. Len(at) |-> Entry(records, at, i, child(i))]]
  IN node

\* repo_snapshot_from_records: the records are sorted by their paths (the sort
\* is stable), and the least depth among them is the root's level.
Root(records, depth) ==
  LET order == Sorted(1 .. Len(records), LAMBDA a, b :
        \/ Before(records[a].key, records[b].key)
        \/ records[a].key = records[b].key /\ a < b)
      sorted == [i \in 1 .. Len(records) |-> records[order[i]]]
      depths == {depth[records[i].key] : i \in 1 .. Len(records)}
  IN IF records = <<>> THEN [left |-> {}, entries |-> <<>>]
     ELSE Subtree(sorted, depth, Max(depths))[1, Len(records), Min(depths)]

RECURSIVE Nodes(_)
Nodes(node) ==
  {node} \cup UNION {Nodes(n) : n \in
    node.left \cup UNION {node.entries[i].right : i \in 1 .. Len(node.entries)}}

-----------------------------------------------------------------------------

\* apply_prefix along the entries of a node.
FullKey(entries, i) ==
  LET key[j \in 0 .. i] ==
        IF j = 0 THEN <<>>
        ELSE SubSeq(key[j - 1], 1, entries[j].prefix) \o entries[j].suffix
  IN key[i]

RECURSIVE MstGet(_, _, _)
\* mst_get: the first entry that is not before the key ends the search, and the
\* gap before it is searched next.  "missing" is the error for a node that is
\* not in the CAR file.
MstGet(car, node, key) ==
  IF node \notin car THEN <<"missing">>
  ELSE LET full == [i \in 1 .. Len(node.entries) |-> FullKey(node.entries, i)]
           ahead == {i \in 1 .. Len(full) : ~Before(full[i], key)}
           stop == IF ahead = {} THEN Len(full) + 1 ELSE Min(ahead)
           gap == IF stop = 1 THEN node.left ELSE node.entries[stop - 1].right
       IN IF ahead # {} /\ full[stop] = key THEN <<"found", node.entries[stop].value>>
          ELSE IF gap = {} THEN <<"none">>
          ELSE MstGet(car, CHOOSE child \in gap : TRUE, key)

=============================================================================
