------------------------------ MODULE RepoTree ------------------------------
(***************************************************************************)
(* The tree of a snapshot: what Repo has read, in the tree of Mst, looked  *)
(* up again as the consumers of the repository do.                         *)
(***************************************************************************)
EXTENDS Repo, Mst

CONSTANT MaxDepth   \* bound: how deep a key's hash may put it

ASSUME TreeAssumption == MaxDepth \in Nat

\* The path "collection/key" of a record, as bytes that sort alike.
Path(r) == IF r[1] = "profile" THEN <<1, 1>>
           ELSE <<CASE r[1] = "post" -> 3 [] r[1] = "like" -> 2
                    [] r[1] = "repost" -> 4 [] r[1] = "follow" -> 5, r[2]>>

Contents == [i \in 1 .. Len(got) |-> [key |-> Path(got[i]), value |-> got[i][3]]]
Paths == {Path(got[i]) : i \in 1 .. Len(got)}
Asked == Paths \cup {<<3, k>> : k \in Key}
Values(key) == {got[i][3] : i \in {i \in 1 .. Len(got) : Path(got[i]) = key}}

\* Whatever the hashes of the paths are, a lookup finds each record of the
\* snapshot, one of both if it was read twice, and no other; and if a node
\* of the tree was left out of the CAR file, it finds the same or fails, but never
\* takes a record for absent (mst.rs:402 "fails with a 'not present' error
\* rather than a wrong answer").
LookupsAreRight ==
  Done =>
    \A depth \in [Paths -> 0 .. MaxDepth] :
      LET root == Root(Contents, depth)
          nodes == Nodes(root)
          right(key, answer) ==
            IF Values(key) = {} THEN answer = <<"none">>
            ELSE \E v \in Values(key) : answer = <<"found", v>>
      IN \A key \in Asked :
           /\ right(key, MstGet(nodes, root, key))
           /\ \A gone \in nodes :
                LET answer == MstGet(nodes \ {gone}, root, key)
                IN answer = <<"missing">> \/ right(key, answer)

=============================================================================
