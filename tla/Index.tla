-------------------------------- MODULE Index --------------------------------
(***************************************************************************)
(* What the firehose consumer promises of the index, however it gets at    *)
(* the repositories: a record is shown as some change left it that was     *)
(* made to it, later changes replace earlier ones and never the reverse,   *)
(* and what the consumer has covered is shown and stays so.  The promise   *)
(* ends when it is broken off: the index shows changes that were made, in  *)
(* any order, and covers nothing.                                          *)
(*                                                                         *)
(* Firehose implements this module (Firehose.tla, Promise).                *)
(***************************************************************************)
EXTENDS Naturals, Sequences

CONSTANTS
  Record,   \* records of the repositories
  Edge      \* those of which the index has only that they are there

VARIABLES
  log, deleted,  \* the changes made, and which of them are deletions
  shown,         \* per record, the change the index shows
  covered,       \* the changes that need not be looked at again
  promised       \* the promise stands

vars == <<log, deleted, shown, covered, promised>>

There(i) == i # 0 /\ i \notin deleted

\* The index shows r as change i or a later one left it.
Reflects(r, i) ==
  \E j \in i..Len(log) :
    /\ log[j] = r
    /\ shown[r] = j \/ (r \in Edge /\ There(shown[r]) /\ There(j))

Init ==
  /\ log = <<>> /\ deleted = {} /\ shown = [r \in Record |-> 0]
  /\ covered = {} /\ promised = TRUE

Change(r) ==
  /\ log' = Append(log, r)
  /\ deleted' \in {deleted, deleted \cup {Len(log) + 1}}
  /\ UNCHANGED <<shown, covered, promised>>

Show(r, i) ==
  /\ i \in 1..Len(log) /\ log[i] = r
  /\ promised => /\ shown[r] <= i
                 /\ \A j \in covered : log[j] = r => j <= i
  /\ shown' = [shown EXCEPT ![r] = i]
  /\ UNCHANGED <<log, deleted, covered, promised>>

\* What is covered may be given up, and looked at again.
Cover ==
  /\ promised
  /\ covered' \subseteq 1..Len(log)
  /\ \A i \in covered' \ covered : Reflects(log[i], i)
  /\ UNCHANGED <<log, deleted, shown, promised>>

BreakOff ==
  /\ promised' = FALSE /\ covered' = {}
  /\ UNCHANGED <<log, deleted, shown>>

Next ==
  \/ \E r \in Record : Change(r) \/ \E i \in 1..Len(log) : Show(r, i)
  \/ Cover \/ BreakOff

Spec == Init /\ [][Next]_vars

=============================================================================
