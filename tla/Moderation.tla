----------------------------- MODULE Moderation -----------------------------
(***************************************************************************)
(* The owner's moderation of the replies that Inbound stores.  Loading the *)
(* queue classifies replies nobody has looked at, saving the settings      *)
(* classifies the newest again and then loads the queue, and the owner     *)
(* decides on single replies.  A request takes its list of replies first   *)
(* and goes through it one by one: for each it reads the policy, may ask a *)
(* model, which only adds flags, and writes the status.  The steps of      *)
(* Inbound go on meanwhile.                                                *)
(*                                                                         *)
(* Lists are cut after 120 rows, the newest by the dates their authors     *)
(* gave.  Replies of other authors count too and are not modelled, so that *)
(* any part of the replies here may be what is left.                       *)
(*                                                                         *)
(* A policy is abstracted to the status it gives to a reply whose text     *)
(* raises a flag: "off" and "warn" approve it.                             *)
(***************************************************************************)
EXTENDS Inbound

CONSTANTS
  Policy,     \* policies the owner may choose
  Job,        \* moderation requests that can be in progress at once
  MaxSaves    \* bound: the owner's decisions and saves of the settings

ASSUME ModerationAssumption ==
  /\ Policy \subseteq Status /\ "approved" \in Policy
  /\ MaxSaves \in Nat

VARIABLES
  flagged,    \* notes whose text raises a flag
  policy,     \* moderation_settings.reply_policy
  job,        \* what each request is at
  saver,      \* requests that saved the settings and are to load the queue
  list,       \* replies it has still to classify
  read,       \* the policy it has read for the one it is at
  \* History, read by no code.
  word,       \* the owner's last decision on a reply, if it should stand
  missed,     \* replies a change of policy may have missed
  saves

modvars == <<flagged, policy, job, saver, list, read, word, missed, saves>>

-----------------------------------------------------------------------------

ModTypeOK ==
  /\ TypeOK
  /\ flagged \subseteq Note /\ policy \in Policy
  /\ job \in [Job -> {"idle", "refresh", "settings", "read", "write"}]
  /\ saver \subseteq Job /\ list \in [Job -> SUBSET Note]
  /\ read \in [Job -> Policy]
  /\ word \in [Note -> {"none"} \cup Status]
  /\ missed \subseteq Note /\ saves \in Nat
  /\ \A j \in Job : job[j] \in {"idle", "refresh", "settings"} => list[j] = {}

ModInit ==
  /\ Init
  /\ flagged \in SUBSET Note /\ policy = "approved"
  /\ job = [j \in Job |-> "idle"] /\ saver = {} /\ list = [j \in Job |-> {}]
  /\ read = [j \in Job |-> "approved"]
  /\ word = [n \in Note |-> "none"] /\ missed = {} /\ saves = 0

\* classify_reply_content.
Classify(n, p) == IF n \in flagged THEN p ELSE "approved"

Stored == {n \in Note : replies[n] # "none"}
InHand(n) == \E j \in Job : n \in list[j]
LoadingBy(j) == job[j] \in {"refresh", "settings"}

\* A request that has the reply on its list, or that may list it whether it was
\* decided or not, writes over what the owner decides now.
Overwritten(n) == InHand(n) \/ \E j \in Job : job[j] = "settings"

-----------------------------------------------------------------------------

\* A step of Inbound.  What was decided goes with a row that goes.
InboundStep ==
  /\ Next
  /\ word' = [n \in Note |-> IF replies'[n] = "none" THEN "none" ELSE word[n]]
  /\ missed' = missed \cup {n \in Note : replies[n] = "none" /\ replies'[n] # "none"}
  /\ UNCHANGED <<flagged, policy, job, saver, list, read, saves>>

\* Mutant of Decide: the decision does not count as a check.
DecideUnmarked(n, status) ==
  /\ saves < MaxSaves /\ n \in Stored
  /\ replies' = [replies EXCEPT ![n] = status]
  /\ word' = [word EXCEPT ![n] = IF Overwritten(n) THEN "none" ELSE status]
  /\ missed' = IF Overwritten(n) THEN missed \cup {n} ELSE missed
  /\ saves' = saves + 1
  /\ UNCHANGED <<inbox, kind, timeline, checked, marks, notices, requests, world,
                 history, flagged, policy, job, saver, list, read>>

\* owner_set_reply_moderation_status.
Decide(n, status) ==
  /\ saves < MaxSaves /\ n \in Stored
  /\ replies' = [replies EXCEPT ![n] = status]
  /\ checked' = checked \cup {n}
  /\ word' = [word EXCEPT ![n] = IF Overwritten(n) THEN "none" ELSE status]
  /\ missed' = IF Overwritten(n) THEN missed \cup {n} ELSE missed
  /\ saves' = saves + 1
  /\ UNCHANGED <<inbox, kind, timeline, marks, notices, requests, world, history,
                 flagged, policy, job, saver, list, read>>

\* owner_moderation_replies.
Refresh(j) ==
  /\ job[j] = "idle"
  /\ job' = [job EXCEPT ![j] = "refresh"]
  /\ UNCHANGED <<vars, flagged, policy, saver, list, read, word, missed, saves>>

\* owner_update_moderation_settings: the upsert.  A reply in hand elsewhere may be
\* given the old policy afterwards.
SaveSettings(j, p) ==
  /\ job[j] = "idle" /\ saves < MaxSaves
  /\ policy' = p
  /\ job' = [job EXCEPT ![j] = "settings"]
  /\ saver' = saver \cup {j}
  /\ missed' = missed \cup {n \in Note : InHand(n)}
  /\ saves' = saves + 1
  /\ UNCHANGED <<vars, flagged, list, read, word>>

\* What a request does when its list is done: saving the settings ends with
\* loading the queue, whose list is another one.
Ends(j) ==
  /\ job' = [job EXCEPT ![j] = IF j \in saver THEN "refresh" ELSE "idle"]
  /\ saver' = saver \ {j}
GoesOn(j, next) == job' = [job EXCEPT ![j] = next] /\ UNCHANGED saver

\* Decisions do not survive a save of the settings that lists their replies, and
\* what it does not list keeps its status.
Listed(j, some) ==
  IF job[j] = "settings"
  THEN /\ word' = [n \in Note |-> IF n \in some THEN "none" ELSE word[n]]
       /\ missed' = missed \cup (Stored \ some)
  ELSE UNCHANGED <<word, missed>>

\* Mutant of TakeList: saved settings reach unchecked replies only.
TakeUnchecked(j, some) ==
  /\ LoadingBy(j)
  /\ some = Stored \ checked
  /\ list' = [list EXCEPT ![j] = some]
  /\ IF some = {} THEN Ends(j) ELSE GoesOn(j, "read")
  /\ IF job[j] = "settings"
     THEN /\ word' = [n \in Note |-> "none"] /\ UNCHANGED missed
     ELSE UNCHANGED <<word, missed>>
  /\ UNCHANGED <<vars, flagged, policy, read, saves>>

\* owner_reclassify_recent_replies, owner_refresh_reply_moderation: the SELECT,
\* of which LIMIT leaves `some`.
TakeList(j, some) ==
  /\ LoadingBy(j)
  /\ some \subseteq IF job[j] = "settings" THEN Stored ELSE Stored \ checked
  /\ list' = [list EXCEPT ![j] = some]
  /\ IF some = {} THEN Ends(j) ELSE GoesOn(j, "read")
  /\ Listed(j, some)
  /\ UNCHANGED <<vars, flagged, policy, read, saves>>

\* classify_reply_in_db reads the settings for every reply anew ...
ReadPolicy(j) ==
  /\ job[j] = "read"
  /\ read' = [read EXCEPT ![j] = policy]
  /\ GoesOn(j, "write")
  /\ UNCHANGED <<vars, flagged, policy, list, word, missed, saves>>

\* ... and writes the status, if the row is still there.
Write(j, n) ==
  /\ job[j] = "write" /\ n \in list[j]
  /\ list' = [list EXCEPT ![j] = @ \ {n}]
  /\ IF list[j] = {n} THEN Ends(j) ELSE GoesOn(j, "read")
  /\ IF n \in Stored
     THEN /\ replies' = [replies EXCEPT ![n] = Classify(n, read[j])]
          /\ checked' = checked \cup {n}
     ELSE UNCHANGED <<replies, checked>>
  /\ missed' = IF read[j] = policy /\ \A k \in Job \ {j} : n \notin list[k]
               THEN missed \ {n} ELSE missed
  /\ UNCHANGED <<inbox, kind, timeline, marks, notices, requests, world, history,
                 flagged, policy, read, word, saves>>

\* A statement or the model fails, or the runtime ends the request.
JobFails(j) ==
  /\ job[j] # "idle"
  /\ missed' = IF job[j] = "settings" THEN Note ELSE missed \cup list[j]
  /\ job' = [job EXCEPT ![j] = "idle"] /\ saver' = saver \ {j}
  /\ list' = [list EXCEPT ![j] = {}]
  /\ UNCHANGED <<vars, flagged, policy, read, word, saves>>

ModNext ==
  \/ InboundStep
  \/ \E n \in Note, status \in Policy : Decide(n, status)
  \/ \E j \in Job :
       \/ Refresh(j) \/ ReadPolicy(j) \/ JobFails(j)
       \/ \E some \in SUBSET Note : TakeList(j, some)
       \/ \E p \in Policy : SaveSettings(j, p)
       \/ \E n \in Note : Write(j, n)

ModSpec == ModInit /\ [][ModNext]_<<vars, modvars>>

-----------------------------------------------------------------------------
(* Properties.                                                             *)

\* The owner's decision on a reply stands until a save of the settings takes the
\* reply up, unless a request had it in hand or was about to: copies that arrive
\* again leave it alone, and loading the queue passes over what was decided.
DecisionStands ==
  \A n \in Note : word[n] # "none" => replies[n] = word[n]

\* Saved settings are in force for every reply the save took up, which are the
\* newest 120 (LIMIT, moderation.rs:230 and 242-247), but for those the owner
\* decided on since, and those a failed or overlapping request leaves behind.
\* `missed` has the others: older ones, and those stored since and not classified.
PolicyIsInForce ==
  \A n \in Stored \ missed :
    word[n] = "none" /\ ~InHand(n) /\ ~(\E j \in Job : job[j] = "settings")
      => replies[n] = Classify(n, policy)

=============================================================================
