-------------------------------- MODULE E2ee --------------------------------
(***************************************************************************)
(* Encrypted direct messages with one peer: the owner's trust in the       *)
(* peer's devices (`e2ee_peer_devices`), and the rows of the one           *)
(* conversation with it: `e2ee_conversations`, `e2ee_messages`,            *)
(* `e2ee_mls_message_metadata` and `deliveries`.                           *)
(*                                                                         *)
(* Requests overlap, each cut at its awaits: what one read is what it      *)
(* uses when others have written since.  The statements commit one by one, *)
(* so a request that fails or dies leaves what it has done so far.         *)
(***************************************************************************)
CONSTANTS
  Device,     \* devices of the peer
  Material,   \* credential and key package, told apart by their fingerprint
  NoMaterial, \* stands for none
  Own,        \* ids of messages the owner sends
  Theirs,     \* ids of messages the peer sends
  Request     \* requests that can be in progress at once

ASSUME E2eeAssumption ==
  Device # {} /\ Own # {} /\ Own \cap Theirs = {}

Message == Own \cup Theirs

VARIABLES
  trust, material,      \* rows of `e2ee_peer_devices`
  sender,               \* is the owner's device active in `e2ee_devices`?
  conversation,         \* is there a row in `e2ee_conversations`?
  messages, metadata,   \* rows of the conversation, by message id
  deliveries,           \* messages with a row in `deliveries`
  used,                 \* ids given out: they hold the time and a hash
  stage,                \* what a request does next
  device, fresh,        \* the device it is about, the material it brings
  wanted, effect,       \* the trust it asks for, the trust it will write
  message,              \* the message it stores or deletes
  \* History, read by no code.
  vouched,              \* <<device, material>> the owner has ever trusted
  withdrawn,            \* those whose trust the owner has revoked since
  kept,                 \* messages stored that the owner has not deleted
  deleted,              \* messages deleted, and not received again since
  disturbed             \* messages some deletion crossed, or broke off over

devices == <<trust, material>>
rows == <<conversation, messages, metadata, deliveries>>
requests == <<stage, device, fresh, wanted, effect, message>>
word == <<vouched, withdrawn>>
fate == <<kept, deleted, disturbed>>
vars == <<devices, sender, rows, used, requests, word, fate>>

-----------------------------------------------------------------------------

Trust == {"untrusted", "trusted", "revoked"}

Storing == {"peer", "open", "insert", "metadata", "deliver"}
Dropping == {"drop_metadata", "drop_message", "drop_deliveries"}
Stage == {"idle", "read", "write"} \cup Storing \cup Dropping \cup {"remaining", "sweep"}

AnyDevice == CHOOSE d \in Device : TRUE
Materials == Material \cup {NoMaterial}
AnyMessage == CHOOSE k \in Own : TRUE

TypeOK ==
  /\ trust \in [Device -> Trust \cup {"absent"}]
  /\ material \in [Device -> Materials]
  /\ sender \in BOOLEAN
  /\ conversation \in BOOLEAN
  /\ messages \subseteq Message /\ metadata \subseteq Message
  /\ deliveries \subseteq Message /\ used \subseteq Own
  /\ stage \in [Request -> Stage]
  /\ device \in [Request -> Device] /\ fresh \in [Request -> Materials]
  /\ wanted \in [Request -> Trust] /\ effect \in [Request -> Trust]
  /\ message \in [Request -> Message]
  /\ vouched \subseteq Device \X Materials /\ withdrawn \subseteq Device \X Materials
  /\ kept \subseteq Message /\ deleted \subseteq Message /\ disturbed \subseteq Message

Init ==
  /\ trust = [d \in Device |-> "absent"]
  /\ material = [d \in Device |-> NoMaterial]
  /\ sender = FALSE
  /\ conversation = FALSE
  /\ messages = {} /\ metadata = {} /\ deliveries = {} /\ used = {}
  /\ stage = [r \in Request |-> "idle"]
  /\ device = [r \in Request |-> AnyDevice]
  /\ fresh = [r \in Request |-> NoMaterial]
  /\ wanted = [r \in Request |-> "untrusted"]
  /\ effect = [r \in Request |-> "untrusted"]
  /\ message = [r \in Request |-> AnyMessage]
  /\ vouched = {} /\ withdrawn = {}
  /\ kept = {} /\ deleted = {} /\ disturbed = {}

-----------------------------------------------------------------------------

Goto(r, st) == stage' = [stage EXCEPT ![r] = st]

About(r, d, m, want, eff, k) ==
  /\ device' = [device EXCEPT ![r] = d]
  /\ fresh' = [fresh EXCEPT ![r] = m]
  /\ wanted' = [wanted EXCEPT ![r] = want]
  /\ effect' = [effect EXCEPT ![r] = eff]
  /\ message' = [message EXCEPT ![r] = k]

SameSubject == UNCHANGED <<device, fresh, wanted, effect, message>>

Done(r) ==
  /\ Goto(r, "idle")
  /\ About(r, AnyDevice, NoMaterial, "untrusted", "untrusted", AnyMessage)

-----------------------------------------------------------------------------
(* Trust in the peer's devices.                                            *)

\* owner_discover_e2ee_peer_devices has fetched the peer's actor document,
\* which says whatever the peer publishes by now.  Each device it lists goes
\* through owner_upsert_peer_device_with_trust by itself.
Discover(r, d, m) ==
  /\ stage[r] = "idle"
  /\ Goto(r, "read")
  /\ About(r, d, m, "untrusted", "untrusted", AnyMessage)
  /\ UNCHANGED <<devices, sender, rows, used, word, fate>>

\* owner_trust_e2ee_peer_device: the owner vouches for the material a client
\* shows.
OwnerTrusts(r, d, m) ==
  /\ stage[r] = "idle"
  /\ Goto(r, "read")
  /\ About(r, d, m, "trusted", "untrusted", AnyMessage)
  /\ UNCHANGED <<devices, sender, rows, used, word, fate>>

\* Mutant of TrustAfterUpdate: the fingerprints are not compared.
TrustWhateverMaterial(known, state, want, new) ==
  IF want = "untrusted" /\ state = "trusted" THEN "trusted" ELSE want

\* peer_trust_state_after_material_update: what is asked for, except that
\* trusted material stays trusted.
TrustAfterUpdate(known, state, want, new) ==
  IF want = "untrusted" /\ state = "trusted" /\ known = new THEN "trusted" ELSE want

\* owner_upsert_peer_device_with_trust: the SELECT ...
ReadPeer(r) ==
  LET d == device[r] IN
  /\ stage[r] = "read"
  /\ Goto(r, "write")
  /\ effect' = [effect EXCEPT ![r] =
       TrustAfterUpdate(material[d], trust[d], wanted[r], fresh[r])]
  /\ UNCHANGED <<devices, sender, rows, used, device, fresh, wanted, message,
                 word, fate>>

\* ... and the upsert, of whatever row there is by now.
WritePeer(r) ==
  LET d == device[r] pair == <<d, fresh[r]>> IN
  /\ stage[r] = "write"
  /\ trust' = [trust EXCEPT ![d] = effect[r]]
  /\ material' = [material EXCEPT ![d] = fresh[r]]
  /\ \/ /\ wanted[r] = "trusted"
        /\ vouched' = vouched \cup {pair}
        /\ withdrawn' = withdrawn \ {pair}
     \/ /\ wanted[r] # "trusted"
        /\ UNCHANGED word
  /\ Done(r)
  /\ UNCHANGED <<sender, rows, used, fate>>

\* What a discovery is about to write as trusted, because it was when read.
InFlight(d) ==
  {<<d, fresh[r]>> : r \in {q \in Request : /\ stage[q] = "write" /\ device[q] = d
                                            /\ effect[q] = "trusted"}}

\* owner_revoke_e2ee_peer_device: one UPDATE.  Material in flight is not
\* withdrawn: the discovery that carries it writes it back as trusted.
RevokePeer(d) ==
  /\ trust[d] # "absent"
  /\ trust' = [trust EXCEPT ![d] = "revoked"]
  /\ withdrawn' = (withdrawn \cup (vouched \cap ({d} \X Material))) \ InFlight(d)
  /\ UNCHANGED <<material, sender, rows, used, requests, vouched, fate>>

\* owner_upsert_e2ee_device, which makes a revoked device active again, and
\* owner_revoke_e2ee_device: one statement each.
RegisterSender ==
  /\ sender' = TRUE
  /\ UNCHANGED <<devices, rows, used, requests, word, fate>>

RevokeSender ==
  /\ sender
  /\ sender' = FALSE
  /\ UNCHANGED <<devices, rows, used, requests, word, fate>>

-----------------------------------------------------------------------------
(* Storing a message: owner_send_e2ee_message, and what the inbox does     *)
(* with a Create that carries one.                                         *)

Busy(k, stages) == \E q \in Request : stage[q] \in stages /\ message[q] = k

\* owner_send_e2ee_message: the owner's device is active ...
BeginSend(r, k) ==
  /\ stage[r] = "idle"
  /\ sender
  /\ k \in Own \ used
  /\ used' = used \cup {k}
  /\ Goto(r, "peer")
  /\ About(r, AnyDevice, NoMaterial, "untrusted", "untrusted", k)
  /\ UNCHANGED <<devices, sender, rows, word, fate>>

\* Mutant of CheckPeer: only revoked devices are refused.
CheckNotRevoked(r, d) ==
  /\ stage[r] = "peer"
  /\ trust[d] \notin {"absent", "revoked"}
  /\ Goto(r, "open")
  /\ About(r, d, material[d], "untrusted", "untrusted", message[r])
  /\ UNCHANGED <<devices, sender, rows, used, word, fate>>

\* ... and owner_require_trusted_e2ee_peer finds a trusted device of the peer.
CheckPeer(r, d) ==
  /\ stage[r] = "peer"
  /\ trust[d] = "trusted"
  /\ Goto(r, "open")
  /\ About(r, d, material[d], "untrusted", "untrusted", message[r])
  /\ UNCHANGED <<devices, sender, rows, used, word, fate>>

\* activitypub_store_e2ee_direct_message: a Create arrives, once or again.
Receive(r, k) ==
  /\ stage[r] = "idle"
  /\ k \in Theirs
  /\ Goto(r, "open")
  /\ About(r, AnyDevice, NoMaterial, "untrusted", "untrusted", k)
  /\ deleted' = deleted \ {k}
  /\ disturbed' = IF Busy(k, Dropping) THEN disturbed \cup {k} ELSE disturbed
  /\ UNCHANGED <<devices, sender, rows, used, word, kept>>

OpenConversation(r) ==
  /\ stage[r] = "open"
  /\ conversation' = TRUE
  /\ Goto(r, "insert") /\ SameSubject
  /\ UNCHANGED <<devices, sender, messages, metadata, deliveries, used, word, fate>>

\* The foreign key refuses a message without its conversation.  A message
\* stored while a deletion is about to drop the conversation goes with it.
InsertMessage(r) ==
  LET k == message[r] IN
  /\ stage[r] = "insert"
  /\ conversation
  /\ messages' = messages \cup {k}
  /\ kept' = kept \cup {k}
  /\ disturbed' = IF \E q \in Request : stage[q] = "sweep"
                  THEN disturbed \cup {k} ELSE disturbed
  /\ Goto(r, "metadata") /\ SameSubject
  /\ UNCHANGED <<devices, sender, conversation, metadata, deliveries, used, word,
                 deleted>>

\* persist_mls_message_metadata: INSERT OR IGNORE, which does not ignore the
\* foreign key.  The inbox is done then, the owner's request has to deliver.
InsertMetadata(r) ==
  LET k == message[r] IN
  /\ stage[r] = "metadata"
  /\ conversation
  /\ metadata' = metadata \cup {k}
  /\ \/ k \in Own /\ Goto(r, "deliver") /\ SameSubject
     \/ k \in Theirs /\ Done(r)
  /\ UNCHANGED <<devices, sender, conversation, messages, deliveries, used, word,
                 fate>>

\* insert_delivery_rows, which leaves out hosts outside a closed network.
InsertDelivery(r) ==
  /\ stage[r] = "deliver"
  /\ \/ deliveries' = deliveries \cup {message[r]}
     \/ UNCHANGED deliveries
  /\ Done(r)
  /\ UNCHANGED <<devices, sender, conversation, messages, metadata, used, word, fate>>

-----------------------------------------------------------------------------
(* owner_delete_e2ee_message, statement by statement.                      *)

\* The SELECT that finds the message and its conversation ...
BeginDelete(r, k) ==
  /\ stage[r] = "idle"
  /\ k \in messages
  /\ Goto(r, "drop_metadata")
  /\ About(r, AnyDevice, NoMaterial, "untrusted", "untrusted", k)
  /\ kept' = kept \ {k}
  /\ disturbed' = IF Busy(k, Storing) THEN disturbed \cup {k} ELSE disturbed
  /\ UNCHANGED <<devices, sender, rows, used, word, deleted>>

DropMetadata(r) ==
  /\ stage[r] = "drop_metadata"
  /\ metadata' = metadata \ {message[r]}
  /\ Goto(r, "drop_message") /\ SameSubject
  /\ UNCHANGED <<devices, sender, conversation, messages, deliveries, used, word,
                 fate>>

DropMessage(r) ==
  /\ stage[r] = "drop_message"
  /\ messages' = messages \ {message[r]}
  /\ Goto(r, "drop_deliveries") /\ SameSubject
  /\ UNCHANGED <<devices, sender, conversation, metadata, deliveries, used, word,
                 fate>>

\* Mutant of DropDeliveries: the outgoing rows stay.
LeaveDeliveries(r) ==
  /\ stage[r] = "drop_deliveries"
  /\ deleted' = deleted \cup {message[r]}
  /\ Goto(r, "remaining") /\ SameSubject
  /\ UNCHANGED <<devices, sender, rows, used, word, kept, disturbed>>

DropDeliveries(r) ==
  /\ stage[r] = "drop_deliveries"
  /\ deliveries' = deliveries \ {message[r]}
  /\ deleted' = deleted \cup {message[r]}
  /\ Goto(r, "remaining") /\ SameSubject
  /\ UNCHANGED <<devices, sender, conversation, messages, metadata, used, word,
                 kept, disturbed>>

\* Mutant of LookRemaining: the conversation goes with every message.
NeverLook(r) ==
  /\ stage[r] = "remaining"
  /\ Goto(r, "sweep") /\ SameSubject
  /\ UNCHANGED <<devices, sender, rows, used, word, fate>>

\* ... the SELECT of what remains in the conversation ...
LookRemaining(r) ==
  /\ stage[r] = "remaining"
  /\ \/ messages = {} /\ Goto(r, "sweep") /\ SameSubject
     \/ messages # {} /\ Done(r)
  /\ UNCHANGED <<devices, sender, rows, used, word, fate>>

\* ... and the DELETE of the conversation, which takes along what hangs on it.
Sweep(r) ==
  /\ stage[r] = "sweep"
  /\ conversation' = FALSE
  /\ messages' = {} /\ metadata' = {}
  /\ Done(r)
  /\ UNCHANGED <<devices, sender, deliveries, used, word, fate>>

\* A request dies between two statements, is refused, or its next one fails.
Abort(r) ==
  /\ stage[r] # "idle"
  /\ disturbed' = IF stage[r] \in {"drop_message", "drop_deliveries"}
                  THEN disturbed \cup {message[r]} ELSE disturbed
  /\ Done(r)
  /\ UNCHANGED <<devices, sender, rows, used, word, kept, deleted>>

-----------------------------------------------------------------------------

Begin(r) == \/ \E d \in Device, m \in Material : Discover(r, d, m) \/ OwnerTrusts(r, d, m)
            \/ \E k \in Message : BeginSend(r, k) \/ Receive(r, k) \/ BeginDelete(r, k)

Continue(r) == \/ ReadPeer(r) \/ WritePeer(r)
               \/ \E d \in Device : CheckPeer(r, d)
               \/ OpenConversation(r) \/ InsertMessage(r) \/ InsertMetadata(r)
               \/ InsertDelivery(r)
               \/ DropMetadata(r) \/ DropMessage(r) \/ DropDeliveries(r)
               \/ LookRemaining(r) \/ Sweep(r) \/ Abort(r)

Next == \/ \E r \in Request : Begin(r) \/ Continue(r)
        \/ \E d \in Device : RevokePeer(d)
        \/ RegisterSender \/ RevokeSender

Spec == Init /\ [][Next]_vars

-----------------------------------------------------------------------------
(* Properties.                                                             *)

\* A device is trusted only for the very material the owner vouched for, and
\* has not revoked since: whatever the peer publishes, in whatever order
\* discoveries read and write.  The exception is material that a discovery had
\* read as trusted when the owner revoked it, which `withdrawn` leaves out.
TrustIsExplicit ==
  \A d \in Device : trust[d] = "trusted" =>
    <<d, material[d]>> \in vouched \ withdrawn

\* A message that leaves was let through by a device and material of the peer
\* that the owner had vouched for: the row the check read was not made trusted
\* by a discovery.
SentToVouched ==
  \A r \in Request : message[r] \in Own /\ stage[r] \in Storing \ {"peer"} =>
    <<device[r], fresh[r]>> \in vouched

\* A deleted message has no row left in any of the three tables, however its
\* deletion overlaps with the storing and the deletion of others.  (See
\* `disturbed` for messages being stored while they are deleted.)
DeletedIsGone ==
  deleted \ disturbed \subseteq Message \ (messages \cup metadata \cup deliveries)

\* A message the owner has not deleted stays: the deletion of another, which
\* drops the conversation once it looks empty, does not take it.
DeletionTakesNoOther == kept \ disturbed \subseteq messages

\* What is to be delivered is in the owner's own copy of the conversation,
\* unless the owner is just deleting it.
DeliveriesHaveMessages ==
  \A k \in deliveries \ disturbed : k \in messages \/ Busy(k, {"drop_deliveries"})

=============================================================================
