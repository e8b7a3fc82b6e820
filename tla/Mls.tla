-------------------------------- MODULE Mls --------------------------------
(***************************************************************************)
(* The clients' side of encrypted messages: the files in which the command *)
(* line, the terminal and the desktop client keep MLS state, on the        *)
(* machine of one sender and the machine of one recipient.                 *)
(*                                                                         *)
(* Clients are processes that share nothing but files.  A client reads a   *)
(* group's file, works on its copy, and writes the file whole; so a client *)
(* is cut at each file and at the request, and one that dies leaves what   *)
(* it has written, or a file cut short, which counts as none.              *)
(*                                                                         *)
(* OpenMLS is external: a group is an incarnation (its secrets), a message *)
(* is sealed with the next key of its sender, and a recipient holds no key *)
(* twice.  The rows of the server are E2ee's and Delivery's: here they are *)
(* messages under way and messages that have arrived.                      *)
(***************************************************************************)
EXTENDS Naturals, FiniteSets

CONSTANTS
  MlsMessage, \* messages of one conversation, in one direction
  Sender,     \* sending clients that can run at once
  Reader,     \* reading clients that can run at once
  Window,     \* OpenMLS: how far behind the newest a key is still kept
  MaxInits,   \* bound: e2ee-mls-device-init runs after the first
  MaxFaults   \* bound: crashes, failed writes and failed requests

ASSUME MlsAssumption ==
  /\ MlsMessage # {} /\ Window \in Nat
  /\ MaxInits \in Nat /\ MaxFaults \in Nat

VARIABLES
  audience,     \* is it an audience group, or a direct conversation?
  sent,         \* the sender's file of the group
  envelope,     \* what was sealed, per message
  posted,       \* messages the sender's server took: they are under way
  stored,       \* messages that have arrived at the recipient's
  joined,       \* the recipient's file of the group
  private,      \* the key package whose private key the recipient's device file has
  published, trusted,  \* the one its server shows, the one the sender trusts
  initialising, \* e2ee-mls-device-init has published: is it told to overwrite?
  cached,       \* messages whose plaintext the recipient has cached
  senders, readers,    \* the clients
  \* History, read by no code.
  incarnations, \* groups created
  raced,        \* those that a sender worked on while another did
  harmed,       \* those that a fault, or a reading without saving, has touched
  inits, faults

sending == <<audience, sent, envelope, posted, senders, incarnations, raced>>
reading == <<joined, cached, readers>>
keys == <<private, published, trusted, initialising, inits>>
mlsVars == <<sending, stored, reading, keys, harmed, faults>>

-----------------------------------------------------------------------------
(* The values.                                                             *)

Client == {"cli", "tui", "desk"}

\* A group file: whose incarnation, how many keys are used up, and, for the
\* recipient, which of these were used to read.
NoGroup == [of |-> 0, next |-> 0, used |-> {}]
Groups == [of : Nat, next : Nat, used : SUBSET Nat]

NoEnvelope == [of |-> 0, key |-> 0, welcome |-> 0]
IdleSender == [at |-> "idle", message |-> {}, group |-> NoGroup]
IdleReader == [at |-> "idle", goesOn |-> FALSE, message |-> {}, group |-> NoGroup]

Fault == faults < MaxFaults /\ faults' = faults + 1

MlsTypeOK ==
  /\ audience \in BOOLEAN
  /\ sent \in Groups /\ joined \in Groups
  /\ envelope \in [MlsMessage -> [of : Nat, key : Nat, welcome : Nat]]
  /\ posted \subseteq MlsMessage /\ stored \subseteq MlsMessage /\ cached \subseteq MlsMessage
  /\ senders \in [Sender -> [at : {"idle", "save", "post"},
                             message : SUBSET MlsMessage, group : Groups]]
  /\ readers \in [Reader -> [at : {"idle", "save", "cache"}, goesOn : BOOLEAN,
                             message : SUBSET MlsMessage, group : Groups]]
  /\ initialising \in {"no", "force", "keep"}
  /\ {private, published, trusted, incarnations, inits, faults} \subseteq Nat
  /\ raced \subseteq Nat /\ harmed \subseteq Nat

MlsInit ==
  /\ audience \in BOOLEAN
  /\ sent = NoGroup /\ joined = NoGroup
  /\ envelope = [m \in MlsMessage |-> NoEnvelope]
  /\ posted = {} /\ stored = {} /\ cached = {}
  /\ senders = [s \in Sender |-> IdleSender]
  /\ readers = [r \in Reader |-> IdleReader]
  /\ initialising = "no"
  /\ private = 1 /\ published = 1 /\ trusted = 1
  /\ incarnations = 0 /\ raced = {} /\ harmed = {}
  /\ inits = 0 /\ faults = 0

-----------------------------------------------------------------------------
(* Sending.                                                                *)

AtWork == {s \in Sender : senders[s].at # "idle"}

\* Mutant of Sealed: the state is exported before the message is encrypted.
SealedLate(g) == g

\* encrypt_application_message, then export_state: the key is used up.
Sealed(g) == [g EXCEPT !.next = @ + 1]

\* The group to seal with: the file's, or a new one whose welcome goes along.  A
\* message to an audience always makes a new one, from the device's own state.
Continues == sent # NoGroup /\ ~audience
Group == IF Continues THEN sent ELSE [NoGroup EXCEPT !.of = incarnations + 1]

\* A send up to the writing of the group's file: it has read the file, the peer's
\* key package and, if it needs one, made a group.
Seal(s, m) ==
  LET g == Group IN
  /\ senders[s].at = "idle"
  /\ envelope[m] = NoEnvelope
  /\ envelope' = [envelope EXCEPT
       ![m] = [of |-> g.of, key |-> g.next, welcome |-> IF Continues THEN 0 ELSE trusted]]
  /\ senders' = [senders EXCEPT
       ![s] = [at |-> "save", message |-> {m}, group |-> Sealed(g)]]
  /\ incarnations' = IF Continues THEN incarnations ELSE incarnations + 1
  /\ raced' = IF AtWork = {} THEN raced
              ELSE raced \cup {g.of} \cup {senders[b].group.of : b \in AtWork}
  /\ UNCHANGED <<audience, sent, posted, stored, reading, keys, harmed, faults>>

\* save_mls_group_state, before anything leaves the machine.
SaveSent(s) ==
  /\ senders[s].at = "save"
  /\ sent' = senders[s].group
  /\ senders' = [senders EXCEPT ![s].at = "post"]
  /\ UNCHANGED <<audience, envelope, posted, incarnations, raced, stored, reading,
                 keys, harmed, faults>>

\* send_e2ee_message: the server takes the message.  (The plaintext is cached
\* under the id of the answer, for the sender's own reading.)
Post(s) ==
  /\ senders[s].at = "post"
  /\ posted' = posted \cup senders[s].message
  /\ senders' = [senders EXCEPT ![s] = IdleSender]
  /\ UNCHANGED <<audience, sent, envelope, incarnations, raced, stored, reading,
                 keys, harmed, faults>>

\* The client dies, a write fails half way, or the request fails, though the
\* server may have taken the message.
FailSend(s) ==
  /\ Fault
  /\ senders[s].at # "idle"
  /\ sent' \in {sent} \cup (IF senders[s].at = "save" THEN {NoGroup} ELSE {})
  /\ posted' \in {posted} \cup (IF senders[s].at = "post"
                                THEN {posted \cup senders[s].message} ELSE {})
  /\ harmed' = harmed \cup {senders[s].group.of}
  /\ senders' = [senders EXCEPT ![s] = IdleSender]
  /\ UNCHANGED <<audience, envelope, incarnations, raced, stored, reading, keys>>

\* The delivery pipeline brings a message, in any order or never.
Arrive(m) ==
  /\ m \in posted \ stored
  /\ stored' = stored \cup {m}
  /\ UNCHANGED <<sending, reading, keys, harmed, faults>>

-----------------------------------------------------------------------------
(* Reading.                                                                *)

\* OpenMLS: g has the key of m, if it is of g's incarnation, not used yet, and
\* not too far behind.
Has(g, m) ==
  LET k == envelope[m].key IN
  /\ envelope[m].of = g.of
  /\ k >= g.next \/ (g.next - k <= Window /\ k \notin g.used)

\* ... and loses it by reading m.
Without(g, m) ==
  LET k == envelope[m].key IN
  [g EXCEPT !.next = IF k >= @ THEN k + 1 ELSE @, !.used = @ \cup {k}]

\* decrypt_application_message joins by the envelope's welcome, for which it needs
\* the private key of the key package the sender had.
CanJoin(m) == envelope[m].welcome # 0 /\ envelope[m].welcome = private
JoinedBy(m) == Without([NoGroup EXCEPT !.of = envelope[m].of], m)

\* Mutant of AfterJoin: nobody saves the group.
AfterJoinNobody(c) == "cache"

\* The desktop client does not save a group it has joined.
AfterJoin(c) == IF c = "desk" THEN "cache" ELSE "save"

\* A client opens an encrypted message.  The terminal and the desktop client look
\* for its plaintext in the cache, then try the group's file, then the device's own
\* state; the command line's decrypt tries the latter only if there is no group.
Open(r, c, m) ==
  /\ readers[r].at = "idle"
  /\ m \in stored
  /\ c # "cli" => m \notin cached
  /\ \/ /\ Has(joined, m)
        /\ readers' = [readers EXCEPT
             ![r] = [at |-> "save", goesOn |-> c = "desk", message |-> {m},
                     group |-> Without(joined, m)]]
     \/ /\ ~Has(joined, m) /\ CanJoin(m)
        /\ c = "cli" => joined = NoGroup
        /\ readers' = [readers EXCEPT
             ![r] = [at |-> AfterJoin(c), goesOn |-> FALSE, message |-> {m},
                     group |-> JoinedBy(m)]]
  /\ harmed' = IF c = "desk" /\ ~Has(joined, m)
               THEN harmed \cup {envelope[m].of} ELSE harmed
  /\ UNCHANGED <<sending, stored, joined, cached, keys, faults>>

\* save_mls_group_state, or the desktop client's persist_local_mls_group_state,
\* which changes a file that is there.
SaveJoined(r) ==
  /\ readers[r].at = "save"
  /\ joined' = IF readers[r].goesOn /\ joined = NoGroup THEN joined ELSE readers[r].group
  /\ readers' = [readers EXCEPT ![r].at = "cache", ![r].goesOn = FALSE,
                                ![r].group = NoGroup]
  /\ UNCHANGED <<sending, stored, cached, keys, harmed, faults>>

\* save_decrypted_message, and the message is shown.
Cache(r) ==
  /\ readers[r].at = "cache"
  /\ cached' = cached \cup readers[r].message
  /\ readers' = [readers EXCEPT ![r] = IdleReader]
  /\ UNCHANGED <<sending, stored, joined, keys, harmed, faults>>

\* The client dies or a write fails, half way perhaps.  The desktop client goes on
\* from a failed write of the group as if nothing had happened.
FailRead(r) ==
  /\ Fault
  /\ readers[r].at # "idle"
  /\ joined' \in {joined} \cup (IF readers[r].at = "save" THEN {NoGroup} ELSE {})
  /\ harmed' = harmed \cup {readers[r].group.of, joined.of}
  /\ readers' \in {[readers EXCEPT ![r] = IdleReader]} \cup
                  (IF readers[r].goesOn
                   THEN {[readers EXCEPT ![r].at = "cache", ![r].goesOn = FALSE,
                                        ![r].group = NoGroup]}
                   ELSE {})
  /\ UNCHANGED <<sending, stored, cached, keys>>

-----------------------------------------------------------------------------
(* The recipient's device: e2ee-mls-device-init makes a key package,       *)
(* publishes it, and then writes the private key, but not over a file that *)
(* exists unless it was told to.                                           *)

Publish(mode) ==
  /\ initialising = "no" /\ mode \in {"force", "keep"}
  /\ inits < MaxInits /\ inits' = inits + 1
  /\ published' = inits' + 1
  /\ initialising' = mode
  /\ UNCHANGED <<sending, stored, reading, private, trusted, harmed, faults>>

SaveDevice ==
  /\ initialising # "no"
  /\ private' = IF initialising = "force" THEN published ELSE private
  /\ initialising' = "no"
  /\ UNCHANGED <<sending, stored, reading, published, trusted, inits, harmed, faults>>

\* The write is refused or cut short, or the client dies before it.
FailDevice ==
  /\ Fault
  /\ initialising # "no"
  /\ private' \in {private} \cup (IF initialising = "force" THEN {0} ELSE {})
  /\ initialising' = "no"
  /\ UNCHANGED <<sending, stored, reading, published, trusted, inits, harmed>>

\* The sender discovers what is published and trusts it (E2ee).
TrustPackage ==
  /\ trusted # published
  /\ trusted' = published
  /\ UNCHANGED <<sending, stored, reading, private, published, initialising, inits,
                 harmed, faults>>

-----------------------------------------------------------------------------

MlsNext ==
  \/ \E s \in Sender : \/ \E m \in MlsMessage : Seal(s, m)
                       \/ SaveSent(s) \/ Post(s) \/ FailSend(s)
  \/ \E m \in MlsMessage : Arrive(m)
  \/ \E r \in Reader : \/ \E c \in Client, m \in MlsMessage : Open(r, c, m)
                       \/ SaveJoined(r) \/ Cache(r) \/ FailRead(r)
  \/ \E mode \in {"force", "keep"} : Publish(mode)
  \/ SaveDevice \/ FailDevice \/ TrustPackage

MlsSpec == MlsInit /\ [][MlsNext]_mlsVars

-----------------------------------------------------------------------------
(* Properties.                                                             *)

\* No key seals two messages that left the machine, wherever a client died or a
\* write failed: the group is written between sealing and sending
\* (save_mls_group_state before send_e2ee_message).  Two clients that send at once
\* read the same file and may use a key twice: nothing locks the file.
KeysAreFresh ==
  \A m, n \in posted :
    /\ m # n
    /\ envelope[m].of = envelope[n].of
    /\ envelope[m].of \notin raced
    => envelope[m].key # envelope[n].key

\* The messages that carry the welcome to an incarnation.
Welcomes(i) == {w \in MlsMessage : envelope[w].of = i /\ envelope[w].welcome # 0}

\* In whatever order messages arrive and are opened, one that can still be read
\* stays so: the recipient is in its group and has its key, or has yet to read the
\* message that lets it in.  Excepted are incarnations two senders raced for, that a
\* fault touched or that the desktop client joined without saving; direct
\* conversations with a second incarnation, as the file has room for one; messages
\* more than Window behind; and welcomes to a key package whose private key is gone,
\* or was never written as e2ee-mls-device-init published before it refused to
\* overwrite.
NothingIsStranded ==
  \A m \in stored \ cached :
    LET i == envelope[m].of IN
    /\ \A r \in Reader : readers[r].at = "idle"
    /\ i \notin raced \cup harmed
    /\ audience \/ incarnations = 1
    => IF joined.of = i
       THEN envelope[m].key + Window < joined.next \/ Has(joined, m)
       ELSE \A w \in Welcomes(i) : CanJoin(w) => w \in posted \ cached

=============================================================================
