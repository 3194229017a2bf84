--------------------------- MODULE HermesObserver ---------------------------
(***************************************************************************)
(* One observer cycle (cli.py cmd_observer_once): it fetches a bounded     *)
(* batch from the durable spool of the paired Hermes bridge, captures each *)
(* item in the ledger or quarantines it, acknowledges what became durable  *)
(* and removes its source media (hermes_bridge.py observe_once), then      *)
(* projects provider receipts as reactions (receipt_reactions.py           *)
(* apply_once).  The operator's commands change aliases, routes, scopes    *)
(* and admissions between cycles: they take the observer's runtime lock.   *)
(*                                                                         *)
(* An item is a message or a receipt.  What the code reads of a message is *)
(* given by constants: the chat it names, the alternate identity of the    *)
(* same chat, and whether it is malformed, carries media, is of a group.   *)
(***************************************************************************)
EXTENDS Integers, Sequences, FiniteSets

CONSTANTS
  Message, Receipt,
  Conversation, Destination, Scope,
  Chat, Alt,          \* message -> the conversation of chatId, of chatIdAlt
  Group,              \* messages of a WhatsApp group
  Malformed,          \* messages _raw_event rejects before it reads the ledger
  HasMedia,           \* messages with a file of the bridge
  Labelled,           \* messages that carry a usable display name
  Unaddressed,        \* items without a usable messageId, or an invalid receipt
  Ref, Level,         \* receipt -> the sent message and the state it proves
  Reply, RemoteIds,   \* replies of the human outbound, and their remote ids
  BatchLimit,         \* items of one GET /messages
  MaxItems,           \* max_items of the reaction projector
  MaxFaults, MaxCommands,  \* bounds: failures and crashes, operator commands
  None

Item == Message \cup Receipt
Rejections == {"invalid_source_record", "conversation_identity_route_conflict",
               "source_media_missing", "event_payload_conflict"}
GroupChat == {Chat[m] : m \in Group}
SentRef == {Ref[k] : k \in Receipt} \cup UNION {RemoteIds[o] : o \in Reply}

ASSUME ObserverAssumption ==
  /\ Message \cap Receipt = {}
  /\ Chat \in [Message -> Conversation] /\ Alt \in [Message -> Conversation]
  /\ Group \cup Malformed \cup HasMedia \cup Labelled \subseteq Message
  /\ Unaddressed \subseteq Item
  /\ DOMAIN Ref = Receipt /\ Level \in [Receipt -> 2..5]
  /\ DOMAIN RemoteIds = Reply
  /\ BatchLimit \in Nat \ {0} /\ MaxItems \in Nat \ {0}
  /\ {MaxFaults, MaxCommands} \subseteq Nat
  /\ "owner_private" \in Scope  \* of a conversation nobody set one for
  /\ None \notin Destination \cup Scope \cup Rejections

VARIABLES
  spool,       \* items the bridge holds
  older,       \* pairs of them, the one that arrived first before the other
  arrived,     \* items the bridge ever held
  source,      \* messages whose file is still in the bridge's media root
  alias, route, scope, approved, named,       \* the operator's tables
  stored,      \* message -> conversation -> scope of its event, or None
  quarantine,  \* message -> error code of its quarantine row, or None
  receipt,     \* sent message -> highest state recorded, 0 for none
  pc,          \* of the observer process
  batch,       \* items fetched and not yet looked at
  durable, removable,                      \* items to acknowledge, with media
  todo,        \* replies to react to
  rows,        \* visible rows of hermes_human_outbound, by updated_at
  emoji,       \* reply -> the state its reaction in Telegram stands for
  reaction,    \* reply -> the state mirror_outbound_receipt_reactions records
  faults, commands

bridge   == <<spool, older, arrived, source>>
tables   == <<alias, route, scope, approved, named>>
captured == <<stored, quarantine, receipt>>
observer == <<pc, batch, durable, removable, todo>>
telegram == <<emoji, reaction>>
vars == <<bridge, tables, captured, observer, rows, telegram, faults, commands>>

Init ==
  /\ spool = {} /\ older = {} /\ arrived = {} /\ source = {}
  /\ alias = [c \in Conversation |-> c]
  /\ route = [c \in Conversation |-> None]
  /\ scope = [c \in Conversation |-> "owner_private"]
  /\ approved = {} /\ named = {}
  /\ stored = [m \in Message |-> [c \in Conversation |-> None]]
  /\ quarantine = [m \in Message |-> None]
  /\ receipt = [r \in SentRef |-> 0]
  /\ pc = "idle" /\ batch = {} /\ durable = {} /\ removable = {} /\ todo = {}
  /\ rows = <<>>
  /\ emoji = [o \in Reply |-> 0]
  /\ reaction = [o \in Reply |-> 0]
  /\ faults = 0 /\ commands = 0

Fault == faults < MaxFaults /\ faults' = faults + 1

-----------------------------------------------------------------------------
(* What the bridge and the human outbound do.                              *)

Arrive(i) ==
  /\ i \notin arrived
  /\ arrived' = arrived \cup {i}
  /\ spool' = spool \cup {i}
  /\ older' = older \cup (spool \X {i})
  /\ source' = source \cup ({i} \cap HasMedia)
  /\ UNCHANGED <<tables, captured, observer, rows, telegram, faults, commands>>

Shown == {rows[x] : x \in DOMAIN rows}

(* A reply recorded as sent or uncertain, with its remote ids, is visible
   once its row is checkpointed: the projector opens the ledger immutable. *)
Show(o) ==
  /\ o \in Reply \ Shown
  /\ rows' = Append(rows, o)
  /\ UNCHANGED <<bridge, tables, captured, observer, telegram, faults, commands>>

-----------------------------------------------------------------------------
(* The identity of a message: its alias, its alternate identity, its event.*)

Primary(m)   == alias[Chat[m]]
Alternate(m) == alias[Alt[m]]
HasAlternate(m) == Alt[m] # Chat[m]

IdentityConflict(m) ==
  /\ HasAlternate(m)
  /\ route[Primary(m)] # None /\ route[Alternate(m)] # None
  /\ route[Primary(m)] # route[Alternate(m)]

Target(m) ==
  IF HasAlternate(m) /\ route[Primary(m)] = None /\ route[Alternate(m)] # None
  THEN Alternate(m) ELSE Primary(m)

(* The conversations under which the message is an event.                  *)
Copies(m) == {c \in Conversation : stored[m][c] # None}
Existing(m) == stored[m][Target(m)]

(* A copy agrees with the message while the scope has not changed since.   *)
ReplayCompatible(m) == Existing(m) = scope[Target(m)]

Approved(m) == m \in Group =>
                 /\ Target(m) \in approved
                 /\ route[Target(m)] # None
Identified(m) == m \in Group => m \in Labelled \/ Target(m) \in named
Admitted(m) == Approved(m) /\ Identified(m)

MediaLost(m) == m \in HasMedia \ source

(* Where _persist ends for a message, in the order of its checks.  An      *)
(* "unresolved" item is neither captured nor quarantined.                  *)
Verdict(m) ==
  CASE m \in Malformed                   -> "invalid_source_record"
    [] m \notin Malformed /\ IdentityConflict(m)
                                         -> "conversation_identity_route_conflict"
    [] OTHER ->
      CASE ~Admitted(m)                  -> "unresolved"
        [] Admitted(m) /\ ReplayCompatible(m)
                                         -> "replay"
        [] Admitted(m) /\ Existing(m) # None /\ ~ReplayCompatible(m)
                                         -> "event_payload_conflict"
        [] OTHER -> IF MediaLost(m) THEN "source_media_missing" ELSE "new"

-----------------------------------------------------------------------------
(* The observer.                                                           *)

(* GET /messages answers with the oldest items.                            *)
Fetch ==
  /\ pc = "idle"
  /\ pc' = "batch"
  /\ batch' = {i \in spool : Cardinality({j \in spool : <<j, i>> \in older}) < BatchLimit}
  /\ UNCHANGED <<bridge, tables, captured, durable, removable, todo, rows, telegram,
                 faults, commands>>

TakeItem(i) ==
  /\ pc = "batch"
  /\ i \in batch /\ \A j \in batch : <<j, i>> \notin older
  /\ batch' = batch \ {i}
  /\ UNCHANGED <<pc, todo>>

(* A receipt that normalizes, a message with an id.                        *)
Usable(i) == i \notin Unaddressed

LastLevel(k) == Level[k]       \* faulty Advanced: the receipt that came last wins

(* A receipt never downgrades what another receipt proved.                 *)
Advanced(k) == IF Level[k] > receipt[Ref[k]] THEN Level[k] ELSE receipt[Ref[k]]

RecordOutboundReceipt(k) == receipt' = [receipt EXCEPT ![Ref[k]] = Advanced(k)]

TakeReceipt(k) ==
  /\ TakeItem(k)
  /\ Usable(k)
  /\ RecordOutboundReceipt(k)
  /\ durable' = durable \cup {k}
  /\ UNCHANGED <<bridge, tables, stored, quarantine, removable, rows, telegram, faults, commands>>

(* The label of an admitted event becomes the participant's name.          *)
Learn(m) ==
  named' = named \cup {c \in {Target(m)} : m \in Labelled /\ m \notin Malformed
                                           /\ ~IdentityConflict(m) /\ Approved(m)}

Capture(m) ==
  /\ TakeItem(m)
  /\ Usable(m)
  /\ Verdict(m) = "new"
  /\ stored' = [stored EXCEPT ![m][Target(m)] = scope[Target(m)]]
  /\ durable' = durable \cup {m}
  /\ removable' = removable \cup {m}
  /\ Learn(m)
  /\ UNCHANGED <<bridge, alias, route, scope, approved, quarantine, receipt, rows, telegram, faults, commands>>

(* Staging fails for a reason that may pass: the spool or the disk is full.*)
StagingFails(m) ==
  /\ TakeItem(m)
  /\ m \in HasMedia /\ Usable(m)
  /\ Verdict(m) = "new"
  /\ Fault
  /\ Learn(m)
  /\ UNCHANGED <<bridge, alias, route, scope, approved, captured, durable, removable, rows, telegram, commands>>

ReplayUnacked(m) ==             \* faulty Replay: what is known is left alone
  /\ TakeItem(m)
  /\ Usable(m)
  /\ Verdict(m) = "replay"
  /\ Learn(m)
  /\ UNCHANGED <<bridge, alias, route, scope, approved, captured, durable, removable, rows, telegram, faults, commands>>

Replay(m) ==
  /\ TakeItem(m)
  /\ Usable(m)
  /\ Verdict(m) = "replay"
  /\ durable' = durable \cup {m}
  /\ removable' = removable \cup {m}
  /\ Learn(m)
  /\ UNCHANGED <<bridge, alias, route, scope, approved, captured, rows, telegram, faults, commands>>

(* A quarantine row of another code conflicts: the item is not durable.    *)
QuarantineSourceItem(m) ==
  IF quarantine[m] \in {None, Verdict(m)}
  THEN /\ quarantine' = [quarantine EXCEPT ![m] = Verdict(m)]
       /\ durable' = durable \cup {m}
  ELSE UNCHANGED <<quarantine, durable>>

Quarantine(m) ==
  /\ TakeItem(m)
  /\ Usable(m)
  /\ Verdict(m) \in Rejections
  /\ QuarantineSourceItem(m)
  /\ Learn(m)
  /\ UNCHANGED <<bridge, alias, route, scope, approved, stored, receipt, removable, rows, telegram, faults, commands>>

(* Faulty Retain: a refused message is acknowledged as well.               *)
RetainDropped(i) ==
  /\ TakeItem(i)
  /\ Usable(i) => i \in Message /\ Verdict(i) = "unresolved"
  /\ durable' = durable \cup {i}
  /\ UNCHANGED <<bridge, tables, captured, removable, rows, telegram, faults, commands>>

Retain(i) ==
  /\ TakeItem(i)
  /\ Usable(i) => i \in Message /\ Verdict(i) = "unresolved"
  /\ UNCHANGED <<bridge, tables, captured, durable, removable, rows, telegram, faults, commands>>

(* The reaction projector: what it will apply after the batch.             *)

Largest(S) == CHOOSE x \in S : \A y \in S : y <= x

(* The states of 3 and more that the receipts of a reply prove.            *)
Proven(o) == {receipt[r] : r \in RemoteIds[o]} \cap 3..5

(* One reply's row was updated before another's.                           *)
Before(o, q) == \E x, y \in DOMAIN rows : x < y /\ rows[x] = o /\ rows[y] = q

(* The first replies with a receipt, those already reacted to as well.     *)
Candidates ==
  LET proven == {o \in Shown : Proven(o) # {}}
  IN  {o \in proven : Cardinality({q \in proven : Before(q, o)}) < MaxItems}

(* Faulty Outdated: a reply that has a reaction is never looked at again.  *)
Unreacted(some) == {o \in some : reaction[o] = 0}

Outdated(some) == {o \in some : Largest(Proven(o)) > reaction[o]}

CollectOnly ==            \* faulty Collect: the removable media is not forgotten
  /\ pc' = "react"
  /\ todo' = Outdated(Candidates)
  /\ durable' = {}
  /\ UNCHANGED removable

Collect ==
  /\ pc' = "react"
  /\ todo' = Outdated(Candidates)
  /\ durable' = {} /\ removable' = {}

Acknowledging == pc = "batch" /\ batch = {} /\ durable # {}

Remaining == spool \ durable

Keep(held) ==
  /\ spool' = held
  /\ older' = older \cap (held \X held)

AckConfirmed ==
  /\ Acknowledging
  /\ Keep(Remaining)
  /\ pc' = "cleanup"
  /\ UNCHANGED <<arrived, source, tables, captured, batch, durable, removable, todo, rows, telegram, faults, commands>>

(* Faulty AckFails: the media is removed although nothing was confirmed.   *)
AckFailsAndCleans ==
  /\ Acknowledging
  /\ Fault
  /\ \E held \in {spool, Remaining} : Keep(held)
  /\ pc' = "cleanup"
  /\ UNCHANGED <<arrived, source, tables, captured, batch, durable, removable, todo, rows, telegram, commands>>

(* The request fails; the bridge may have removed the items all the same.  *)
AckFails ==
  /\ Acknowledging
  /\ Fault
  /\ \E held \in {spool, Remaining} : Keep(held)
  /\ Collect
  /\ UNCHANGED <<arrived, source, tables, captured, batch, rows, telegram, commands>>

NothingToAck ==
  /\ pc = "batch" /\ batch = {} /\ durable = {}
  /\ Collect
  /\ UNCHANGED <<bridge, tables, captured, batch, rows, telegram, faults, commands>>

Cleanup ==
  /\ pc = "cleanup"
  /\ source' = source \ removable
  /\ Collect
  /\ UNCHANGED <<spool, older, arrived, tables, captured, batch, rows, telegram, faults, commands>>

-----------------------------------------------------------------------------
(* apply_once.                                                             *)

(* The replies are taken in the order of their rows.                       *)
Turn(o) == o \in todo /\ \A q \in todo : ~Before(q, o)

SetEmoji(o) == [emoji EXCEPT ![o] = Largest(Proven(o))]

React(o) ==
  /\ pc = "react" /\ Turn(o)
  /\ emoji' = SetEmoji(o)
  /\ pc' = "record"
  /\ UNCHANGED <<bridge, tables, captured, batch, durable, removable, todo, rows, reaction, faults, commands>>

(* Faulty ReactionFails: a failed reaction is recorded as applied.         *)
ReactionFailsRecorded(o) ==
  /\ pc = "react" /\ Turn(o)
  /\ Fault
  /\ emoji' \in {emoji, SetEmoji(o)}
  /\ pc' = "record"
  /\ UNCHANGED <<bridge, tables, captured, batch, durable, removable, todo, rows, reaction, commands>>

(* Telegram refuses, or sets the reaction and its answer is lost.          *)
ReactionFails(o) ==
  /\ pc = "react" /\ Turn(o)
  /\ Fault
  /\ emoji' \in {emoji, SetEmoji(o)}
  /\ todo' = todo \ {o}
  /\ UNCHANGED <<bridge, tables, captured, pc, batch, durable, removable, rows, reaction, commands>>

RecordReaction(o) ==
  /\ pc = "record" /\ Turn(o)
  /\ reaction' = [reaction EXCEPT ![o] = Largest(Proven(o))]
  /\ todo' = todo \ {o}
  /\ pc' = "react"
  /\ UNCHANGED <<bridge, tables, captured, batch, durable, removable, rows, emoji, faults, commands>>

EndCycle ==
  /\ pc = "react" /\ todo = {}
  /\ pc' = "idle"
  /\ UNCHANGED <<bridge, tables, captured, batch, durable, removable, todo, rows, telegram, faults, commands>>

Crash ==
  /\ pc # "idle"
  /\ Fault
  /\ pc' = "idle" /\ batch' = {} /\ durable' = {} /\ removable' = {} /\ todo' = {}
  /\ UNCHANGED <<bridge, tables, captured, rows, telegram, commands>>

-----------------------------------------------------------------------------
(* The operator, between two cycles of the observer.                       *)

Command ==
  /\ pc = "idle"
  /\ commands < MaxCommands
  /\ commands' = commands + 1
  /\ UNCHANGED <<bridge, captured, observer, rows, telegram, faults>>

SetAlias(a, c) ==
  /\ Command
  /\ alias[a] # c
  /\ alias' = [alias EXCEPT ![a] = c]
  /\ UNCHANGED <<route, scope, approved, named>>

SetRoute(c, d) ==
  /\ Command
  /\ route[c] # d
  /\ route' = [route EXCEPT ![c] = d]
  /\ UNCHANGED <<alias, scope, approved, named>>

SetScope(c, s) ==
  /\ Command
  /\ scope[c] # s
  /\ scope' = [scope EXCEPT ![c] = s]
  /\ UNCHANGED <<alias, route, approved, named>>

ApproveGroup(c, s) ==
  /\ Command
  /\ route[c] # None
  /\ approved' = approved \cup {c}
  /\ scope' = [scope EXCEPT ![c] = s]
  /\ UNCHANGED <<alias, route, named>>

(* Not under the lock: cmd_ingest of another message of a direct contact
   creates its topic and its first route.                                  *)
ContactRouted(c, d) ==
  /\ route[c] = None
  /\ commands < MaxCommands
  /\ commands' = commands + 1
  /\ route' = [route EXCEPT ![c] = d]
  /\ UNCHANGED <<bridge, alias, scope, approved, named, captured, observer, rows, telegram, faults>>

NameParticipant(c) ==
  /\ Command
  /\ named' = named \cup {c}
  /\ UNCHANGED <<alias, route, scope, approved>>

-----------------------------------------------------------------------------
Observe ==
  \/ Fetch \/ AckConfirmed \/ AckFails \/ NothingToAck \/ Cleanup
  \/ \E k \in Receipt : TakeReceipt(k)
  \/ \E m \in Message : Capture(m) \/ StagingFails(m) \/ Replay(m) \/ Quarantine(m)
  \/ \E i \in Item : Retain(i)
  \/ \E o \in Reply : React(o) \/ ReactionFails(o) \/ RecordReaction(o)
  \/ EndCycle

(* The operator aliases identities of a contact, and approves groups.      *)
Operate ==
  \/ \E a, c \in Conversation \ GroupChat : SetAlias(a, c)
  \/ \E c \in Conversation, d \in Destination : SetRoute(c, d)
  \/ \E c \in Conversation \ GroupChat, d \in Destination : ContactRouted(c, d)
  \/ \E c \in Conversation, s \in Scope : SetScope(c, s)
  \/ \E c \in GroupChat, s \in Scope : ApproveGroup(c, s)
  \/ \E c \in GroupChat : NameParticipant(c)

Next ==
  \/ Observe
  \/ Crash
  \/ Operate
  \/ \E i \in Item : Arrive(i)
  \/ \E o \in Reply : Show(o)

Spec == Init /\ [][Next]_vars

(* systemd starts the observer again on its timer.                         *)
FairSpec == Spec /\ WF_vars(Observe)

-----------------------------------------------------------------------------
TypeOK ==
  /\ arrived \subseteq Item /\ spool \subseteq arrived /\ older \subseteq spool \X spool
  /\ source \subseteq HasMedia
  /\ alias \in [Conversation -> Conversation]
  /\ route \in [Conversation -> Destination \cup {None}]
  /\ scope \in [Conversation -> Scope]
  /\ approved \subseteq Conversation /\ named \subseteq Conversation
  /\ stored \in [Message -> [Conversation -> Scope \cup {None}]]
  /\ quarantine \in [Message -> Rejections \cup {None}]
  /\ receipt \in [SentRef -> 0..5]
  /\ pc \in {"idle", "batch", "cleanup", "react", "record"}
  /\ batch \subseteq arrived /\ durable \subseteq arrived /\ removable \subseteq durable
  /\ rows \in Seq(Reply) /\ todo \subseteq Shown
  /\ emoji \in [Reply -> {0} \cup 3..5] /\ reaction \in [Reply -> {0} \cup 3..5]
  /\ faults \in 0..MaxFaults /\ commands \in 0..MaxCommands

(* What the bridge no longer holds is in the ledger: a message as an event
   or a quarantine row, a receipt as a state at least as high.  The bridge
   keeps the only other copy, and an acknowledgement deletes it.           *)
AckedIsDurable ==
  \A i \in arrived \ spool :
    /\ i \in Message => Copies(i) # {} \/ quarantine[i] # None
    /\ i \in Receipt => receipt[Ref[i]] >= Level[i]

(* The bridge's file of an attachment is removed only for a message that is
   captured and that the bridge will not hand out again.                   *)
SourceKeptUntilDurable ==
  \A m \in HasMedia \cap arrived :
    m \notin source => Copies(m) # {} /\ m \notin spool

(* Telegram shows at least the reaction the ledger recorded, and never one
   the provider's receipts do not prove, whichever answer was lost.        *)
ReactionIsProven ==
  \A o \in Reply :
    /\ reaction[o] <= emoji[o]
    /\ emoji[o] # 0 => \E r \in RemoteIds[o] : receipt[r] >= emoji[o]

(* A reaction never goes back, from read to delivered, though receipts come
   in any order and a crash may lose the record of a reaction already set. *)
ReactionNeverRegresses ==
  [][\A o \in Reply : emoji'[o] >= emoji[o]]_vars

(* Items the observer can neither capture nor quarantine.                  *)
Stuck(i) ==
  \/ ~Usable(i)
  \/ /\ i \in Message
     /\ \/ Verdict(i) = "unresolved"
        \/ Verdict(i) \in Rejections /\ quarantine[i] \notin {None, Verdict(i)}

(* The spool drains: what stays in it for ever is stuck, whatever requests
   and crashes repeated its capture.  BatchLimit exceeds the stuck items.  *)
DrainsUnlessStuck == <>[](\A i \in spool : Stuck(i))

(* Every reply with a proven state ends with a recorded reaction of that
   state (docs/HUMAN_OUTBOUND.md:20: a failed reaction leaves the receipt
   for a new attempt in the next cycle).                                   *)
ReactionsCatchUp ==
  <>[](\A o \in Shown : Proven(o) # {} => reaction[o] = Largest(Proven(o)))
=============================================================================
