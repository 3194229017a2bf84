--------------------------- MODULE ObserverSafety ---------------------------
(***************************************************************************)
(* Proofs about HermesObserver: what was acknowledged is in the ledger, a  *)
(* source file goes only after its message, and a reaction is proved by a  *)
(* receipt and never goes back, for any number of items, replies, faults   *)
(* and commands of the operator.                                           *)
(*                                                                         *)
(* What a cycle carries from one step to the next (durable, removable,     *)
(* todo) was computed from a ledger and a bridge that others change        *)
(* meanwhile.  The invariant says in which sense it is still true.         *)
(***************************************************************************)
EXTENDS HermesObserver, SequenceTheorems, TLAPS

(* The ledger has what an item says.                                       *)
Recorded(i) ==
  /\ i \in Message => Copies(i) # {} \/ quarantine[i] # None
  /\ i \in Receipt => receipt[Ref[i]] >= Level[i]

(* What is going to be acknowledged was recorded.                          *)
DurableIsRecorded == \A i \in durable : Recorded(i)

(* A message whose source is going to be removed is an event, and once the *)
(* acknowledgement was confirmed the bridge no longer holds it.            *)
RemovableIsCaptured ==
  /\ removable \subseteq Message
  /\ \A m \in removable : Copies(m) # {}
  /\ pc = "cleanup" => removable \cap spool = {}

(* A reply that waits for its reaction has a better state than recorded.   *)
TodoIsProven ==
  /\ pc \notin {"react", "record"} => todo = {}
  /\ \A o \in todo : Proven(o) # {} /\ Largest(Proven(o)) > reaction[o]

(* What is about to be recorded is what Telegram was told.                 *)
RecordFollowsReaction ==
  pc = "record" => \A o \in todo : Turn(o) => emoji[o] = Largest(Proven(o))

ObserverInvariant ==
  /\ TypeOK
  /\ DurableIsRecorded /\ AckedIsDurable
  /\ RemovableIsCaptured /\ SourceKeptUntilDurable
  /\ TodoIsProven /\ RecordFollowsReaction /\ ReactionIsProven

-----------------------------------------------------------------------------
(* The constants, and the operators of the model.                          *)

LEMMA Constants ==
  /\ Message \cap Receipt = {} /\ HasMedia \subseteq Message
  /\ Chat \in [Message -> Conversation] /\ Alt \in [Message -> Conversation]
  /\ GroupChat \subseteq Conversation
  /\ \A k \in Receipt : Ref[k] \in SentRef /\ Level[k] \in 2..5
  /\ \A o \in Reply : RemoteIds[o] \subseteq SentRef
  /\ MaxFaults \in Nat /\ MaxCommands \in Nat
  /\ None \notin Destination /\ None \notin Scope /\ None \notin Rejections
<1>1. Group \subseteq Message /\ HasMedia \subseteq Message
  BY ObserverAssumption
<1>2. GroupChat \subseteq Conversation
  BY <1>1, ObserverAssumption DEF GroupChat
<1>3. \A k \in Receipt : Ref[k] \in SentRef /\ Level[k] \in 2..5
  BY ObserverAssumption DEF SentRef
<1>4. \A o \in Reply : RemoteIds[o] \subseteq SentRef
  BY DEF SentRef
<1> QED BY <1>1, <1>2, <1>3, <1>4, ObserverAssumption

(* What Largest is for: the states of a reaction.                          *)
LEMMA LargestIsIn ==
  ASSUME NEW S, S \subseteq 3..5, S # {}
  PROVE  Largest(S) \in S /\ \A y \in S : y <= Largest(S)
<1>1. \E x \in S : \A y \in S : y <= x
  <2>1. CASE 5 \in S
    BY <2>1
  <2>2. CASE 5 \notin S /\ 4 \in S
    BY <2>2
  <2>3. CASE 5 \notin S /\ 4 \notin S
    <3>1. \A y \in S : y = 3
      BY <2>3
    <3>2. 3 \in S
      BY <3>1
    <3> QED BY <3>1, <3>2
  <2> QED BY <2>1, <2>2, <2>3
<1> QED BY <1>1 DEF Largest

(* The best proven state of a reply is one of its receipts', of 3 to 5,    *)
(* and no receipt of it that shows anything is higher.                     *)
LEMMA ProvenIsAReceipt ==
  ASSUME TypeOK, NEW o \in Reply
  PROVE  /\ Proven(o) # {} =>
              /\ Largest(Proven(o)) \in 3..5
              /\ \E r \in RemoteIds[o] : receipt[r] = Largest(Proven(o))
         /\ \A r \in RemoteIds[o] :
              receipt[r] >= 3 => Proven(o) # {} /\ receipt[r] <= Largest(Proven(o))
<1> DEFINE P == Proven(o)
<1>1. P \subseteq 3..5 /\ \A x \in P : \E r \in RemoteIds[o] : receipt[r] = x
  BY DEF Proven
<1>2. ASSUME NEW r \in RemoteIds[o], receipt[r] >= 3 PROVE receipt[r] \in P
  <2>1. receipt[r] \in 0..5
    BY Constants DEF TypeOK
  <2> QED BY <1>2, <2>1 DEF Proven
<1> HIDE DEF P
<1>3. P # {} => Largest(P) \in P /\ \A y \in P : y <= Largest(P)
  BY <1>1, LargestIsIn
<1>4. P # {} => Largest(P) \in 3..5 /\ \E r \in RemoteIds[o] : receipt[r] = Largest(P)
  BY <1>1, <1>3
<1>5. \A r \in RemoteIds[o] : receipt[r] >= 3 => P # {} /\ receipt[r] <= Largest(P)
  BY <1>2, <1>3
<1> QED BY <1>4, <1>5 DEF P

LEMMA IdentityTypes ==
  ASSUME TypeOK, NEW m \in Message
  PROVE  Target(m) \in Conversation /\ scope[Target(m)] \in Scope
BY Constants DEF TypeOK, Target, Primary, Alternate

(* Only what is an event is taken for a replay.                            *)
LEMMA ReplayIsCaptured ==
  ASSUME TypeOK, NEW m \in Message, Verdict(m) = "replay"
  PROVE  Copies(m) # {}
<1>1. ReplayCompatible(m)
  BY DEF Verdict
<1>2. stored[m][Target(m)] = scope[Target(m)]
  BY <1>1 DEF ReplayCompatible, Existing
<1>3. stored[m][Target(m)] # None
  BY <1>2, IdentityTypes, Constants
<1> QED BY <1>3, IdentityTypes DEF Copies

(* One reply at a time has its turn, and a reply that shows up later does  *)
(* not change whose turn it is.                                            *)
LEMMA TurnIsUnique ==
  ASSUME TypeOK, NEW o \in todo, NEW q \in todo, Turn(o), Turn(q)
  PROVE  o = q
<1>1. PICK x \in DOMAIN rows : rows[x] = o
  BY DEF TypeOK, Shown
<1>2. PICK y \in DOMAIN rows : rows[y] = q
  BY DEF TypeOK, Shown
<1>3. x \in Nat /\ y \in Nat
  BY LenProperties DEF TypeOK
<1>4. ~(x < y) /\ ~(y < x)
  BY <1>1, <1>2 DEF Turn, Before
<1> QED BY <1>1, <1>2, <1>3, <1>4

LEMMA ShowKeepsOrder ==
  ASSUME TypeOK, NEW n \in Reply, Show(n)
  PROVE  /\ rows' \in Seq(Reply) /\ Shown \subseteq Shown'
         /\ \A o, q \in Shown : Before(o, q) <=> Before(o, q)'
<1>1. /\ rows \in Seq(Reply) /\ Len(rows) \in Nat /\ DOMAIN rows = 1..Len(rows)
      /\ rows' = Append(rows, n) /\ n \notin Shown
  BY LenProperties DEF TypeOK, Show
<1>2. /\ rows' \in Seq(Reply) /\ Len(rows') = Len(rows) + 1
      /\ DOMAIN rows' = 1..(Len(rows) + 1)
      /\ \A x \in 1..Len(rows) : rows'[x] = rows[x]
      /\ rows'[Len(rows) + 1] = n
  BY <1>1, AppendProperties, LenProperties
<1>3. Shown \subseteq Shown'
  BY <1>1, <1>2 DEF Shown
<1>4. ASSUME NEW o \in Shown, NEW q \in Shown PROVE Before(o, q) <=> Before(o, q)'
  <2>1. Before(o, q) => Before(o, q)'
    BY <1>1, <1>2 DEF Before
  <2>2. ASSUME Before(o, q)' PROVE Before(o, q)
    <3>1. PICK x, y \in DOMAIN rows' : x < y /\ rows'[x] = o /\ rows'[y] = q
      BY <2>2 DEF Before
    <3>2. x # Len(rows) + 1 /\ y # Len(rows) + 1
      BY <1>1, <1>2, <3>1
    <3>3. x \in DOMAIN rows /\ y \in DOMAIN rows /\ rows[x] = o /\ rows[y] = q
      BY <1>1, <1>2, <3>1, <3>2
    <3> QED BY <3>1, <3>3 DEF Before
  <2> QED BY <2>1, <2>2
<1> QED BY <1>2, <1>3, <1>4

-----------------------------------------------------------------------------
(* Types.                                                                  *)

LEMMA InitHolds == Init => ObserverInvariant
<1> SUFFICES ASSUME Init PROVE ObserverInvariant
  OBVIOUS
<1>1. TypeOK
  <2>1. rows \in Seq(Reply) /\ 0 \in 0..MaxFaults /\ 0 \in 0..MaxCommands
    BY Constants, EmptySeq DEF Init
  <2>2. "owner_private" \in Scope
    BY ObserverAssumption
  <2> QED BY <2>1, <2>2 DEF Init, TypeOK
<1>2. DurableIsRecorded /\ AckedIsDurable /\ RemovableIsCaptured /\ SourceKeptUntilDurable
  BY DEF Init, DurableIsRecorded, AckedIsDurable, RemovableIsCaptured, SourceKeptUntilDurable
<1>3. TodoIsProven /\ RecordFollowsReaction /\ ReactionIsProven
  BY DEF Init, TodoIsProven, RecordFollowsReaction, ReactionIsProven
<1> QED BY <1>1, <1>2, <1>3 DEF ObserverInvariant

(* A failure or a crash still to be had, a command still to be given.      *)
LEMMA CountTypes ==
  ASSUME TypeOK
  PROVE  /\ Fault => faults' \in 0..MaxFaults
         /\ commands < MaxCommands => commands + 1 \in 0..MaxCommands
BY Constants DEF TypeOK, Fault

LEMMA BatchTypes ==
  ASSUME TypeOK,
         \/ \E k \in Receipt : TakeReceipt(k)
         \/ \E m \in Message : Capture(m) \/ StagingFails(m) \/ Replay(m) \/ Quarantine(m)
         \/ \E i \in Item : Retain(i)
  PROVE  TypeOK'
<1> USE DEF TypeOK, TakeItem, bridge, tables, captured, telegram, Shown
<1>1. ASSUME NEW k \in Receipt, TakeReceipt(k) PROVE TypeOK'
  <2>1. receipt' \in [SentRef -> 0..5]
    BY <1>1, Constants DEF TakeReceipt, RecordOutboundReceipt, Advanced
  <2> QED BY <1>1, <2>1 DEF TakeReceipt
<1>2. ASSUME NEW m \in Message PROVE Learn(m) => named' \subseteq Conversation
  BY IdentityTypes DEF Learn
<1>3. ASSUME NEW m \in Message, Capture(m) PROVE TypeOK'
  <2>1. stored' \in [Message -> [Conversation -> Scope \cup {None}]]
    BY <1>3, IdentityTypes DEF Capture
  <2> QED BY <1>2, <1>3, <2>1 DEF Capture
<1>4. ASSUME NEW m \in Message, StagingFails(m) PROVE TypeOK'
  BY <1>2, <1>4, CountTypes DEF StagingFails
<1>5. ASSUME NEW m \in Message, Replay(m) PROVE TypeOK'
  BY <1>2, <1>5 DEF Replay
<1>6. ASSUME NEW m \in Message, Quarantine(m) PROVE TypeOK'
  <2>1. quarantine' \in [Message -> Rejections \cup {None}] /\ durable \subseteq durable'
        /\ durable' \subseteq durable \cup {m}
    BY <1>6 DEF Quarantine, QuarantineSourceItem
  <2> QED BY <1>2, <1>6, <2>1 DEF Quarantine
<1>7. ASSUME NEW i \in Item, Retain(i) PROVE TypeOK'
  BY <1>7 DEF Retain
<1> QED BY <1>1, <1>3, <1>4, <1>5, <1>6, <1>7

LEMMA CycleTypes ==
  ASSUME TypeOK,
         Fetch \/ AckConfirmed \/ AckFails \/ NothingToAck \/ Cleanup \/ EndCycle \/ Crash
  PROVE  TypeOK'
<1> USE DEF TypeOK, bridge, tables, captured, telegram, Shown, Collect, Keep, Remaining
<1>0. Outdated(Candidates) \subseteq Shown
  BY DEF Outdated, Candidates
<1>1. CASE Fetch
  BY <1>1 DEF Fetch
<1>2. CASE AckConfirmed
  BY <1>2 DEF AckConfirmed
<1>3. CASE AckFails
  BY <1>0, <1>3, CountTypes DEF AckFails
<1>4. CASE NothingToAck \/ Cleanup
  BY <1>0, <1>4 DEF NothingToAck, Cleanup
<1>5. CASE EndCycle
  BY <1>5 DEF EndCycle
<1>6. CASE Crash
  BY <1>6, CountTypes DEF Crash
<1> QED BY <1>1, <1>2, <1>3, <1>4, <1>5, <1>6

LEMMA ReactionTypes ==
  ASSUME TypeOK, TodoIsProven, NEW o \in Reply,
         React(o) \/ ReactionFails(o) \/ RecordReaction(o)
  PROVE  TypeOK'
<1>1. o \in todo
  BY DEF React, ReactionFails, RecordReaction, Turn
<1>2. Largest(Proven(o)) \in 3..5
  BY <1>1, ProvenIsAReceipt DEF TodoIsProven
<1> USE DEF TypeOK, bridge, tables, captured, Shown
<1>3. SetEmoji(o) \in [Reply -> {0} \cup 3..5]
  BY <1>2 DEF SetEmoji
<1>4. CASE React(o)
  BY <1>3, <1>4 DEF React
<1>5. CASE ReactionFails(o)
  BY <1>3, <1>5, CountTypes DEF ReactionFails
<1>6. CASE RecordReaction(o)
  <2>1. reaction' \in [Reply -> {0} \cup 3..5]
    BY <1>2, <1>6 DEF RecordReaction
  <2> QED BY <1>6, <2>1 DEF RecordReaction
<1> QED BY <1>4, <1>5, <1>6

LEMMA OperateTypes ==
  ASSUME TypeOK, Operate
  PROVE  TypeOK'
<1> USE Constants DEF TypeOK, bridge, captured, observer, telegram, Shown
<1>1. Command => commands' \in 0..MaxCommands
  BY CountTypes DEF Command
<1>2. ASSUME NEW a \in Conversation \ GroupChat, NEW c \in Conversation \ GroupChat,
             SetAlias(a, c)
      PROVE  TypeOK'
  BY <1>1, <1>2 DEF SetAlias, Command
<1>3. ASSUME NEW c \in Conversation, NEW d \in Destination, SetRoute(c, d) PROVE TypeOK'
  BY <1>1, <1>3 DEF SetRoute, Command
<1>4. ASSUME NEW c \in Conversation, NEW d \in Destination, ContactRouted(c, d) PROVE TypeOK'
  BY <1>4, CountTypes DEF ContactRouted
<1>5. ASSUME NEW c \in Conversation, NEW s \in Scope, SetScope(c, s) PROVE TypeOK'
  BY <1>1, <1>5 DEF SetScope, Command
<1>6. ASSUME NEW c \in GroupChat, NEW s \in Scope, ApproveGroup(c, s) PROVE TypeOK'
  BY <1>1, <1>6 DEF ApproveGroup, Command
<1>7. ASSUME NEW c \in GroupChat, NameParticipant(c) PROVE TypeOK'
  BY <1>1, <1>7 DEF NameParticipant, Command
<1> QED BY <1>2, <1>3, <1>4, <1>5, <1>6, <1>7 DEF Operate

LEMMA ArrivalTypes ==
  ASSUME TypeOK, (\E i \in Item : Arrive(i)) \/ (\E o \in Reply : Show(o))
  PROVE  TypeOK'
<1> USE DEF TypeOK, bridge, tables, captured, observer, telegram
<1>1. ASSUME NEW i \in Item, Arrive(i) PROVE TypeOK'
  BY <1>1 DEF Arrive, Shown
<1>2. ASSUME NEW o \in Reply, Show(o) PROVE TypeOK'
  <2>1. rows' \in Seq(Reply) /\ todo' \subseteq Shown'
    BY <1>2, ShowKeepsOrder DEF Show
  <2> QED BY <1>2, <2>1 DEF Show
<1> QED BY <1>1, <1>2

LEMMA NextTypes ==
  ASSUME ObserverInvariant, Next
  PROVE  TypeOK'
BY BatchTypes, CycleTypes, ReactionTypes, OperateTypes, ArrivalTypes
   DEF Next, Observe, ObserverInvariant

-----------------------------------------------------------------------------
(* What is recorded stays recorded.                                        *)

LEMMA RecordsStay ==
  ASSUME TypeOK, Next
  PROVE  /\ \A m \in Message : Copies(m) # {} => Copies(m)' # {}
         /\ \A m \in Message : quarantine[m] # None => quarantine'[m] # None
         /\ \A r \in SentRef : receipt'[r] >= receipt[r]
<1> USE DEF TypeOK
<1>1. ASSUME UNCHANGED captured
      PROVE  /\ \A m \in Message : Copies(m) # {} => Copies(m)' # {}
             /\ \A m \in Message : quarantine[m] # None => quarantine'[m] # None
             /\ \A r \in SentRef : receipt'[r] >= receipt[r]
  BY <1>1 DEF captured, Copies
<1>2. ASSUME NEW k \in Receipt, TakeReceipt(k)
      PROVE  UNCHANGED <<stored, quarantine>> /\ \A r \in SentRef : receipt'[r] >= receipt[r]
  BY <1>2, Constants DEF TakeReceipt, RecordOutboundReceipt, Advanced
<1>3. ASSUME NEW n \in Message, Capture(n)
      PROVE  /\ UNCHANGED <<quarantine, receipt>>
             /\ \A m \in Message : Copies(m) # {} => Copies(m)' # {}
  <2>1. /\ stored' = [stored EXCEPT ![n][Target(n)] = scope[Target(n)]]
        /\ scope[Target(n)] # None
    BY <1>3, IdentityTypes, Constants DEF Capture
  <2>2. \A m \in Message : \A c \in Conversation : stored[m][c] # None => stored'[m][c] # None
    BY <2>1, IdentityTypes
  <2> QED BY <1>3, <2>2 DEF Capture, Copies
<1>4. ASSUME NEW n \in Message, Quarantine(n)
      PROVE  /\ UNCHANGED <<stored, receipt>>
             /\ \A m \in Message : quarantine[m] # None => quarantine'[m] # None
  BY <1>4, Constants DEF Quarantine, QuarantineSourceItem
<1>5. CASE \/ \E m \in Message : StagingFails(m) \/ Replay(m)
           \/ \E i \in Item : Retain(i)
           \/ Fetch \/ AckConfirmed \/ AckFails \/ NothingToAck \/ Cleanup \/ EndCycle
  BY <1>1, <1>5 DEF StagingFails, Replay, Retain, Fetch, AckConfirmed, AckFails,
                    NothingToAck, Cleanup, EndCycle
<1>6. CASE \/ \E o \in Reply : React(o) \/ ReactionFails(o) \/ RecordReaction(o)
           \/ Crash
           \/ \E i \in Item : Arrive(i)
           \/ \E o \in Reply : Show(o)
  BY <1>1, <1>6 DEF React, ReactionFails, RecordReaction, Crash, Arrive, Show
<1>7. CASE Operate
  BY <1>1, <1>7 DEF Operate, SetAlias, SetRoute, ContactRouted, SetScope, ApproveGroup,
                    NameParticipant, Command
<1>8. (UNCHANGED stored => \A m \in Message : Copies(m) # {} => Copies(m)' # {})
      /\ \A r \in SentRef : receipt[r] >= receipt[r]
  BY DEF Copies
<1> HIDE DEF TypeOK
<1> QED BY <1>2, <1>3, <1>4, <1>5, <1>6, <1>7, <1>8 DEF Next, Observe

LEMMA RecordedStays ==
  ASSUME TypeOK, TypeOK', Next, NEW i \in Item, Recorded(i)
  PROVE  Recorded(i)'
<1>1. i \in Message => Copies(i)' # {} \/ quarantine'[i] # None
  BY RecordsStay DEF Recorded
<1>2. i \in Receipt => receipt'[Ref[i]] >= Level[i]
  <2> SUFFICES ASSUME i \in Receipt PROVE receipt'[Ref[i]] >= Level[i]
    OBVIOUS
  <2>1. /\ Ref[i] \in SentRef /\ Level[i] \in 2..5
        /\ receipt[Ref[i]] \in 0..5 /\ receipt'[Ref[i]] \in 0..5
    BY Constants DEF TypeOK
  <2>2. receipt'[Ref[i]] >= receipt[Ref[i]] /\ receipt[Ref[i]] >= Level[i]
    BY <2>1, RecordsStay DEF Recorded
  <2> QED BY <2>1, <2>2
<1> QED BY <1>1, <1>2 DEF Recorded

(* What one step adds to the lists of a cycle was put into the ledger by   *)
(* that step, or was there before.                                         *)
LEMMA ListsGrowByRecords ==
  ASSUME TypeOK, TypeOK', Next
  PROVE  /\ \A i \in durable' : i \in durable \/ Recorded(i)'
         /\ \A m \in removable' : m \in removable \/ (m \in Message /\ Copies(m)' # {})
<1>1. ASSUME NEW k \in Receipt, TakeReceipt(k)
      PROVE  Recorded(k)' /\ durable' = durable \cup {k} /\ removable' = removable
  <2>1. /\ k \notin Message /\ Ref[k] \in SentRef /\ Level[k] \in 2..5
        /\ receipt[Ref[k]] \in 0..5
    BY Constants DEF TypeOK
  <2>2. receipt'[Ref[k]] = Advanced(k)
    BY <1>1, <2>1 DEF TakeReceipt, RecordOutboundReceipt, TypeOK
  <2> QED BY <1>1, <2>1, <2>2 DEF TakeReceipt, Recorded, Advanced
<1>2. ASSUME NEW m \in Message, Capture(m)
      PROVE  /\ Recorded(m)' /\ Copies(m)' # {}
             /\ durable' = durable \cup {m} /\ removable' = removable \cup {m}
  <2>1. stored'[m][Target(m)] = scope[Target(m)] /\ Target(m) \in Conversation
    BY <1>2, IdentityTypes DEF Capture, TypeOK
  <2>2. Copies(m)' # {}
    BY <2>1, IdentityTypes, Constants DEF Copies
  <2> QED BY <1>2, <2>2, Constants DEF Capture, Recorded
<1>3. ASSUME NEW m \in Message, Replay(m)
      PROVE  /\ Recorded(m)' /\ Copies(m)' # {}
             /\ durable' = durable \cup {m} /\ removable' = removable \cup {m}
  <2>1. Copies(m)' # {}
    BY <1>3, ReplayIsCaptured DEF Replay, captured, Copies
  <2> QED BY <1>3, <2>1, Constants DEF Replay, Recorded
<1>4. ASSUME NEW m \in Message, Quarantine(m)
      PROVE  durable' = durable \/ (durable' = durable \cup {m} /\ Recorded(m)')
  <2>1. Verdict(m) # None
    BY <1>4, Constants DEF Quarantine
  <2>2. durable' = durable \/ (durable' = durable \cup {m} /\ quarantine'[m] # None)
    BY <1>4, <2>1 DEF Quarantine, QuarantineSourceItem, TypeOK
  <2> QED BY <2>2, Constants DEF Recorded
<1>5. ASSUME NEW m \in Message, Quarantine(m) PROVE removable' = removable
  BY <1>5 DEF Quarantine
<1>6. CASE \/ \E m \in Message : StagingFails(m)
           \/ \E i \in Item : Retain(i)
           \/ Fetch \/ AckConfirmed \/ AckFails \/ NothingToAck \/ Cleanup \/ EndCycle
  BY <1>6 DEF StagingFails, Retain, Fetch, AckConfirmed, AckFails, NothingToAck, Cleanup,
              EndCycle, Collect
<1>7. CASE \/ \E o \in Reply : React(o) \/ ReactionFails(o) \/ RecordReaction(o)
           \/ Crash
           \/ \E i \in Item : Arrive(i)
           \/ \E o \in Reply : Show(o)
  BY <1>7 DEF React, ReactionFails, RecordReaction, Crash, Arrive, Show, observer
<1>8. CASE Operate
  BY <1>8 DEF Operate, SetAlias, SetRoute, ContactRouted, SetScope, ApproveGroup,
              NameParticipant, Command, observer
<1> QED BY <1>1, <1>2, <1>3, <1>4, <1>5, <1>6, <1>7, <1>8 DEF Next, Observe

(* What one step does to the bridge.  It forgets only what is durable, and *)
(* only an acknowledgement leads to the removal of sources, which removes  *)
(* no others than those of the list.                                       *)
LEMMA BridgeStep ==
  ASSUME TypeOK, Next
  PROVE  /\ \A i \in arrived' \ spool' : i \in arrived \ spool \/ i \in durable
         /\ \A i \in spool' : i \in spool \/ i \notin arrived
         /\ \A m \in (HasMedia \cap arrived') \ source' :
              \/ m \in (HasMedia \cap arrived) \ source
              \/ pc = "cleanup" /\ m \in removable /\ spool' = spool
         /\ pc' = "cleanup" =>
              \/ pc = "cleanup" /\ removable' = removable
              \/ spool' = Remaining /\ removable' = removable
<1> USE DEF bridge, TakeItem
<1>1. ASSUME UNCHANGED bridge, UNCHANGED observer \/ pc' # "cleanup"
      PROVE  /\ \A i \in arrived' \ spool' : i \in arrived \ spool \/ i \in durable
             /\ \A i \in spool' : i \in spool \/ i \notin arrived
             /\ \A m \in (HasMedia \cap arrived') \ source' :
                  \/ m \in (HasMedia \cap arrived) \ source
                  \/ pc = "cleanup" /\ m \in removable /\ spool' = spool
             /\ pc' = "cleanup" =>
                  \/ pc = "cleanup" /\ removable' = removable
                  \/ spool' = Remaining /\ removable' = removable
  BY <1>1 DEF observer
<1>2. CASE \/ \E k \in Receipt : TakeReceipt(k)
           \/ \E m \in Message : Capture(m) \/ StagingFails(m) \/ Replay(m) \/ Quarantine(m)
           \/ \E i \in Item : Retain(i)
  <2>1. UNCHANGED bridge /\ pc' # "cleanup"
    BY <1>2 DEF TakeReceipt, Capture, StagingFails, Replay, Quarantine, Retain
  <2> QED BY <1>1, <2>1
<1>3. CASE \/ Fetch \/ NothingToAck \/ EndCycle \/ Crash \/ Operate
           \/ \E o \in Reply : React(o) \/ ReactionFails(o) \/ RecordReaction(o) \/ Show(o)
  <2>1. UNCHANGED bridge /\ (UNCHANGED observer \/ pc' # "cleanup")
    BY <1>3 DEF Fetch, NothingToAck, Collect, EndCycle, Crash, React, ReactionFails,
                RecordReaction, Show, Operate, SetAlias, SetRoute, ContactRouted, SetScope,
                ApproveGroup, NameParticipant, Command
  <2> QED BY <1>1, <2>1
<1>4. CASE AckConfirmed \/ AckFails
  BY <1>4 DEF AckConfirmed, AckFails, Keep, Remaining, Collect
<1>5. CASE Cleanup
  BY <1>5 DEF Cleanup, Collect
<1>6. ASSUME NEW i \in Item, Arrive(i)
      PROVE  /\ \A j \in arrived' \ spool' : j \in arrived \ spool
             /\ \A j \in spool' : j \in spool \/ j \notin arrived
             /\ \A m \in (HasMedia \cap arrived') \ source' :
                  m \in (HasMedia \cap arrived) \ source
             /\ UNCHANGED <<pc, removable>>
  BY <1>6 DEF Arrive, observer
<1> QED BY <1>2, <1>3, <1>4, <1>5, <1>6 DEF Next, Observe

LEMMA MessagesStep ==
  ASSUME ObserverInvariant, TypeOK', Next
  PROVE  /\ DurableIsRecorded' /\ AckedIsDurable'
         /\ RemovableIsCaptured' /\ SourceKeptUntilDurable'
<1> USE DEF ObserverInvariant
<1>0. arrived \subseteq Item /\ durable \subseteq arrived /\ removable \subseteq durable
      /\ removable' \subseteq durable'
  BY DEF TypeOK
<1>1. DurableIsRecorded'
  BY <1>0, ListsGrowByRecords, RecordedStays DEF DurableIsRecorded
<1>2. AckedIsDurable'
  <2>1. \A i \in arrived \ spool : Recorded(i)
    BY DEF AckedIsDurable, Recorded
  <2>2. \A i \in arrived' \ spool' : Recorded(i)'
    BY <1>0, <2>1, BridgeStep, RecordedStays DEF DurableIsRecorded
  <2> QED BY <2>2 DEF AckedIsDurable, Recorded
<1>3. \A m \in Message : Copies(m) # {} => Copies(m)' # {}
  BY RecordsStay
<1>4. RemovableIsCaptured'
  <2>1. removable' \subseteq Message /\ \A m \in removable' : Copies(m)' # {}
    BY <1>3, ListsGrowByRecords DEF RemovableIsCaptured
  <2>2. pc' = "cleanup" => removable' \cap spool' = {}
    BY <1>0, BridgeStep DEF RemovableIsCaptured, Remaining
  <2> QED BY <2>1, <2>2 DEF RemovableIsCaptured
<1>5. SourceKeptUntilDurable'
  <2> SUFFICES ASSUME NEW m \in (HasMedia \cap arrived') \ source'
               PROVE  Copies(m)' # {} /\ m \notin spool'
    BY DEF SourceKeptUntilDurable
  <2>1. CASE m \in (HasMedia \cap arrived) \ source
    <3>1. Copies(m) # {} /\ m \notin spool /\ m \in arrived /\ m \in Message
      BY <2>1, Constants DEF SourceKeptUntilDurable
    <3> QED BY <1>3, <3>1, BridgeStep
  <2>2. CASE pc = "cleanup" /\ m \in removable /\ spool' = spool
    BY <1>3, <2>2 DEF RemovableIsCaptured
  <2> QED BY <2>1, <2>2, BridgeStep
<1> QED BY <1>1, <1>2, <1>4, <1>5

-----------------------------------------------------------------------------
(* Reactions.                                                              *)

ReactionParts == TodoIsProven /\ RecordFollowsReaction /\ ReactionIsProven

(* Receipts only rise, so what they proved they prove still.               *)
LEMMA ProofsStay ==
  ASSUME TypeOK, TypeOK', Next, ReactionIsProven, UNCHANGED telegram
  PROVE  ReactionIsProven'
<1> SUFFICES ASSUME NEW o \in Reply
             PROVE  /\ reaction[o] <= emoji[o]
                    /\ emoji[o] # 0 => \E r \in RemoteIds[o] : receipt'[r] >= emoji[o]
  BY DEF ReactionIsProven, telegram
<1>1. reaction[o] <= emoji[o]
  BY DEF ReactionIsProven
<1>2. ASSUME emoji[o] # 0 PROVE \E r \in RemoteIds[o] : receipt'[r] >= emoji[o]
  <2>1. PICK r \in RemoteIds[o] : receipt[r] >= emoji[o]
    BY <1>2 DEF ReactionIsProven
  <2>2. /\ r \in SentRef /\ emoji[o] \in {0} \cup 3..5
        /\ receipt[r] \in 0..5 /\ receipt'[r] \in 0..5
    BY Constants DEF TypeOK
  <2>3. receipt'[r] >= receipt[r]
    BY <2>2, RecordsStay
  <2> QED BY <2>1, <2>2, <2>3
<1> QED BY <1>1, <1>2

(* While the observer captures, no reply waits for its reaction; a crash   *)
(* forgets those that do.                                                  *)
LEMMA QuietReactions ==
  ASSUME TypeOK, TypeOK', Next, ReactionParts,
         \/ \E k \in Receipt : TakeReceipt(k)
         \/ \E m \in Message : Capture(m) \/ StagingFails(m) \/ Replay(m) \/ Quarantine(m)
         \/ \E i \in Item : Retain(i)
         \/ Fetch \/ AckConfirmed \/ EndCycle \/ Crash
  PROVE  ReactionParts'
<1>1. todo' = {} /\ pc' # "record" /\ UNCHANGED telegram
  BY DEF ReactionParts, TodoIsProven, TakeReceipt, Capture, StagingFails, Replay, Quarantine,
         Retain, TakeItem, Fetch, AckConfirmed, Acknowledging, EndCycle, Crash
<1> QED BY <1>1, ProofsStay DEF ReactionParts, TodoIsProven, RecordFollowsReaction

LEMMA CollectReactions ==
  ASSUME TypeOK, TypeOK', Next, ReactionParts, AckFails \/ NothingToAck \/ Cleanup
  PROVE  ReactionParts'
<1>1. /\ todo' = Outdated(Candidates) /\ pc' = "react"
      /\ UNCHANGED <<receipt, telegram>>
  BY DEF AckFails, NothingToAck, Cleanup, Collect, captured
<1>2. \A o \in todo' : Proven(o) # {} /\ Largest(Proven(o)) > reaction[o]
  BY <1>1 DEF Outdated, Candidates
<1>3. TodoIsProven'
  BY <1>1, <1>2 DEF TodoIsProven, Proven, telegram
<1> QED BY <1>1, <1>3, ProofsStay DEF ReactionParts, RecordFollowsReaction

(* The operator, the bridge and other replies do not touch a reaction.     *)
LEMMA OtherReactions ==
  ASSUME TypeOK, TypeOK', Next, ReactionParts,
         Operate \/ (\E i \in Item : Arrive(i)) \/ (\E o \in Reply : Show(o))
  PROVE  ReactionParts'
<1>1. UNCHANGED <<receipt, pc, todo, emoji, reaction>>
  BY DEF Operate, SetAlias, SetRoute, ContactRouted, SetScope, ApproveGroup, NameParticipant,
         Command, Arrive, Show, captured, observer, telegram
<1>2. TodoIsProven'
  BY <1>1 DEF ReactionParts, TodoIsProven, Proven
<1>3. \A o, q \in todo : Before(o, q) <=> Before(o, q)'
  <2>1. UNCHANGED rows \/ \E o \in Reply : Show(o)
    BY DEF Operate, SetAlias, SetRoute, ContactRouted, SetScope, ApproveGroup,
           NameParticipant, Command, Arrive
  <2>2. UNCHANGED rows => \A o, q \in todo : Before(o, q) <=> Before(o, q)'
    BY DEF Before
  <2>3. (\E o \in Reply : Show(o)) => \A o, q \in todo : Before(o, q) <=> Before(o, q)'
    BY ShowKeepsOrder DEF TypeOK
  <2> QED BY <2>1, <2>2, <2>3
<1>4. \A o \in todo : Turn(o)' => Turn(o)
  BY <1>1, <1>3 DEF Turn
<1>5. RecordFollowsReaction'
  BY <1>1, <1>4 DEF ReactionParts, RecordFollowsReaction, Proven
<1>6. ReactionIsProven'
  BY <1>1, ProofsStay DEF ReactionParts, telegram
<1> QED BY <1>2, <1>5, <1>6 DEF ReactionParts

(* Setting the emoji of a reply whose turn it is never takes one back.     *)
LEMMA EmojiRises ==
  ASSUME TypeOK, TodoIsProven, ReactionIsProven, NEW o \in todo
  PROVE  /\ o \in Reply /\ reaction[o] < Largest(Proven(o)) /\ emoji[o] <= Largest(Proven(o))
         /\ Largest(Proven(o)) \in 3..5
         /\ \E r \in RemoteIds[o] : receipt[r] >= Largest(Proven(o))
<1>1. o \in Reply
  BY ElementOfSeq, LenProperties DEF TypeOK, Shown
<1>2. /\ Largest(Proven(o)) \in 3..5 /\ Largest(Proven(o)) > reaction[o]
      /\ \E r \in RemoteIds[o] : receipt[r] = Largest(Proven(o))
  BY <1>1, ProvenIsAReceipt DEF TodoIsProven
<1>3. emoji[o] \in {0} \cup 3..5 /\ reaction[o] \in {0} \cup 3..5
  BY <1>1 DEF TypeOK
<1>4. emoji[o] <= Largest(Proven(o))
  <2>1. CASE emoji[o] = 0
    BY <1>2, <2>1
  <2>2. CASE emoji[o] # 0
    <3>1. PICK r \in RemoteIds[o] : receipt[r] >= emoji[o]
      BY <1>1, <2>2 DEF ReactionIsProven
    <3>2. receipt[r] \in 0..5
      BY <1>1, Constants DEF TypeOK
    <3>3. receipt[r] >= 3
      BY <1>3, <2>2, <3>1, <3>2
    <3>4. receipt[r] <= Largest(Proven(o))
      BY <1>1, <3>3, ProvenIsAReceipt
    <3> QED BY <1>2, <1>3, <3>1, <3>2, <3>4
  <2> QED BY <2>1, <2>2
<1> QED BY <1>1, <1>2, <1>3, <1>4

LEMMA ReactingReactions ==
  ASSUME TypeOK, ReactionParts, NEW o \in Reply,
         React(o) \/ ReactionFails(o) \/ RecordReaction(o)
  PROVE  ReactionParts'
<1> DEFINE best == Largest(Proven(o))
<1>1. /\ o \in todo /\ Turn(o)
      /\ reaction[o] < best /\ emoji[o] <= best /\ best \in 3..5
      /\ \E r \in RemoteIds[o] : receipt[r] >= best
  BY EmojiRises DEF ReactionParts, React, ReactionFails, RecordReaction, Turn
<1>2. UNCHANGED <<receipt, rows>> /\ \A q : Proven(q)' = Proven(q)
  BY DEF React, ReactionFails, RecordReaction, captured, Proven
<1>3. /\ emoji' \in {emoji, [emoji EXCEPT ![o] = best]}
      /\ reaction' = reaction \/ (emoji' = emoji /\ reaction' = [reaction EXCEPT ![o] = best])
  BY DEF React, ReactionFails, RecordReaction, SetEmoji
<1>4. ReactionIsProven'
  <2>1. ASSUME RecordReaction(o) PROVE emoji[o] = best
    BY <1>1, <2>1 DEF RecordReaction, ReactionParts, RecordFollowsReaction
  <2>2. ASSUME NEW q \in Reply, q # o
        PROVE  reaction'[q] = reaction[q] /\ emoji'[q] = emoji[q]
    BY <1>3, <2>2 DEF TypeOK
  <2>3. reaction'[o] <= emoji'[o]
    <3>1. CASE RecordReaction(o)
      BY <1>1, <2>1, <3>1 DEF RecordReaction, TypeOK
    <3>2. CASE React(o) \/ ReactionFails(o)
      <4>1. reaction'[o] = reaction[o] /\ emoji'[o] \in {emoji[o], best}
        BY <1>3, <3>2 DEF React, ReactionFails, TypeOK
      <4> HIDE DEF best
      <4>2. reaction[o] \in 0..5 /\ reaction[o] <= emoji[o]
        BY DEF ReactionParts, ReactionIsProven, TypeOK
      <4> QED BY <1>1, <4>1, <4>2
    <3> QED BY <3>1, <3>2
  <2>4. emoji'[o] # 0 => \E r \in RemoteIds[o] : receipt[r] >= emoji'[o]
    <3>1. emoji'[o] \in {emoji[o], best}
      BY <1>3 DEF TypeOK
    <3> HIDE DEF best
    <3> QED BY <1>1, <3>1 DEF ReactionParts, ReactionIsProven
  <2> QED BY <1>2, <2>2, <2>3, <2>4 DEF ReactionParts, ReactionIsProven
<1>5. TodoIsProven'
  <2>1. \A q \in todo' : q \in todo /\ (q # o \/ reaction' = reaction)
    BY DEF React, ReactionFails, RecordReaction
  <2>2. \A q \in todo' : reaction'[q] = reaction[q]
    <3>1. reaction' = reaction \/ reaction' = [reaction EXCEPT ![o] = best]
      BY <1>3
    <3>2. \A q \in todo : q \in Reply
      BY EmojiRises DEF ReactionParts
    <3> HIDE DEF best
    <3> QED BY <2>1, <3>1, <3>2 DEF TypeOK
  <2>3. pc' \in {"react", "record"}
    BY DEF React, ReactionFails, RecordReaction
  <2> QED BY <1>2, <2>1, <2>2, <2>3 DEF ReactionParts, TodoIsProven
<1>6. RecordFollowsReaction'
  <2>1. CASE React(o)
    <3>1. ASSUME NEW q \in todo', Turn(q)' PROVE q = o
      <4>1. q \in todo /\ Turn(q)
        BY <2>1, <3>1 DEF React, Turn, Before
      <4> QED BY <1>1, <4>1, TurnIsUnique
    <3>2. emoji'[o] = best
      BY <2>1 DEF React, SetEmoji, TypeOK
    <3> QED BY <1>2, <3>1, <3>2 DEF RecordFollowsReaction
  <2>2. CASE ReactionFails(o) \/ RecordReaction(o)
    BY <2>2 DEF ReactionFails, RecordReaction, RecordFollowsReaction
  <2> QED BY <2>1, <2>2
<1> QED BY <1>4, <1>5, <1>6 DEF ReactionParts

LEMMA ReactionsStep ==
  ASSUME ObserverInvariant, TypeOK', Next
  PROVE  ReactionParts'
<1>1. TypeOK /\ ReactionParts
  BY DEF ObserverInvariant, ReactionParts
<1> QED BY <1>1, QuietReactions, CollectReactions, OtherReactions, ReactingReactions
        DEF Next, Observe

-----------------------------------------------------------------------------
(* The theorems.                                                           *)

LEMMA NextHolds == ObserverInvariant /\ [Next]_vars => ObserverInvariant'
<1> SUFFICES ASSUME ObserverInvariant, [Next]_vars PROVE ObserverInvariant'
  OBVIOUS
<1>1. CASE Next
  BY <1>1, NextTypes, MessagesStep, ReactionsStep DEF ObserverInvariant, ReactionParts
<1>2. CASE UNCHANGED vars
  <2> USE <1>2 DEF vars, bridge, tables, captured, observer, telegram, ObserverInvariant
  <2>1. TypeOK'
    BY DEF TypeOK, Shown
  <2>2. DurableIsRecorded' /\ AckedIsDurable' /\ RemovableIsCaptured' /\ SourceKeptUntilDurable'
    BY DEF DurableIsRecorded, AckedIsDurable, RemovableIsCaptured, SourceKeptUntilDurable,
           Recorded, Copies
  <2>3. TodoIsProven' /\ RecordFollowsReaction' /\ ReactionIsProven'
    <3>1. \A o : Proven(o)' = Proven(o) /\ (Turn(o)' <=> Turn(o))
      BY DEF Proven, Turn, Before
    <3> QED BY <3>1 DEF TodoIsProven, RecordFollowsReaction, ReactionIsProven
  <2> QED BY <2>1, <2>2, <2>3
<1> QED BY <1>1, <1>2

(* What an observer's cycle relies on from one step to the next holds in   *)
(* every state, with any number of items, replies, failures, crashes and   *)
(* operator commands.                                                      *)
THEOREM ObserverCorrect == Spec => []ObserverInvariant
BY InitHolds, NextHolds, PTL DEF Spec

(* Every variable of the observer, its tables and the bridge keeps to its  *)
(* type; what is acknowledged was held by the bridge.                      *)
THEOREM ObserverTypes == Spec => []TypeOK
BY ObserverCorrect, PTL DEF ObserverInvariant

(* No message or receipt is acknowledged to the bridge, which deletes the  *)
(* only other copy, before the ledger has it: whatever answer of the       *)
(* acknowledgement was lost, wherever the observer crashed, and although   *)
(* the operator reroutes and renames conversations meanwhile.              *)
THEOREM NoItemIsLost == Spec => []AckedIsDurable
BY ObserverCorrect, PTL DEF ObserverInvariant

(* The bridge's file of an attachment is removed only after its message    *)
(* was captured and its acknowledgement confirmed: a message that will be  *)
(* handed out again finds its file.                                        *)
THEOREM SourcesAreKept == Spec => []SourceKeptUntilDurable
BY ObserverCorrect, PTL DEF ObserverInvariant

(* A recorded reaction is shown in Telegram, and what is shown is proved   *)
(* by a provider's receipt, also when the answer to a reaction was lost.   *)
THEOREM ReactionsAreTrue == Spec => []ReactionIsProven
BY ObserverCorrect, PTL DEF ObserverInvariant

(* A reaction in Telegram never goes back to a lower state, though its     *)
(* record may lag behind it after a failure or a crash.                    *)
THEOREM ReactionsRise == Spec => ReactionNeverRegresses
<1>1. ObserverInvariant /\ [Next]_vars => [\A o \in Reply : emoji'[o] >= emoji[o]]_vars
  <2> SUFFICES ASSUME ObserverInvariant, Next, NEW o \in Reply PROVE emoji'[o] >= emoji[o]
    OBVIOUS
  <2>1. emoji[o] \in 0..5
    BY DEF ObserverInvariant, TypeOK
  <2>2. ASSUME NEW q \in Reply, React(q) \/ ReactionFails(q) \/ RecordReaction(q)
        PROVE  emoji'[o] >= emoji[o]
    <3>1. emoji' = emoji \/ emoji' = [emoji EXCEPT ![q] = Largest(Proven(q))]
      BY <2>2 DEF React, ReactionFails, RecordReaction, SetEmoji
    <3>2. emoji[q] <= Largest(Proven(q))
      BY <2>2, EmojiRises DEF ObserverInvariant, React, ReactionFails, RecordReaction, Turn
    <3> QED BY <2>1, <3>1, <3>2 DEF ObserverInvariant, TypeOK
  <2>3. CASE \/ \E k \in Receipt : TakeReceipt(k)
             \/ \E m \in Message : Capture(m) \/ StagingFails(m) \/ Replay(m) \/ Quarantine(m)
             \/ \E i \in Item : Retain(i)
             \/ Fetch \/ AckConfirmed \/ AckFails \/ NothingToAck \/ Cleanup \/ EndCycle
             \/ Crash
    BY <2>1, <2>3 DEF TakeReceipt, Capture, StagingFails, Replay, Quarantine, Retain, Fetch,
                      AckConfirmed, AckFails, NothingToAck, Cleanup, EndCycle, Crash, telegram
  <2>4. CASE Operate \/ (\E i \in Item : Arrive(i)) \/ (\E n \in Reply : Show(n))
    BY <2>1, <2>4 DEF Operate, SetAlias, SetRoute, ContactRouted, SetScope, ApproveGroup,
                      NameParticipant, Command, Arrive, Show, telegram
  <2> QED BY <2>2, <2>3, <2>4 DEF Next, Observe
<1> QED BY <1>1, ObserverCorrect, PTL DEF Spec, ReactionNeverRegresses

=============================================================================
