----------------------------- MODULE HubProofs ------------------------------
(***************************************************************************)
(* Theorems about Hub, for every number of connections, names, sessions    *)
(* and messages and every value of the time limits.                        *)
(***************************************************************************)
EXTENDS Hub, TLAPS

USE DEF Keys, NameLevel, Addresses, MsgIds, NoMsg, MaybeConn, MaybeKey, MaybeCwd,
        Tell, Ask, Reply, Kinds

-----------------------------------------------------------------------------
(* What the helpers return *)

\* The sentinels belong to their record types.
LEMMA Sentinels ==
    /\ NoEntry \in Entries
    /\ NoPending \in PendingRecords
    /\ NoAsk \in AskRecords
    /\ NoRow \in Rows
    /\ NoLetter \in Letters
BY TTLAssumption, MailTTLAssumption
   DEF NoEntry, Entries, NoPending, PendingRecords, NoAsk, AskRecords, NoRow, Rows,
       NoLetter, Letters, Ages

\* Growing older stays within the bounds of an age.
LEMMA OlderType ==
    ASSUME NEW ttl \in Nat, NEW n \in Ages(ttl)
    PROVE  Older(n, ttl) \in Ages(ttl)
BY DEF Older, Ages

\* The mailbox operators return mailboxes.
LEMMA PutType ==
    ASSUME NEW b \in Boxes, NEW m \in MsgIds, NEW to \in Addresses
    PROVE  Put(b, m, to) \in Boxes
BY MailTTLAssumption DEF Put, Boxes, Rows, Ages

LEMMA TakeType ==
    ASSUME NEW b \in Boxes, NEW key
    PROVE  Take(b, key) \in Boxes
BY Sentinels DEF Take, Boxes

LEMMA PruneType ==
    ASSUME NEW b \in Boxes
    PROVE  Prune(b) \in Boxes
BY Sentinels DEF Prune, Boxes

LEMMA AgeRowsType ==
    ASSUME NEW b \in Boxes
    PROVE  AgeRows(b) \in Boxes
<1> SUFFICES ASSUME NEW m \in MsgIds
             PROVE  AgeRows(b)[m] \in Rows
    BY DEF AgeRows, Boxes
<1>1. b[m] \in Rows  BY DEF Boxes
<1>2. Older(b[m].age, MailTTL) \in Ages(MailTTL)
    BY <1>1, OlderType, MailTTLAssumption DEF Rows
<1> QED BY <1>1, <1>2, Sentinels DEF AgeRows, Rows

\* Refreshing last_seen and going offline leave a registry a registry.
LEMMA TouchedType ==
    ASSUME TypeOK, NEW c \in Conns
    PROVE  Touched(c) \in [Keys -> Entries]
<1>1. CASE identity_map[c] = NoKey
    BY <1>1 DEF TypeOK, Touched
<1>2. CASE identity_map[c] # NoKey
    <2> DEFINE key == identity_map[c]
    <2>1. key \in Keys  BY <1>2 DEF TypeOK
    <2>2. registry[key] \in Entries  BY <2>1 DEF TypeOK
    <2>3. [registry[key] EXCEPT !.age = 0] \in Entries
        BY <2>2, TTLAssumption DEF Entries, Ages
    <2>4. Touched(c) = [registry EXCEPT ![key] = [registry[key] EXCEPT !.age = 0]]
        BY <1>2 DEF Touched
    <2> HIDE DEF key
    <2> QED BY <2>1, <2>3, <2>4 DEF TypeOK
<1> QED BY <1>1, <1>2

LEMMA OfflineType ==
    ASSUME NEW reg \in [Keys -> Entries], NEW key \in Keys
    PROVE  Offline(reg, key) \in [Keys -> Entries]
<1>1. \A e \in Entries : [e EXCEPT !.online = FALSE] \in Entries
    BY DEF Entries
<1>2. \A e \in Entries : [e EXCEPT !.age = 0] \in Entries
    BY TTLAssumption DEF Entries, Ages
<1>3. \A e \in Entries : [e EXCEPT !.online = FALSE, !.age = 0]
                           = [[e EXCEPT !.online = FALSE] EXCEPT !.age = 0]
    BY DEF Entries
<1>4. [reg[key] EXCEPT !.online = FALSE, !.age = 0] \in Entries
    BY <1>1, <1>2, <1>3
<1> QED BY <1>4 DEF Offline

\* A 'to' stands for addresses.
LEMMA TargetsType ==
    ASSUME NEW reg, NEW to \in Addresses, NEW key \in Targets(reg, to)
    PROVE  key \in Addresses
BY DEF Targets, LatestLive, Freshest

LEMMA UnmappedType ==
    ASSUME TypeOK, NEW c
    PROVE  Unmapped(c) \in [Conns -> MaybeKey]
BY DEF TypeOK, Unmapped

LEMMA WrittenType ==
    ASSUME TypeOK, NEW c, NEW ms \in SUBSET MsgIds, Written(c, ms)
    PROVE  inbox' \in [Conns -> SUBSET MsgIds]
BY DEF TypeOK, WireTypeOK, Written, Reaches

LEMMA PostType ==
    ASSUME TypeOK, NEW m \in MsgIds, NEW kind \in Kinds, NEW to \in Addresses \cup {NoKey},
           NEW re \in MsgIds \cup {NoMsg},
           NEW status \in {"unsent", "delivered", "queued", "lost", "refused"},
           Post(m, kind, to, re, status)
    PROVE  letters' \in [MsgIds -> Letters]
BY DEF TypeOK, Post, Letters

\* What a delivery changes keeps its type.
LEMMA DeliverType ==
    ASSUME TypeOK, NEW reg \in [Keys -> Entries], NEW m \in MsgIds, NEW key \in Addresses,
           NEW kind \in Kinds, NEW re \in MsgIds \cup {NoMsg},
           DeliverToSession(reg, m, key, kind, re)
    PROVE  /\ registry' \in [Keys -> Entries]
           /\ announced' \in [Keys -> {"none", "up", "down"}]
           /\ box' \in Boxes
           /\ inbox' \in [Conns -> SUBSET MsgIds]
           /\ letters' \in [MsgIds -> Letters]
<1> DEFINE entry == EntryAt(reg, key)
<1>1. CASE /\ entry.online /\ Reaches(entry.identity)
           /\ Written(entry.identity, {m})
           /\ Post(m, kind, key, re, "delivered")
           /\ registry' = reg
           /\ UNCHANGED <<announced, box>>
    BY <1>1, WrittenType, PostType DEF TypeOK
<1>2. CASE /\ ~(entry.online /\ Reaches(entry.identity))
           /\ registry' = IF entry.online THEN Offline(reg, key) ELSE reg
           /\ announced' = IF entry.online THEN [announced EXCEPT ![key] = "down"] ELSE announced
           /\ box' = Put(box, m, key)
           /\ Post(m, kind, key, re, "queued")
           /\ UNCHANGED inbox
    <2>1. entry.online => key \in Keys
        BY DEF EntryAt, NoEntry
    <2>2. registry' \in [Keys -> Entries]
        BY <1>2, <2>1, OfflineType
    <2> QED BY <1>2, <2>1, <2>2, PutType, PostType DEF TypeOK, WireTypeOK
<1> QED BY <1>1, <1>2 DEF DeliverToSession

-----------------------------------------------------------------------------
(* Type correctness *)

\* The registry's record for a session that is taken up by a connection.
LEMMA BoundType ==
    ASSUME NEW reg \in [Keys -> Entries], NEW key \in Keys, NEW c \in Conns, NEW cwd \in MaybeCwd
    PROVE  [reg EXCEPT ![key] = [identity |-> c, online |-> TRUE, age |-> 0, cwd |-> cwd]]
              \in [Keys -> Entries]
BY TTLAssumption DEF Entries, Ages

LEMMA InitType == Init => TypeOK
<1> SUFFICES ASSUME Init PROVE TypeOK
    OBVIOUS
<1> QED
    BY Sentinels, MaxMsgsAssumption, TTLAssumption
    DEF Init, TypeOK, WireInit, WireTypeOK, EmptyBox, Boxes

\* A hello or a poll, refused or not, keeps the types.
LEMMA BindType ==
    ASSUME TypeOK, NEW c \in Conns, NEW key \in Keys, NEW cwd \in CwdField,
           \/ OnHello(c, key, cwd)
           \/ OnHelloBadCwd(c, key, cwd)
           \/ OnPoll(c, key, cwd)
           \/ OnPollBadCwd(c, key, cwd)
    PROVE  TypeOK'
<1>1. owed' \in [Conns -> BOOLEAN] /\ hub' \in {"running", "stopped", "dead"}
    BY DEF OnHello, OnHelloBadCwd, OnPoll, OnPollBadCwd, Frame, Received, Acked, Failed,
           TypeOK, WireTypeOK
<1>2. Touched(c) \in [Keys -> Entries]
    BY TouchedType
<1>3. identity_map' \in [Conns -> MaybeKey]
    <2>1. Unmapped(registry[key].identity) \in [Conns -> MaybeKey]
        BY UnmappedType
    <2>2. \A f \in [Conns -> MaybeKey] : [f EXCEPT ![c] = key] \in [Conns -> MaybeKey]
        OBVIOUS
    <2>3. identity_map \in [Conns -> MaybeKey]
        BY DEF TypeOK
    <2> QED BY <2>1, <2>2, <2>3 DEF OnHello, OnHelloBadCwd, OnPoll, OnPollBadCwd, Resolve
<1>4. registry[key].cwd \in MaybeCwd
    BY DEF TypeOK, Entries
<1>5. CASE OnHello(c, key, cwd)
    <2>1. registry' \in [Keys -> Entries]
        <3>1. (IF cwd = NoCwd THEN registry[key].cwd ELSE cwd) \in MaybeCwd
            BY <1>4, <1>5 DEF OnHello, CheckCwd, CwdField
        <3> QED BY <1>2, <1>5, <3>1, BoundType DEF OnHello
    <2>2. box' \in Boxes
        BY <1>5, TakeType DEF OnHello, Drain, TypeOK
    <2>3. inbox' \in [Conns -> SUBSET MsgIds]
        BY <1>5, WrittenType DEF OnHello, Drain, MailFor
    <2>4. announced' \in [Keys -> {"none", "up", "down"}]
        BY <1>5 DEF OnHello, SetOnline, TypeOK
    <2> QED
        BY <1>1, <1>3, <1>5, <2>1, <2>2, <2>3, <2>4 DEF OnHello, TypeOK, WireTypeOK
<1>6. CASE OnHelloBadCwd(c, key, cwd)
    BY <1>1, <1>2, <1>3, <1>6 DEF OnHelloBadCwd, history, TypeOK, WireTypeOK
<1>7. ASSUME Resolve(c, key, cwd)
      PROVE  /\ registry' \in [Keys -> Entries]
             /\ announced' \in [Keys -> {"none", "up", "down"}]
    <2>1. (IF cwd \in Cwds THEN cwd ELSE registry[key].cwd) \in MaybeCwd
        BY <1>4
    <2>2. registry' \in [Keys -> Entries]
        BY <1>2, <1>7, <2>1, BoundType DEF Resolve
    <2>3. announced' \in [Keys -> {"none", "up", "down"}]
        BY <1>7 DEF Resolve, SetOnline, TypeOK
    <2> QED BY <2>2, <2>3
<1>8. CASE OnPoll(c, key, cwd)
    <2>1. box' \in Boxes
        BY <1>8, TakeType DEF OnPoll, Drain, TypeOK
    <2>2. inbox' \in [Conns -> SUBSET MsgIds]
        BY <1>8, WrittenType DEF OnPoll, Drain, MailFor
    <2> QED
        BY <1>1, <1>3, <1>7, <1>8, <2>1, <2>2 DEF OnPoll, TypeOK, WireTypeOK
<1>9. CASE OnPollBadCwd(c, key, cwd)
    BY <1>1, <1>3, <1>7, <1>9 DEF OnPollBadCwd, TypeOK, WireTypeOK
<1> QED BY <1>5, <1>6, <1>8, <1>9

\* The other handlers that do not send.
LEMMA SessionType ==
    ASSUME TypeOK, NEW c \in Conns,
           \/ OnPollMapped(c)
           \/ \E key \in Keys : OnBye(c, key)
           \/ OnByeMapped(c)
           \/ OnQuery(c)
           \/ OnBadRequest(c)
           \/ LoopDies(c)
    PROVE  TypeOK'
<1>1. owed' \in [Conns -> BOOLEAN] /\ hub' \in {"running", "stopped", "dead"}
    BY DEF OnPollMapped, OnBye, OnByeMapped, OnQuery, OnBadRequest, LoopDies, Frame, Received,
           Acked, Failed, TypeOK, WireTypeOK
<1>2. Touched(c) \in [Keys -> Entries]
    BY TouchedType
<1>3. ASSUME NEW key \in Keys, GoesOffline(c, key)
      PROVE  registry' \in [Keys -> Entries] /\ announced' \in [Keys -> {"none", "up", "down"}]
    <2>1. registry' \in [Keys -> Entries]
        BY <1>2, <1>3, OfflineType DEF GoesOffline
    <2> QED BY <1>3, <2>1 DEF GoesOffline, TypeOK
<1>4. CASE OnPollMapped(c)
    <2>1. box' \in Boxes
        BY <1>4, TakeType DEF OnPollMapped, Drain, TypeOK
    <2>2. inbox' \in [Conns -> SUBSET MsgIds]
        BY <1>4, WrittenType DEF OnPollMapped, Drain, MailFor
    <2> QED BY <1>1, <1>2, <1>4, <2>1, <2>2 DEF OnPollMapped, history, TypeOK, WireTypeOK
<1>5. ASSUME NEW key \in Keys, OnBye(c, key)
      PROVE  TypeOK'
    <2>1. CASE registry[key] # NoEntry /\ identity_map' = Unmapped(registry[key].identity)
               /\ GoesOffline(c, key)
        BY <1>1, <1>3, <1>5, <2>1, UnmappedType DEF OnBye, TypeOK, WireTypeOK
    <2>2. CASE registry' = Touched(c) /\ UNCHANGED <<identity_map, announced>>
        BY <1>1, <1>2, <1>5, <2>2 DEF OnBye, TypeOK, WireTypeOK
    <2> QED BY <1>5, <2>1, <2>2 DEF OnBye
<1>6. CASE OnByeMapped(c)
    <2>1. identity_map' \in [Conns -> MaybeKey]
        BY <1>6, UnmappedType DEF OnByeMapped
    <2>2. registry' \in [Keys -> Entries] /\ announced' \in [Keys -> {"none", "up", "down"}]
        <3>1. identity_map[c] \in MaybeKey
            BY DEF TypeOK
        <3> QED BY <1>3, <1>6, <3>1 DEF OnByeMapped, TypeOK
    <2> QED BY <1>1, <1>6, <2>1, <2>2 DEF OnByeMapped, TypeOK, WireTypeOK
<1>7. CASE OnQuery(c)
    BY <1>1, <1>2, <1>7 DEF OnQuery, history, TypeOK, WireTypeOK
<1>8. CASE OnBadRequest(c)
    BY <1>1, <1>2, <1>8 DEF OnBadRequest, history, TypeOK, WireTypeOK
<1>9. CASE LoopDies(c)
    BY <1>1, <1>9 DEF LoopDies, memory, history, TypeOK, WireTypeOK
<1> QED BY <1>4, <1>5, <1>6, <1>7, <1>8, <1>9

\* What every send does first keeps its types.
LEMMA SendFrameType ==
    ASSUME TypeOK, NEW c \in Conns, SendFrame(c)
    PROVE  /\ sent + 1 \in MsgIds
           /\ sent' = sent + 1 /\ sent' \in 0..MaxMsgs
           /\ pending' \in [MsgIds -> PendingRecords]
           /\ owed' \in [Conns -> BOOLEAN]
           /\ Touched(c) \in [Keys -> Entries]
           /\ UNCHANGED <<identity_map, starts, client, route>>
<1>1. sent + 1 \in MsgIds /\ sent' = sent + 1 /\ sent' \in 0..MaxMsgs
    BY MaxMsgsAssumption DEF SendFrame, TypeOK
<1>2. pending' \in [MsgIds -> PendingRecords]
    BY <1>1, TTLAssumption DEF SendFrame, TypeOK, PendingRecords, Ages
<1>3. owed' \in [Conns -> BOOLEAN]
    BY DEF SendFrame, Frame, Received, TypeOK, WireTypeOK
<1> QED BY <1>1, <1>2, <1>3, TouchedType DEF SendFrame

\* After a send, TypeOK' is left to what the send itself changed.
LEMMA SendAssembled ==
    ASSUME TypeOK, NEW c \in Conns, SendFrame(c),
           hub' \in {"running", "stopped", "dead"},
           registry' \in [Keys -> Entries],
           asks' \in [MsgIds -> AskRecords],
           announced' \in [Keys -> {"none", "up", "down"}],
           box' \in Boxes,
           inbox' \in [Conns -> SUBSET MsgIds],
           letters' \in [MsgIds -> Letters]
    PROVE  TypeOK'
<1>1. /\ sent' \in 0..MaxMsgs
      /\ pending' \in [MsgIds -> PendingRecords]
      /\ owed' \in [Conns -> BOOLEAN]
      /\ UNCHANGED <<identity_map, starts, client, route>>
    BY SendFrameType
<1> QED BY <1>1 DEF TypeOK, WireTypeOK

\* The three ways a send ends keep the types of what they change.
LEMMA RefusedType ==
    ASSUME TypeOK, NEW c \in Conns, NEW m \in MsgIds, NEW re \in MsgIds \cup {NoMsg},
           Refused(c, m, re)
    PROVE  /\ registry' \in [Keys -> Entries]
           /\ letters' \in [MsgIds -> Letters]
           /\ hub' \in {"running", "stopped", "dead"}
           /\ UNCHANGED <<announced, box, inbox>>
<1>1. letters' \in [MsgIds -> Letters]
    BY PostType DEF Refused
<1>2. registry' \in [Keys -> Entries]
    BY TouchedType DEF Refused
<1> QED BY <1>1, <1>2 DEF Refused, Failed, TypeOK

LEMMA RoutedType ==
    ASSUME TypeOK, NEW c \in Conns, NEW target, NEW m \in MsgIds, NEW kind \in Kinds,
           NEW re \in MsgIds \cup {NoMsg}, RoutedTo(c, target, m, kind, re)
    PROVE  /\ registry' \in [Keys -> Entries]
           /\ letters' \in [MsgIds -> Letters]
           /\ inbox' \in [Conns -> SUBSET MsgIds]
           /\ hub' = hub
           /\ UNCHANGED <<announced, box>>
<1>1. letters' \in [MsgIds -> Letters]
    BY PostType DEF RoutedTo
<1>2. registry' \in [Keys -> Entries]
    BY TouchedType DEF RoutedTo
<1>3. inbox' \in [Conns -> SUBSET MsgIds]
    BY WrittenType DEF RoutedTo
<1> QED BY <1>1, <1>2, <1>3 DEF RoutedTo, Acked

LEMMA SendReplyType ==
    ASSUME TypeOK, NEW c \in Conns, NEW re \in MsgIds, SendReply(c, re)
    PROVE  TypeOK'
<1> DEFINE m == sent + 1
<1>1. m \in MsgIds /\ SendFrame(c)
    BY SendFrameType DEF SendReply
<1>2. asks' \in [MsgIds -> AskRecords]
    BY Sentinels DEF SendReply, Settled, TypeOK
<1>3. ReplyKind(re) \in Kinds /\ OpenAsk(re) \in MsgIds \cup {NoMsg}
    BY DEF ReplyKind, OpenAsk
<1>4. Touched(c) \in [Keys -> Entries]
    BY TouchedType
<1> HIDE DEF m
<1>5. CASE RoutedTo(c, ReplyTarget(re), m, ReplyKind(re), OpenAsk(re))
    <2>1. /\ registry' \in [Keys -> Entries]
          /\ letters' \in [MsgIds -> Letters]
          /\ inbox' \in [Conns -> SUBSET MsgIds]
          /\ hub' = hub
          /\ UNCHANGED <<announced, box>>
        BY <1>1, <1>3, <1>5, RoutedType
    <2> QED BY <1>1, <1>2, <2>1, SendAssembled DEF TypeOK
<1>6. ASSUME NEW to \in Addresses, NEW key \in Targets(Touched(c), to),
             DeliverToSession(Touched(c), m, key, ReplyKind(re), OpenAsk(re)),
             Acked
      PROVE  TypeOK'
    <2>1. key \in Addresses
        BY TargetsType
    <2>2. /\ registry' \in [Keys -> Entries]
          /\ announced' \in [Keys -> {"none", "up", "down"}]
          /\ box' \in Boxes
          /\ inbox' \in [Conns -> SUBSET MsgIds]
          /\ letters' \in [MsgIds -> Letters]
        BY <1>1, <1>3, <1>4, <1>6, <2>1, DeliverType
    <2> QED BY <1>1, <1>2, <1>6, <2>2, SendAssembled DEF TypeOK, Acked
<1>7. CASE Refused(c, m, OpenAsk(re))
    <2>1. /\ registry' \in [Keys -> Entries]
          /\ letters' \in [MsgIds -> Letters]
          /\ hub' \in {"running", "stopped", "dead"}
          /\ UNCHANGED <<announced, box, inbox>>
        BY <1>1, <1>3, <1>7, RefusedType
    <2> QED BY <1>1, <1>2, <2>1, SendAssembled DEF TypeOK, WireTypeOK
<1> QED BY <1>5, <1>6, <1>7 DEF SendReply, m

LEMMA SendThroughType ==
    ASSUME TypeOK, NEW c \in Conns, NEW kind \in Kinds, NEW re \in MsgIds,
           SendThrough(c, kind, re)
    PROVE  TypeOK'
<1> DEFINE m == sent + 1
<1>1. m \in MsgIds /\ SendFrame(c) /\ asks' \in [MsgIds -> AskRecords]
    BY SendFrameType DEF SendThrough, TypeOK
<1> HIDE DEF m
<1>2. CASE RoutedTo(c, pending[re].conn, m, kind, NoMsg)
    <2>1. /\ registry' \in [Keys -> Entries]
          /\ letters' \in [MsgIds -> Letters]
          /\ inbox' \in [Conns -> SUBSET MsgIds]
          /\ hub' = hub
          /\ UNCHANGED <<announced, box>>
        BY <1>1, <1>2, RoutedType
    <2> QED BY <1>1, <2>1, SendAssembled DEF TypeOK
<1>3. CASE /\ Post(m, Tell, NoKey, NoMsg, "lost")
           /\ registry' = Touched(c)
           /\ Acked
           /\ UNCHANGED <<announced, box, inbox>>
    <2>1. letters' \in [MsgIds -> Letters]
        BY <1>1, <1>3, PostType
    <2> QED BY <1>1, <1>3, <2>1, TouchedType, SendAssembled DEF TypeOK, WireTypeOK, Acked
<1>4. CASE Refused(c, m, NoMsg)
    BY <1>1, <1>4, RefusedType, SendAssembled DEF TypeOK, WireTypeOK
<1> QED BY <1>2, <1>3, <1>4 DEF SendThrough, m

\* An addressed send, once its key is known.
LEMMA AddressedType ==
    ASSUME TypeOK, NEW c \in Conns, NEW kind \in Kinds, NEW key \in Addresses,
           SendFrame(c), Acked,
           DeliverToSession(Touched(c), sent + 1, key, kind, NoMsg),
           Ledgered(sent + 1, kind, key, c)
    PROVE  TypeOK'
<1> DEFINE m == sent + 1
<1>1. m \in MsgIds
    BY SendFrameType
<1>2. asks' \in [MsgIds -> AskRecords]
    BY <1>1, TTLAssumption DEF Ledgered, TypeOK, AskRecords, Ages
<1> HIDE DEF m
<1>3. DeliverToSession(Touched(c), m, key, kind, NoMsg)
    BY DEF m
<1>4. /\ registry' \in [Keys -> Entries]
      /\ announced' \in [Keys -> {"none", "up", "down"}]
      /\ box' \in Boxes
      /\ inbox' \in [Conns -> SUBSET MsgIds]
      /\ letters' \in [MsgIds -> Letters]
    <2>1. Touched(c) \in [Keys -> Entries] /\ NoMsg \in MsgIds \cup {NoMsg}
        BY TouchedType
    <2> QED BY <1>1, <1>3, <2>1, DeliverType
<1> QED BY <1>2, <1>4, SendAssembled DEF TypeOK, Acked

LEMMA SendType ==
    ASSUME TypeOK, NEW c \in Conns, OnSend(c)
    PROVE  TypeOK'
<1> USE UsedKindsAssumption
<1>1. ASSUME NEW kind \in Kinds, NEW to \in Addresses, SendTo(c, kind, to)
      PROVE  TypeOK'
    BY <1>1, TargetsType, AddressedType DEF SendTo
<1>2. ASSUME NEW kind \in Kinds, NEW cwd \in Cwds, SendToCwd(c, kind, cwd)
      PROVE  TypeOK'
    <2>1. \A key \in LatestLiveByCwd(Touched(c), cwd) : key \in Addresses
        BY DEF LatestLiveByCwd, Freshest
    <2>2. CASE Refused(c, sent + 1, NoMsg) /\ UNCHANGED asks
        BY <1>2, <2>2, RefusedType, SendFrameType, SendAssembled DEF SendToCwd, TypeOK, WireTypeOK
    <2> QED BY <1>2, <2>1, <2>2, AddressedType DEF SendToCwd
<1>3. CASE SendNowhere(c)
    BY <1>3, RefusedType, SendFrameType, SendAssembled DEF SendNowhere, TypeOK, WireTypeOK
<1> QED BY <1>1, <1>2, <1>3, SendReplyType, SendThroughType DEF OnSend

\* The sweeper, the clock, the process and the clients.
LEMMA SweepType == TypeOK /\ Sweep => TypeOK'
<1> SUFFICES ASSUME TypeOK, Sweep PROVE TypeOK'
    OBVIOUS
<1>1. \A k \in Keys : Offline(registry, k)[k] \in Entries
    BY OfflineType DEF TypeOK
<1>2. registry' \in [Keys -> Entries]
    BY <1>1 DEF Sweep, TypeOK
<1>3. box' \in Boxes
    BY PruneType DEF Sweep, TypeOK
<1>4. pending' \in [MsgIds -> PendingRecords] /\ asks' \in [MsgIds -> AskRecords]
    BY Sentinels DEF Sweep, TypeOK
<1> QED BY <1>2, <1>3, <1>4 DEF Sweep, TypeOK, WireTypeOK, wireVars

LEMMA TickType == TypeOK /\ Tick => TypeOK'
<1> SUFFICES ASSUME TypeOK, Tick PROVE TypeOK'
    OBVIOUS
<1>1. registry' \in [Keys -> Entries]
    <2> SUFFICES ASSUME NEW k \in Keys
                 PROVE  [registry[k] EXCEPT !.age = Older(@, SessionTTL)] \in Entries
        BY DEF Tick, TypeOK
    <2>1. registry[k] \in Entries
        BY DEF TypeOK
    <2> QED BY <2>1, OlderType, TTLAssumption DEF Entries
<1>2. pending' \in [MsgIds -> PendingRecords]
    <2> SUFFICES ASSUME NEW m \in MsgIds
                 PROVE  [pending[m] EXCEPT !.age = Older(@, PendingTTL)] \in PendingRecords
        BY Sentinels DEF Tick, TypeOK
    <2>1. pending[m] \in PendingRecords
        BY DEF TypeOK
    <2> QED BY <2>1, OlderType, TTLAssumption DEF PendingRecords
<1>3. asks' \in [MsgIds -> AskRecords]
    <2> SUFFICES ASSUME NEW m \in MsgIds
                 PROVE  [asks[m] EXCEPT !.age = Older(@, AskTTL)] \in AskRecords
        BY Sentinels DEF Tick, TypeOK
    <2>1. asks[m] \in AskRecords
        BY DEF TypeOK
    <2> QED BY <2>1, OlderType, TTLAssumption DEF AskRecords
<1>4. box' \in Boxes
    BY AgeRowsType DEF Tick, TypeOK
<1> QED BY <1>1, <1>2, <1>3, <1>4 DEF Tick, TypeOK, WireTypeOK, wireVars, history

LEMMA ProcessType == TypeOK /\ (Stop \/ Start) => TypeOK'
<1> SUFFICES ASSUME TypeOK, Stop \/ Start PROVE TypeOK'
    OBVIOUS
<1>1. CASE Stop
    <2>1. box' \in Boxes
        BY <1>1, TakeType DEF Stop, TypeOK
    <2> QED BY <1>1, <2>1 DEF Stop, TypeOK, WireTypeOK, memory, history, wireVars
<1>2. CASE Start
    <2>1. starts' \in 0..MaxStarts
        BY <1>2, TTLAssumption DEF Start, TypeOK
    <2>2. inbox' \in [Conns -> SUBSET MsgIds]
        BY <1>2 DEF Start, Severed, TypeOK, WireTypeOK
    <2> QED BY <1>2, <2>1, <2>2, Sentinels DEF Start, Severed, TypeOK, WireTypeOK
<1> QED BY <1>1, <1>2

LEMMA ClientType ==
    ASSUME TypeOK, NEW c \in Conns, ClientMoves(c)
    PROVE  TypeOK'
<1>1. WireTypeOK'
    BY LateRequestsAssumption
    DEF ClientMoves, Connect, Close, Notice, TypeOK, WireTypeOK
<1> QED BY <1>1 DEF ClientMoves, TypeOK, memory, history

LEMMA NextType == TypeOK /\ [Next]_vars => TypeOK'
<1> SUFFICES ASSUME TypeOK, [Next]_vars PROVE TypeOK'
    OBVIOUS
<1>1. ASSUME NEW c \in Conns, Handle(c)
      PROVE  TypeOK'
    BY <1>1, BindType, SessionType, SendType DEF Handle
<1>2. CASE UNCHANGED vars
    BY <1>2 DEF vars, memory, history, wireVars, TypeOK, WireTypeOK
<1> QED BY <1>1, <1>2, ClientType, SweepType, TickType, ProcessType DEF Next

\* The hub's tables, the mailbox and the wire always hold values of their types:
\* among others, no working directory that check_cwd refuses is ever registered.
THEOREM TypeCorrect == Spec => []TypeOK
<1> QED BY InitType, NextType, PTL DEF Spec
=============================================================================
