----------------------------- MODULE HubSafety ------------------------------
(***************************************************************************)
(* Invariants of Hub proved for every value of the constants: presence,    *)
(* the mailbox, the custody of messages and the ask ledger.                *)
(***************************************************************************)
EXTENDS HubProofs

USE DEF Keys, NameLevel, Addresses, MsgIds, NoMsg, MaybeConn, MaybeKey, MaybeCwd,
        Tell, Ask, Reply, Kinds

-----------------------------------------------------------------------------
(* What a frame does to the registry before its handler runs, and what going *)
(* offline does                                                              *)

LEMMA TouchedFields ==
    ASSUME TypeOK, NEW c \in Conns, NEW k \in Keys
    PROVE  /\ Touched(c)[k].online = registry[k].online
           /\ Touched(c)[k].identity = registry[k].identity
           /\ CanTouch(c) /\ registry[k] = NoEntry => Touched(c)[k] = NoEntry
<1>1. registry[k] \in Entries
    BY DEF TypeOK
<1>2. CASE identity_map[c] = NoKey
    BY <1>2 DEF Touched
<1>3. CASE identity_map[c] # NoKey
    <2> DEFINE key == identity_map[c]
    <2>1. key \in Keys  BY <1>3 DEF TypeOK
    <2>2. Touched(c) = [registry EXCEPT ![key] = [registry[key] EXCEPT !.age = 0]]
        BY <1>3 DEF Touched
    <2>3. \A e \in Entries : /\ [e EXCEPT !.age = 0].online = e.online
                             /\ [e EXCEPT !.age = 0].identity = e.identity
        BY DEF Entries
    <2>4. CanTouch(c) => registry[key] # NoEntry
        BY <1>3 DEF CanTouch
    <2> HIDE DEF key
    <2> QED BY <1>1, <2>1, <2>2, <2>3, <2>4 DEF TypeOK
<1> QED BY <1>2, <1>3

LEMMA OfflineFields ==
    ASSUME NEW reg \in [Keys -> Entries], NEW key \in Keys, NEW k \in Keys
    PROVE  /\ k = key => ~Offline(reg, key)[k].online
           /\ k # key => Offline(reg, key)[k] = reg[k]
           /\ Offline(reg, key)[k].identity = reg[k].identity
<1>1. \A e \in Entries : /\ ~[e EXCEPT !.online = FALSE, !.age = 0].online
                         /\ [e EXCEPT !.online = FALSE, !.age = 0].identity = e.identity
    BY DEF Entries
<1> QED BY <1>1 DEF Offline

\* The two outcomes of a delivery.
LEMMA DeliverCases ==
    ASSUME NEW reg, NEW m, NEW key, NEW kind, NEW re,
           DeliverToSession(reg, m, key, kind, re)
    PROVE  \/ /\ EntryAt(reg, key).online /\ Reaches(EntryAt(reg, key).identity)
              /\ Written(EntryAt(reg, key).identity, {m})
              /\ Post(m, kind, key, re, "delivered")
              /\ registry' = reg
              /\ UNCHANGED <<announced, box>>
           \/ /\ ~(EntryAt(reg, key).online /\ Reaches(EntryAt(reg, key).identity))
              /\ registry' = IF EntryAt(reg, key).online THEN Offline(reg, key) ELSE reg
              /\ announced' = IF EntryAt(reg, key).online THEN [announced EXCEPT ![key] = "down"]
                              ELSE announced
              /\ box' = Put(box, m, key)
              /\ Post(m, kind, key, re, "queued")
              /\ UNCHANGED inbox
BY DEF DeliverToSession

\* Every handler of a send is a refusal, a message routed past the registry, a
\* loss, or a delivery to a session or an address that the send stands for.
SendOutcome(c) ==
    \/ \E re \in MsgIds \cup {NoMsg} : Refused(c, sent + 1, re)
    \/ \E target, kind, re : RoutedTo(c, target, sent + 1, kind, re)
    \/ /\ Post(sent + 1, Tell, NoKey, NoMsg, "lost")
       /\ registry' = Touched(c)
       /\ UNCHANGED <<announced, box, inbox>>
    \/ \E to \in Addresses : \E key \in Targets(Touched(c), to), kind \in Kinds,
                                re \in MsgIds \cup {NoMsg} :
          DeliverToSession(Touched(c), sent + 1, key, kind, re)

LEMMA SendOutcomes ==
    ASSUME TypeOK, NEW c \in Conns, OnSend(c)
    PROVE  SendFrame(c) /\ SendOutcome(c)
<1> USE UsedKindsAssumption
<1>1. ASSUME NEW re \in MsgIds, SendReply(c, re)
      PROVE  SendFrame(c) /\ SendOutcome(c)
    <2>1. ReplyKind(re) \in Kinds /\ OpenAsk(re) \in MsgIds \cup {NoMsg}
        BY DEF ReplyKind, OpenAsk
    <2> QED BY <1>1, <2>1 DEF SendReply, SendOutcome
<1>2. ASSUME NEW kind \in Kinds, NEW re \in MsgIds, SendThrough(c, kind, re)
      PROVE  SendFrame(c) /\ SendOutcome(c)
    BY <1>2 DEF SendThrough, SendOutcome
<1>3. ASSUME NEW kind \in Kinds, NEW to \in Addresses, SendTo(c, kind, to)
      PROVE  SendFrame(c) /\ SendOutcome(c)
    BY <1>3 DEF SendTo, SendOutcome
<1>4. ASSUME NEW kind \in Kinds, NEW cwd \in Cwds, SendToCwd(c, kind, cwd)
      PROVE  SendFrame(c) /\ SendOutcome(c)
    <2>1. \A key \in LatestLiveByCwd(Touched(c), cwd) :
             key \in Addresses /\ key \in Targets(Touched(c), key)
        BY DEF LatestLiveByCwd, Freshest, Targets
    <2> QED BY <1>4, <2>1 DEF SendToCwd, SendOutcome
<1>5. CASE SendNowhere(c)
    BY <1>5 DEF SendNowhere, SendOutcome
<1> QED BY <1>1, <1>2, <1>3, <1>4, <1>5 DEF OnSend

-----------------------------------------------------------------------------
(* The published events tell who is online *)

\* A delivery announces the session it finds dead.
LEMMA DeliverAnnounces ==
    ASSUME TypeOK, PresenceAnnounced, NEW c \in Conns, NEW m, NEW key, NEW kind, NEW re,
           DeliverToSession(Touched(c), m, key, kind, re)
    PROVE  PresenceAnnounced'
<1> DEFINE reg == Touched(c)
<1>1. reg \in [Keys -> Entries] /\ announced \in [Keys -> {"none", "up", "down"}]
    BY TouchedType DEF TypeOK
<1>2. \A k \in Keys : reg[k].online <=> announced[k] = "up"
    BY TouchedFields DEF PresenceAnnounced
<1> HIDE DEF reg
<1>3. CASE registry' = reg /\ UNCHANGED announced
    BY <1>2, <1>3 DEF PresenceAnnounced
<1>4. CASE /\ EntryAt(reg, key).online
           /\ registry' = Offline(reg, key)
           /\ announced' = [announced EXCEPT ![key] = "down"]
    <2>1. key \in Keys
        BY <1>4 DEF EntryAt, NoEntry
    <2> SUFFICES ASSUME NEW k \in Keys
                 PROVE  registry'[k].online <=> announced'[k] = "up"
        BY DEF PresenceAnnounced
    <2>2. (k = key => ~registry'[k].online) /\ (k # key => registry'[k] = reg[k])
        <3>1. reg \in [Keys -> Entries] /\ registry' = Offline(reg, key)
            BY <1>1, <1>4
        <3>2. /\ k = key => ~Offline(reg, key)[k].online
              /\ k # key => Offline(reg, key)[k] = reg[k]
            BY <2>1, <3>1, OfflineFields
        <3> QED BY <3>1, <3>2
    <2>3. announced'[k] = IF k = key THEN "down" ELSE announced[k]
        BY <1>1, <1>4, <2>1
    <2>4. reg[k].online <=> announced[k] = "up"
        BY <1>2
    <2>5. CASE k = key
        BY <2>2, <2>3, <2>5
    <2>6. CASE k # key
        BY <2>2, <2>3, <2>4, <2>6
    <2> QED BY <2>5, <2>6
<1> QED BY <1>3, <1>4, DeliverCases DEF reg

\* Taking a session up announces it unless it was online.
LEMMA BindAnnounces ==
    ASSUME TypeOK, PresenceAnnounced, NEW c \in Conns, NEW key \in Keys, NEW cwd,
           registry' = [Touched(c) EXCEPT ![key] =
                           [identity |-> c, online |-> TRUE, age |-> 0, cwd |-> cwd]],
           SetOnline(key)
    PROVE  PresenceAnnounced'
<1> SUFFICES ASSUME NEW k \in Keys
             PROVE  registry'[k].online <=> announced'[k] = "up"
    BY DEF PresenceAnnounced
<1>1. Touched(c) \in [Keys -> Entries] /\ announced \in [Keys -> {"none", "up", "down"}]
    BY TouchedType DEF TypeOK
<1>2. Touched(c)[k].online <=> announced[k] = "up"
    BY TouchedFields DEF PresenceAnnounced
<1>3. registry[key].online <=> announced[key] = "up"
    BY DEF PresenceAnnounced
<1>4. CASE k = key
    BY <1>1, <1>3, <1>4 DEF SetOnline
<1>5. CASE k # key
    BY <1>1, <1>2, <1>5 DEF SetOnline
<1> QED BY <1>4, <1>5

LEMMA OfflineAnnounces ==
    ASSUME TypeOK, PresenceAnnounced, NEW c \in Conns, NEW key \in Keys, GoesOffline(c, key)
    PROVE  PresenceAnnounced'
<1> SUFFICES ASSUME NEW k \in Keys
             PROVE  registry'[k].online <=> announced'[k] = "up"
    BY DEF PresenceAnnounced
<1>1. Touched(c) \in [Keys -> Entries] /\ announced \in [Keys -> {"none", "up", "down"}]
    BY TouchedType DEF TypeOK
<1>2. Touched(c)[k].online <=> announced[k] = "up"
    BY TouchedFields DEF PresenceAnnounced
<1>3. (k = key => ~registry'[k].online) /\ (k # key => registry'[k] = Touched(c)[k])
    BY <1>1, OfflineFields DEF GoesOffline
<1>4. announced'[k] = IF k = key THEN "down" ELSE announced[k]
    BY <1>1 DEF GoesOffline
<1>5. CASE k = key
    BY <1>3, <1>4, <1>5
<1>6. CASE k # key
    BY <1>2, <1>3, <1>4, <1>6
<1> QED BY <1>5, <1>6

\* A frame that only refreshes last_seen announces nothing and need not.
LEMMA TouchAnnounces ==
    ASSUME TypeOK, PresenceAnnounced, NEW c \in Conns,
           registry' = Touched(c), UNCHANGED announced
    PROVE  PresenceAnnounced'
BY TouchedFields DEF PresenceAnnounced

LEMMA PresenceStep == TypeOK /\ PresenceAnnounced /\ [Next]_vars => PresenceAnnounced'
<1> SUFFICES ASSUME TypeOK, PresenceAnnounced, [Next]_vars
             PROVE  PresenceAnnounced'
    OBVIOUS
<1>1. ASSUME NEW c \in Conns, NEW key \in Keys, NEW cwd \in CwdField,
             \/ OnHello(c, key, cwd)
             \/ OnHelloBadCwd(c, key, cwd)
             \/ OnPoll(c, key, cwd)
             \/ OnPollBadCwd(c, key, cwd)
      PROVE  PresenceAnnounced'
    <2>1. CASE OnHello(c, key, cwd)
        BY <2>1, BindAnnounces DEF OnHello
    <2>2. CASE OnHelloBadCwd(c, key, cwd)
        BY <2>2, TouchAnnounces DEF OnHelloBadCwd, history
    <2>3. CASE Resolve(c, key, cwd)
        BY <2>3, BindAnnounces DEF Resolve
    <2> QED BY <1>1, <2>1, <2>2, <2>3 DEF OnPoll, OnPollBadCwd
<1>2. ASSUME NEW c \in Conns, OnSend(c)
      PROVE  PresenceAnnounced'
    <2>1. SendOutcome(c)
        BY <1>2, SendOutcomes
    <2>2. CASE \E to \in Addresses : \E key \in Targets(Touched(c), to), kind \in Kinds,
                                        re \in MsgIds \cup {NoMsg} :
                  DeliverToSession(Touched(c), sent + 1, key, kind, re)
        BY <2>2, DeliverAnnounces
    <2>3. CASE registry' = Touched(c) /\ UNCHANGED announced
        BY <2>3, TouchAnnounces
    <2> QED BY <2>1, <2>2, <2>3 DEF SendOutcome, Refused, RoutedTo
<1>3. ASSUME NEW c \in Conns,
             \/ OnPollMapped(c)
             \/ \E key \in Keys : OnBye(c, key)
             \/ OnByeMapped(c)
             \/ OnQuery(c)
             \/ OnBadRequest(c)
             \/ LoopDies(c)
      PROVE  PresenceAnnounced'
    <2>1. CASE registry' = Touched(c) /\ UNCHANGED announced
        BY <2>1, TouchAnnounces
    <2>2. CASE \E key \in Keys : GoesOffline(c, key)
        BY <2>2, OfflineAnnounces
    <2>3. CASE UNCHANGED <<registry, announced>>
        BY <2>3 DEF PresenceAnnounced
    <2>4. identity_map[c] # NoKey => identity_map[c] \in Keys
        BY DEF TypeOK
    <2> QED
        BY <1>3, <2>1, <2>2, <2>3, <2>4
        DEF OnPollMapped, OnBye, OnByeMapped, OnQuery, OnBadRequest, LoopDies, memory, history
<1>4. CASE Sweep
    <2> SUFFICES ASSUME NEW k \in Keys
                 PROVE  registry'[k].online <=> announced'[k] = "up"
        BY DEF PresenceAnnounced
    <2>1. ~Offline(registry, k)[k].online
        BY OfflineFields DEF TypeOK
    <2> QED BY <1>4, <2>1 DEF Sweep, PresenceAnnounced
<1>5. CASE Tick
    <2> SUFFICES ASSUME NEW k \in Keys
                 PROVE  registry'[k].online = registry[k].online
        BY <1>5 DEF Tick, PresenceAnnounced, history
    <2>1. registry[k] \in Entries
        BY DEF TypeOK
    <2>2. [registry[k] EXCEPT !.age = Older(@, SessionTTL)].online = registry[k].online
        BY <2>1 DEF Entries
    <2> QED BY <1>5, <2>2 DEF Tick
<1>6. CASE Start
    BY <1>6 DEF Start, PresenceAnnounced, NoEntry
<1>7. CASE Stop \/ UNCHANGED vars \/ \E c \in Conns : ClientMoves(c)
    BY <1>7 DEF Stop, ClientMoves, vars, memory, history, PresenceAnnounced
<1> QED BY <1>1, <1>2, <1>3, <1>4, <1>5, <1>6, <1>7 DEF Next, Handle

\* Whoever follows the session events knows who is online: of every session the
\* last event of this hub's life is an up exactly while the session is online.
THEOREM PresenceCorrect == Spec => []PresenceAnnounced
<1>1. Init => PresenceAnnounced
    BY DEF Init, PresenceAnnounced, NoEntry
<1> QED BY <1>1, PresenceStep, TypeCorrect, PTL DEF Spec

-----------------------------------------------------------------------------
(* Mappings lead to entries *)

\* Every entry was bound to a connection when it was made, and stays so: what no
\* connection is bound to is no entry.
EntriesBound == \A k \in Keys : registry[k].identity = NoConn => registry[k] = NoEntry

\* The steps of which the mappings take no harm.
MappingsLast ==
    /\ EntriesBound'
    /\ \A d \in Conns : CanTouch(d) => CanTouch(d)'

KeepsEntry(k) ==
    /\ registry'[k].identity = registry[k].identity
    /\ registry[k] = NoEntry => registry'[k] = NoEntry

\* A step that maps no connection anew, but for one, and keeps every entry.
LEMMA EntriesKept ==
    ASSUME TypeOK, EntriesBound, \A k \in Keys : KeepsEntry(k)
    PROVE  /\ EntriesBound'
           /\ \A d \in Conns : identity_map'[d] \in {identity_map[d], NoKey}
                                /\ CanTouch(d) => CanTouch(d)'
<1>1. EntriesBound'
    BY DEF EntriesBound, KeepsEntry
<1>2. ASSUME NEW d \in Conns, identity_map'[d] \in {identity_map[d], NoKey}, CanTouch(d)
      PROVE  CanTouch(d)'
    <2> DEFINE k == identity_map[d]
    <2>1. CASE identity_map'[d] = NoKey
        BY <2>1 DEF CanTouch
    <2>2. CASE identity_map'[d] = k /\ k # NoKey
        <3>1. k \in Keys /\ registry[k] # NoEntry
            BY <1>2, <2>2 DEF CanTouch, TypeOK
        <3> HIDE DEF k
        <3>2. registry'[k].identity # NoConn
            BY <3>1 DEF EntriesBound, KeepsEntry
        <3>3. registry'[k] # NoEntry
            BY <3>2 DEF NoEntry
        <3> QED BY <2>2, <3>3 DEF CanTouch
    <2> QED BY <1>2, <2>1, <2>2
<1> QED BY <1>1, <1>2

LEMMA MappingsShrink ==
    ASSUME TypeOK, EntriesBound,
           \A d \in Conns : identity_map'[d] \in {identity_map[d], NoKey},
           \A k \in Keys : KeepsEntry(k)
    PROVE  MappingsLast
BY EntriesKept DEF MappingsLast

\* A step that binds key to c and maps c to key.
LEMMA MappingsBind ==
    ASSUME TypeOK, EntriesBound, NEW c \in Conns, CanTouch(c), NEW key \in Keys, NEW cwd,
           registry' = [Touched(c) EXCEPT ![key] =
                           [identity |-> c, online |-> TRUE, age |-> 0, cwd |-> cwd]],
           \A d \in Conns : d # c => identity_map'[d] \in {identity_map[d], NoKey},
           identity_map'[c] = key
    PROVE  MappingsLast
<1>1. Touched(c) \in [Keys -> Entries]
    BY TouchedType
<1>2. registry'[key].identity # NoConn
    BY <1>1, ConnsAssumption
<1>3. \A k \in Keys : k # key => KeepsEntry(k)
    BY <1>1, TouchedFields DEF KeepsEntry
<1>4. EntriesBound'
    BY <1>2, <1>3 DEF EntriesBound, KeepsEntry
<1>5. ASSUME NEW d \in Conns, CanTouch(d), ~CanTouch(d)'
      PROVE  FALSE
    <2>1. identity_map'[d] # NoKey /\ registry'[identity_map'[d]] = NoEntry
        BY <1>5 DEF CanTouch
    <2>2. identity_map'[d] # key
        BY <1>2, <2>1 DEF NoEntry
    <2>3. identity_map'[d] = identity_map[d]
        BY <2>1, <2>2
    <2>4. identity_map[d] \in Keys /\ registry[identity_map[d]] # NoEntry
        BY <1>5, <2>1, <2>3 DEF CanTouch, TypeOK
    <2>5. registry'[identity_map[d]].identity # NoConn
        BY <1>3, <2>2, <2>3, <2>4 DEF EntriesBound, KeepsEntry
    <2> QED BY <2>1, <2>3, <2>5 DEF NoEntry
<1> QED BY <1>4, <1>5 DEF MappingsLast

LEMMA UnmappedShrinks ==
    ASSUME TypeOK, NEW c, NEW d \in Conns
    PROVE  Unmapped(c)[d] \in {identity_map[d], NoKey}
BY DEF Unmapped, TypeOK

LEMMA TouchKeeps ==
    ASSUME TypeOK, NEW c \in Conns, CanTouch(c), registry' = Touched(c), NEW k \in Keys
    PROVE  KeepsEntry(k)
BY TouchedFields DEF KeepsEntry

\* An entry that goes offline stays an entry.
LEMMA OfflineKeeps ==
    ASSUME TypeOK, NEW c \in Conns, CanTouch(c), NEW key \in Keys, registry[key] # NoEntry,
           registry' = Offline(Touched(c), key), NEW k \in Keys
    PROVE  KeepsEntry(k)
<1>1. Touched(c) \in [Keys -> Entries]
    BY TouchedType
<1>2. /\ k # key => Offline(Touched(c), key)[k] = Touched(c)[k]
      /\ Offline(Touched(c), key)[k].identity = Touched(c)[k].identity
    BY <1>1, OfflineFields
<1> QED BY <1>2, TouchedFields DEF KeepsEntry

\* What a delivery does to the registry keeps every entry.
LEMMA DeliverKeeps ==
    ASSUME TypeOK, NEW c \in Conns, CanTouch(c), NEW m, NEW key, NEW kind, NEW re,
           DeliverToSession(Touched(c), m, key, kind, re), NEW k \in Keys
    PROVE  KeepsEntry(k)
<1> DEFINE reg == Touched(c)
<1>1. CASE registry' = reg
    BY <1>1, TouchKeeps
<1>2. CASE EntryAt(reg, key).online /\ registry' = Offline(reg, key)
    <2>1. key \in Keys /\ reg[key].online
        BY <1>2 DEF EntryAt, NoEntry
    <2>2. registry[key] # NoEntry
        BY <2>1, TouchedFields DEF NoEntry
    <2> QED BY <1>2, <2>1, <2>2, OfflineKeeps
<1> QED BY <1>1, <1>2, DeliverCases DEF reg

LEMMA SendKeeps ==
    ASSUME TypeOK, NEW c \in Conns, OnSend(c), NEW k \in Keys
    PROVE  KeepsEntry(k)
<1>1. SendOutcome(c) /\ CanTouch(c)
    BY SendOutcomes DEF SendFrame, Frame
<1>2. CASE registry' = Touched(c)
    BY <1>1, <1>2, TouchKeeps
<1>3. CASE \E to \in Addresses : \E key \in Targets(Touched(c), to), kind \in Kinds,
                                    re \in MsgIds \cup {NoMsg} :
              DeliverToSession(Touched(c), sent + 1, key, kind, re)
    BY <1>1, <1>3, DeliverKeeps
<1> QED BY <1>1, <1>2, <1>3 DEF SendOutcome, Refused, RoutedTo

\* A hello with a blank directory, the one step that maps a connection to what
\* may be no entry: all other connections keep theirs.
LEMMA BadHelloMaps ==
    ASSUME TypeOK, EntriesBound, NEW c \in Conns, NEW key \in Keys, NEW cwd,
           OnHelloBadCwd(c, key, cwd)
    PROVE  /\ EntriesBound'
           /\ identity_map'[c] = key
           /\ \A d \in Conns : d # c /\ CanTouch(d) => CanTouch(d)'
<1> DEFINE old == registry[key].identity
<1>1. \A k \in Keys : KeepsEntry(k)
    BY TouchKeeps DEF OnHelloBadCwd, Frame
<1>2. identity_map' = [Unmapped(old) EXCEPT ![c] = key]
    BY DEF OnHelloBadCwd
<1>3. /\ Unmapped(old) \in [Conns -> MaybeKey]
      /\ \A d \in Conns : Unmapped(old)[d] \in {identity_map[d], NoKey}
    BY UnmappedType, UnmappedShrinks
<1> HIDE DEF old
<1>4. identity_map'[c] = key /\ \A d \in Conns : d # c => identity_map'[d] \in {identity_map[d], NoKey}
    BY <1>2, <1>3
<1> QED BY <1>1, <1>4, EntriesKept

\* What a step does to the mappings: no harm, unless it is such a hello.
LEMMA MappedStep ==
    TypeOK /\ EntriesBound /\ [Next]_vars
        => \/ MappingsLast
           \/ \E c \in Conns, key \in Keys, cwd \in BadCwds : OnHelloBadCwd(c, key, cwd)
<1> SUFFICES ASSUME TypeOK, EntriesBound, [Next]_vars,
                    \A c \in Conns, key \in Keys, cwd \in BadCwds : ~OnHelloBadCwd(c, key, cwd)
             PROVE  MappingsLast
    OBVIOUS
<1>1. ASSUME NEW c \in Conns, NEW key \in Keys, NEW cwd \in CwdField,
             \/ OnHello(c, key, cwd)
             \/ OnHelloBadCwd(c, key, cwd)
             \/ OnPoll(c, key, cwd)
             \/ OnPollBadCwd(c, key, cwd)
      PROVE  MappingsLast
    <2>1. CASE OnHello(c, key, cwd)
        <3> DEFINE old == registry[key].identity
                   dir == IF cwd = NoCwd THEN registry[key].cwd ELSE cwd
        <3>1. Unmapped(old) \in [Conns -> MaybeKey]
            BY UnmappedType
        <3>2. \A d \in Conns : Unmapped(old)[d] \in {identity_map[d], NoKey}
            BY UnmappedShrinks
        <3>3. identity_map' = [Unmapped(old) EXCEPT ![c] = key]
            BY <2>1 DEF OnHello
        <3>4. registry' = [Touched(c) EXCEPT ![key] =
                              [identity |-> c, online |-> TRUE, age |-> 0, cwd |-> dir]]
            BY <2>1 DEF OnHello
        <3> HIDE DEF old, dir
        <3>5. /\ \A d \in Conns : d # c => identity_map'[d] \in {identity_map[d], NoKey}
              /\ identity_map'[c] = key
            BY <3>1, <3>2, <3>3
        <3>6. CanTouch(c)
            BY <2>1 DEF OnHello, Frame
        <3> QED BY <3>4, <3>5, <3>6, MappingsBind
    <2>2. ~OnHelloBadCwd(c, key, cwd)
        <3>1. cwd \in BadCwds => ~OnHelloBadCwd(c, key, cwd)
            OBVIOUS
        <3> QED BY <3>1 DEF OnHelloBadCwd, CheckCwd
    <2>3. CASE Resolve(c, key, cwd) /\ CanTouch(c)
        <3> DEFINE dir == IF cwd \in Cwds THEN cwd ELSE registry[key].cwd
        <3>1. registry' = [Touched(c) EXCEPT ![key] =
                              [identity |-> c, online |-> TRUE, age |-> 0, cwd |-> dir]]
            BY <2>3 DEF Resolve
        <3>2. identity_map' = [identity_map EXCEPT ![c] = key]
            BY <2>3 DEF Resolve
        <3> HIDE DEF dir
        <3>3. /\ \A d \in Conns : d # c => identity_map'[d] \in {identity_map[d], NoKey}
              /\ identity_map'[c] = key
            BY <3>2 DEF TypeOK
        <3> QED BY <2>3, <3>1, <3>3, MappingsBind
    <2> QED BY <1>1, <2>1, <2>2, <2>3 DEF OnPoll, OnPollBadCwd, Frame
<1>2. ASSUME NEW c \in Conns, OnSend(c)
      PROVE  MappingsLast
    <2>1. UNCHANGED identity_map
        BY <1>2, SendOutcomes DEF SendFrame
    <2> QED BY <1>2, <2>1, SendKeeps, MappingsShrink
<1>3. ASSUME NEW c \in Conns, OnPollMapped(c) \/ OnQuery(c) \/ OnBadRequest(c)
      PROVE  MappingsLast
    <2>1. registry' = Touched(c) /\ UNCHANGED identity_map /\ CanTouch(c)
        BY <1>3 DEF OnPollMapped, OnQuery, OnBadRequest, Frame
    <2> QED BY <2>1, TouchKeeps, MappingsShrink
<1>4. ASSUME NEW c \in Conns, CanTouch(c), NEW key \in Keys, registry[key] # NoEntry,
             GoesOffline(c, key), NEW d, identity_map' = Unmapped(d)
      PROVE  MappingsLast
    <2>1. \A k \in Keys : KeepsEntry(k)
        BY <1>4, OfflineKeeps DEF GoesOffline
    <2>2. \A e \in Conns : identity_map'[e] \in {identity_map[e], NoKey}
        BY <1>4, UnmappedShrinks
    <2> QED BY <2>1, <2>2, MappingsShrink
<1>5. ASSUME NEW c \in Conns, (\E key \in Keys : OnBye(c, key)) \/ OnByeMapped(c)
      PROVE  MappingsLast
    <2>1. CanTouch(c)
        BY <1>5 DEF OnBye, OnByeMapped, Frame
    <2>2. CASE \E key \in Keys, d \in MaybeConn :
                  registry[key] # NoEntry /\ GoesOffline(c, key) /\ identity_map' = Unmapped(d)
        BY <1>4, <2>1, <2>2
    <2>3. CASE registry' = Touched(c) /\ UNCHANGED identity_map
        BY <2>1, <2>3, TouchKeeps, MappingsShrink
    <2>4. CASE UNCHANGED registry /\ identity_map' = Unmapped(c)
        BY <2>4, UnmappedShrinks, MappingsShrink DEF KeepsEntry
    <2>5. \A key \in Keys : registry[key].identity \in MaybeConn
        BY DEF TypeOK, Entries
    <2>6. identity_map[c] # NoKey => identity_map[c] \in Keys /\ registry[identity_map[c]] # NoEntry
        BY <2>1 DEF TypeOK, CanTouch
    <2> QED BY <1>5, <2>2, <2>3, <2>4, <2>5, <2>6 DEF OnBye, OnByeMapped
<1>6. CASE Sweep
    <2>1. \A k \in Keys : Offline(registry, k)[k].identity = registry[k].identity
        BY OfflineFields DEF TypeOK
    <2>2. \A k \in Keys : KeepsEntry(k)
        BY <1>6, <2>1 DEF Sweep, Swept, KeepsEntry, NoEntry
    <2> QED BY <1>6, <2>2, MappingsShrink DEF Sweep
<1>7. CASE Tick
    <2>1. \A e \in Entries : [e EXCEPT !.age = Older(@, SessionTTL)].identity = e.identity
        BY DEF Entries
    <2>2. ASSUME NEW k \in Keys
          PROVE  KeepsEntry(k)
        <3>1. registry[k] \in Entries
            BY DEF TypeOK
        <3>2. registry'[k] = IF registry[k].online
                             THEN [registry[k] EXCEPT !.age = Older(@, SessionTTL)] ELSE registry[k]
            BY <1>7 DEF Tick
        <3> QED BY <2>1, <3>1, <3>2 DEF KeepsEntry, NoEntry
    <2> QED BY <1>7, <2>2, MappingsShrink DEF Tick
<1>8. CASE Start
    BY <1>8 DEF Start, MappingsLast, EntriesBound, CanTouch
<1>9. CASE UNCHANGED <<registry, identity_map>>
    BY <1>9, MappingsShrink DEF KeepsEntry
<1> QED
    BY <1>1, <1>2, <1>3, <1>5, <1>6, <1>7, <1>8, <1>9
    DEF Next, Handle, ClientMoves, LoopDies, Stop, vars, memory

\* A connection loses its entry by its own refused hello only.
LEMMA MappingsStep ==
    TypeOK /\ EntriesBound /\ [Next]_vars
        => /\ EntriesBound'
           /\ \A c \in Conns : CanTouch(c) /\ ~CanTouch(c)'
                 => \E cwd \in BadCwds : OnHelloBadCwd(c, identity_map'[c], cwd)
<1> SUFFICES ASSUME TypeOK, EntriesBound, [Next]_vars
             PROVE  /\ EntriesBound'
                    /\ \A c \in Conns : CanTouch(c) /\ ~CanTouch(c)'
                          => \E cwd \in BadCwds : OnHelloBadCwd(c, identity_map'[c], cwd)
    OBVIOUS
<1>1. CASE MappingsLast
    BY <1>1 DEF MappingsLast
<1>2. ASSUME NEW c \in Conns, NEW key \in Keys, NEW cwd \in BadCwds, OnHelloBadCwd(c, key, cwd)
      PROVE  /\ EntriesBound'
             /\ \A d \in Conns : CanTouch(d) /\ ~CanTouch(d)' => d = c /\ identity_map'[d] = key
    BY <1>2, BadHelloMaps
<1> QED BY <1>1, <1>2, MappedStep

LEMMA EntriesHold == Spec => []EntriesBound
<1>1. Init => EntriesBound
    BY DEF Init, EntriesBound
<1> QED BY <1>1, MappingsStep, TypeCorrect, PTL DEF Spec

\* As long as no client sends a blank working directory, a frame never finds its
\* connection mapped to a session that has no entry: the lookup outside the try
\* block cannot end the broker.
THEOREM MappedCorrect == BadCwds = {} => (Spec => []MappedRegistered)
<1>1. Init => MappedRegistered
    BY DEF Init, MappedRegistered, CanTouch
<1>2. ASSUME BadCwds = {}
      PROVE  Spec => []MappedRegistered
    <2>1. TypeOK /\ EntriesBound /\ MappedRegistered /\ [Next]_vars => MappedRegistered'
        BY <1>2, MappingsStep DEF MappedRegistered
    <2> QED BY <1>1, <2>1, EntriesHold, TypeCorrect, PTL DEF Spec
<1> QED BY <1>2
=============================================================================
