----------------------------- MODULE HubCustody -----------------------------
(***************************************************************************)
(* The custody of messages in Hub, proved for every value of the           *)
(* constants: where a message is kept, who takes it, and the ask ledger.   *)
(***************************************************************************)
EXTENDS HubSafety, WellFoundedInduction

USE DEF Keys, NameLevel, Addresses, MsgIds, NoMsg, MaybeConn, MaybeKey, MaybeCwd,
        Tell, Ask, Reply, Kinds

-----------------------------------------------------------------------------
(* Routing by name *)

\* Of some natural numbers one is the least.
LEMMA LeastNatural ==
    ASSUME NEW T, T \subseteq Nat, T # {}
    PROVE  \E x \in T : \A y \in T : x <= y
<1>1. \E x \in T : \A y \in T : ~(<<y, x>> \in OpToRel(<, Nat))
    BY NatLessThanWellFounded, WFMin
<1>2. \A x, y \in Nat : y < x => <<y, x>> \in OpToRel(<, Nat)
    BY DEF OpToRel
<1>3. PICK x \in T : \A y \in T : ~(<<y, x>> \in OpToRel(<, Nat))
    BY <1>1
<1>4. ASSUME NEW y \in T
      PROVE  x <= y
    <2>1. ~(y < x)
        BY <1>2, <1>3
    <2> QED BY <2>1
<1> QED BY <1>4

\* With a live session there is a freshest one, so a bare name stands for itself
\* only when none of its sessions is live.
LEMMA FreshestExists ==
    ASSUME NEW reg \in [Keys -> Entries], NEW live \in SUBSET Keys, live # {}
    PROVE  Freshest(reg, live) # {}
<1> DEFINE ages == {reg[k].age : k \in live}
<1>1. ages \subseteq Nat /\ ages # {}
    BY TTLAssumption DEF Entries, Ages
<1>2. PICK x \in ages : \A y \in ages : x <= y
    BY <1>1, LeastNatural
<1> QED BY <1>2 DEF Freshest

-----------------------------------------------------------------------------
(* No mail waits behind an online session *)

\* What a session would take after its mail was taken, after a message was
\* stored, pruned or aged.
LEMMA TakenMail ==
    ASSUME NEW b \in Boxes, NEW key \in Keys, NEW k \in Keys
    PROVE  /\ MailFor(Take(b, key), key) = {}
           /\ MailFor(Take(b, key), k) \subseteq MailFor(b, k)
<1>1. \A m \in MsgIds : Take(b, key)[m] = IF m \in MailFor(b, key) THEN NoRow ELSE b[m]
    BY DEF Take
<1>2. NoKey \notin TakenBy(key) /\ NoKey \notin TakenBy(k)
    BY NoKeyAssumption DEF TakenBy
<1> QED BY <1>1, <1>2 DEF MailFor, NoRow

LEMMA PutMail ==
    ASSUME NEW b \in Boxes, NEW m \in MsgIds, NEW to, NEW k \in Keys, to \notin TakenBy(k)
    PROVE  MailFor(Put(b, m, to), k) \subseteq MailFor(b, k)
BY DEF MailFor, Put, Boxes

LEMMA PrunedMail ==
    ASSUME NEW b \in Boxes, NEW k \in Keys
    PROVE  MailFor(Prune(b), k) \subseteq MailFor(b, k)
BY NoKeyAssumption DEF MailFor, Prune, TakenBy, NoRow

LEMMA AgedMail ==
    ASSUME NEW b \in Boxes, NEW k \in Keys
    PROVE  MailFor(AgeRows(b), k) \subseteq MailFor(b, k)
<1> SUFFICES ASSUME NEW m \in MsgIds
             PROVE  AgeRows(b)[m].to = b[m].to
    BY DEF MailFor
<1>1. b[m] \in Rows
    BY DEF Boxes
<1>2. \A r \in Rows : [r EXCEPT !.age = Older(@, MailTTL)].to = r.to
    BY DEF Rows
<1> QED BY <1>1, <1>2 DEF AgeRows

\* No session comes to have mail behind it while it is online.
StrandsNobody == \A k \in Keys : Stranded(k)' => Stranded(k)

\* The general step: no session comes online and no session's mail grows.
LEMMA MailShrinks ==
    ASSUME \A k \in Keys : registry'[k].online
              => registry[k].online /\ MailFor(box', k) \subseteq MailFor(box, k)
    PROVE  StrandsNobody
BY DEF StrandsNobody, Stranded, MailFor

\* A session that comes online has its mail taken in the same step.
LEMMA BindTakes ==
    ASSUME TypeOK, NEW c \in Conns, NEW key \in Keys, NEW cwd,
           registry' = [Touched(c) EXCEPT ![key] =
                           [identity |-> c, online |-> TRUE, age |-> 0, cwd |-> cwd]],
           Drain(c, key)
    PROVE  StrandsNobody
<1>1. Touched(c) \in [Keys -> Entries] /\ box \in Boxes /\ box' = Take(box, key)
    BY TouchedType DEF TypeOK, Drain
<1> SUFFICES ASSUME NEW k \in Keys, registry'[k].online
             PROVE  MailFor(box', k) = {} \/ Stranded(k)
    BY DEF StrandsNobody, Stranded, MailFor
<1>2. CASE k = key
    BY <1>1, <1>2, TakenMail
<1>3. CASE k # key
    <2>1. registry'[k] = Touched(c)[k]
        BY <1>1, <1>3
    <2>2. registry[k].online
        BY <2>1, TouchedFields
    <2>3. MailFor(Take(box, key), k) \subseteq MailFor(box, k)
        BY <1>1, TakenMail
    <2> QED BY <1>1, <2>2, <2>3 DEF Stranded
<1> QED BY <1>2, <1>3

\* An address a send stands for has, when mail is stored under it, no session
\* online that would take that mail.
LEMMA StoredForNobodyOnline ==
    ASSUME TypeOK, NEW c \in Conns, NEW to \in Addresses,
           NEW key \in Targets(Touched(c), to), NEW m, NEW kind, NEW re,
           DeliverToSession(Touched(c), m, key, kind, re),
           ~(EntryAt(Touched(c), key).online /\ Reaches(EntryAt(Touched(c), key).identity)),
           NEW k \in Keys, registry'[k].online
    PROVE  key \notin TakenBy(k)
<1> DEFINE reg == Touched(c)
<1>1. reg \in [Keys -> Entries]
    BY TouchedType
<1>2. registry' = IF EntryAt(reg, key).online THEN Offline(reg, key) ELSE reg
    BY DeliverCases
<1>3. key \in Keys \/ LatestLive(reg, key[1]) = {}
    BY DEF Targets, LatestLive, Freshest
<1> HIDE DEF reg
<1>4. CASE key \in Keys
    <2>1. SUFFICES ASSUME key \in TakenBy(k) PROVE FALSE
        OBVIOUS
    <2>2. k = key
        BY <1>4, <2>1, SessionsAssumption DEF TakenBy
    <2>3. CASE EntryAt(reg, key).online
        <3>1. ~Offline(reg, key)[k].online
            BY <1>1, <1>4, <2>2, OfflineFields
        <3> QED BY <1>2, <2>3, <3>1
    <2>4. CASE ~EntryAt(reg, key).online
        BY <1>2, <1>4, <2>2, <2>4 DEF EntryAt
    <2> QED BY <2>3, <2>4
<1>5. CASE key \notin Keys /\ LatestLive(reg, key[1]) = {}
    <2>1. registry' = reg
        BY <1>2, <1>5 DEF EntryAt, NoEntry
    <2>2. {j \in Keys : j[1] = key[1] /\ reg[j].online} = {}
        BY <1>1, <1>5, FreshestExists DEF LatestLive
    <2>3. k[1] # key[1]
        BY <2>1, <2>2
    <2> QED BY <1>5, <2>3 DEF TakenBy
<1> QED BY <1>3, <1>4, <1>5

LEMMA DeliverMail ==
    ASSUME TypeOK, NEW c \in Conns, NEW to \in Addresses,
           NEW key \in Targets(Touched(c), to), NEW m \in MsgIds, NEW kind, NEW re,
           DeliverToSession(Touched(c), m, key, kind, re)
    PROVE  StrandsNobody
<1> DEFINE reg    == Touched(c)
           direct == EntryAt(reg, key).online /\ Reaches(EntryAt(reg, key).identity)
<1>1. reg \in [Keys -> Entries] /\ box \in Boxes
    BY TouchedType DEF TypeOK
<1>2. \A k \in Keys : reg[k].online => registry[k].online
    BY TouchedFields
<1>3. CASE direct
    BY <1>2, <1>3, DeliverCases, MailShrinks
<1>4. CASE ~direct
    <2>1. /\ registry' = IF EntryAt(reg, key).online THEN Offline(reg, key) ELSE reg
          /\ box' = Put(box, m, key)
        BY <1>4, DeliverCases
    <2>2. EntryAt(reg, key).online => key \in Keys
        BY DEF EntryAt, NoEntry
    <2>3. ASSUME NEW k \in Keys, registry'[k].online
          PROVE  registry[k].online /\ MailFor(box', k) \subseteq MailFor(box, k)
        <3>1. key \notin TakenBy(k)
            BY <1>4, <2>3, StoredForNobodyOnline
        <3>2. MailFor(Put(box, m, key), k) \subseteq MailFor(box, k)
            BY <1>1, <3>1, PutMail
        <3>3. reg[k].online
            <4> HIDE DEF reg
            <4>1. CASE registry' = reg
                BY <2>3, <4>1
            <4>2. CASE EntryAt(reg, key).online /\ registry' = Offline(reg, key)
                <5>1. key \in Keys
                    BY <2>2, <4>2
                <5>2. /\ k = key => ~Offline(reg, key)[k].online
                      /\ k # key => Offline(reg, key)[k] = reg[k]
                    BY <1>1, <5>1, OfflineFields
                <5> QED BY <2>3, <4>2, <5>2
            <4> QED BY <2>1, <4>1, <4>2
        <3> QED BY <1>2, <2>1, <3>2, <3>3
    <2> QED BY <2>3, MailShrinks
<1> QED BY <1>3, <1>4

LEMMA SendMail ==
    ASSUME TypeOK, NEW c \in Conns, OnSend(c)
    PROVE  StrandsNobody
<1>1. SendOutcome(c) /\ sent + 1 \in MsgIds
    BY SendOutcomes, SendFrameType
<1>2. CASE registry' = Touched(c) /\ UNCHANGED box
    BY <1>2, TouchedFields, MailShrinks
<1>3. CASE \E to \in Addresses : \E key \in Targets(Touched(c), to), kind \in Kinds,
                                    re \in MsgIds \cup {NoMsg} :
              DeliverToSession(Touched(c), sent + 1, key, kind, re)
    BY <1>1, <1>3, DeliverMail
<1> QED BY <1>1, <1>2, <1>3 DEF SendOutcome, Refused, RoutedTo

\* A poll with a blank directory brings its session online and drains nothing.
LEMMA BadPollStrands ==
    ASSUME TypeOK, NEW c \in Conns, NEW key \in Keys, NEW cwd, OnPollBadCwd(c, key, cwd),
           NEW k \in Keys, Stranded(k)', k # key
    PROVE  Stranded(k)
<1> DEFINE dir == IF cwd \in Cwds THEN cwd ELSE registry[key].cwd
<1>1. /\ registry' = [Touched(c) EXCEPT ![key] =
                         [identity |-> c, online |-> TRUE, age |-> 0, cwd |-> dir]]
      /\ box' = box
    BY DEF OnPollBadCwd, Resolve
<1>2. Touched(c) \in [Keys -> Entries]
    BY TouchedType
<1> HIDE DEF dir
<1>3. registry'[k] = Touched(c)[k]
    BY <1>1, <1>2
<1>4. registry'[k].online => registry[k].online
    BY <1>3, TouchedFields
<1> QED BY <1>1, <1>4 DEF Stranded

\* What a step does to the mail: it strands nobody, unless it is such a poll.
LEMMA MailStep ==
    TypeOK /\ [Next]_vars
        => \/ StrandsNobody
           \/ \E c \in Conns, key \in Keys, cwd \in BadCwds : OnPollBadCwd(c, key, cwd)
<1> SUFFICES ASSUME TypeOK, [Next]_vars,
                    \A c \in Conns, key \in Keys, cwd \in BadCwds : ~OnPollBadCwd(c, key, cwd)
             PROVE  StrandsNobody
    OBVIOUS
<1>0. box \in Boxes
    BY DEF TypeOK
<1>1. ASSUME NEW c \in Conns, NEW key \in Keys, NEW cwd \in CwdField,
             \/ OnHello(c, key, cwd)
             \/ OnHelloBadCwd(c, key, cwd)
             \/ OnPoll(c, key, cwd)
             \/ OnPollBadCwd(c, key, cwd)
      PROVE  StrandsNobody
    <2>1. CASE OnHello(c, key, cwd)
        <3>1. Drain(c, key)
            BY <2>1 DEF OnHello
        <3> QED BY <2>1, <3>1, BindTakes DEF OnHello
    <2>2. CASE OnPoll(c, key, cwd)
        <3>1. Drain(c, key)
            BY <2>2 DEF OnPoll
        <3> QED BY <2>2, <3>1, BindTakes DEF OnPoll, Resolve
    <2>3. CASE OnHelloBadCwd(c, key, cwd)
        <3>1. registry' = Touched(c) /\ UNCHANGED box
            BY <2>3 DEF OnHelloBadCwd
        <3> QED BY <3>1, TouchedFields, MailShrinks
    <2>4. cwd \in BadCwds => ~OnPollBadCwd(c, key, cwd)
        OBVIOUS
    <2>5. ~OnPollBadCwd(c, key, cwd)
        BY <2>4 DEF OnPollBadCwd, CheckCwd
    <2> QED BY <1>1, <2>1, <2>2, <2>3, <2>5
<1>2. ASSUME NEW c \in Conns, OnPollMapped(c)
      PROVE  StrandsNobody
    <2> DEFINE key == identity_map[c]
    <2>1. key \in Keys
        BY <1>2 DEF OnPollMapped, TypeOK
    <2>2. box' = Take(box, key) /\ registry' = Touched(c)
        BY <1>2 DEF OnPollMapped, Drain
    <2> HIDE DEF key
    <2>3. \A k \in Keys : MailFor(Take(box, key), k) \subseteq MailFor(box, k)
        BY <1>0, <2>1, TakenMail
    <2> QED BY <2>2, <2>3, TouchedFields, MailShrinks
<1>3. ASSUME NEW c \in Conns, OnQuery(c) \/ OnBadRequest(c)
      PROVE  StrandsNobody
    <2>1. registry' = Touched(c) /\ UNCHANGED box
        BY <1>3 DEF OnQuery, OnBadRequest
    <2> QED BY <2>1, TouchedFields, MailShrinks
<1>4. ASSUME NEW c \in Conns, NEW key \in Keys, GoesOffline(c, key), UNCHANGED box
      PROVE  StrandsNobody
    <2>1. ASSUME NEW k \in Keys, registry'[k].online
          PROVE  registry[k].online
        <3>1. Touched(c) \in [Keys -> Entries] /\ registry' = Offline(Touched(c), key)
            BY <1>4, TouchedType DEF GoesOffline
        <3>2. (k = key => ~registry'[k].online) /\ (k # key => registry'[k] = Touched(c)[k])
            BY <3>1, OfflineFields
        <3> QED BY <2>1, <3>2, TouchedFields
    <2> QED BY <1>4, <2>1, MailShrinks
<1>5. ASSUME NEW c \in Conns, (\E key \in Keys : OnBye(c, key)) \/ OnByeMapped(c)
      PROVE  StrandsNobody
    <2>1. UNCHANGED box
        BY <1>5 DEF OnBye, OnByeMapped
    <2>2. CASE registry' = Touched(c)
        BY <2>1, <2>2, TouchedFields, MailShrinks
    <2>3. CASE UNCHANGED registry
        BY <2>1, <2>3, MailShrinks
    <2>4. identity_map[c] # NoKey => identity_map[c] \in Keys
        BY DEF TypeOK
    <2> QED BY <1>4, <1>5, <2>1, <2>2, <2>3, <2>4 DEF OnBye, OnByeMapped
<1>6. CASE Sweep
    <2>1. \A k \in Keys : ~Offline(registry, k)[k].online
        BY OfflineFields DEF TypeOK
    <2>2. \A k \in Keys : registry'[k].online => registry[k].online
        BY <1>6, <2>1 DEF Sweep
    <2>3. \A k \in Keys : MailFor(box', k) \subseteq MailFor(box, k)
        BY <1>0, <1>6, PrunedMail DEF Sweep
    <2> QED BY <2>2, <2>3, MailShrinks
<1>7. CASE Tick
    <2>1. \A k \in Keys : registry'[k].online => registry[k].online
        BY <1>7 DEF Tick
    <2>2. \A k \in Keys : MailFor(box', k) \subseteq MailFor(box, k)
        BY <1>0, <1>7, AgedMail DEF Tick
    <2> QED BY <2>1, <2>2, MailShrinks
<1>8. CASE Stop
    <2>1. \A key, k \in Keys : MailFor(Take(box, key), k) \subseteq MailFor(box, k)
        BY <1>0, TakenMail
    <2>2. \A k \in Keys : MailFor(box', k) \subseteq MailFor(box, k)
        BY <1>8, <2>1 DEF Stop
    <2> QED BY <1>8, <2>2, MailShrinks DEF Stop, memory
<1>9. CASE Start
    BY <1>9 DEF Start, NoEntry, StrandsNobody, Stranded
<1>10. CASE UNCHANGED <<registry, box>>
    BY <1>10, MailShrinks
<1> QED
    BY <1>1, <1>2, <1>3, <1>5, <1>6, <1>7, <1>8, <1>9, <1>10, SendMail
    DEF Next, Handle, ClientMoves, LoopDies, vars, memory

LEMMA StrandedStep ==
    TypeOK /\ [Next]_vars
        => \A key \in Keys : ~Stranded(key) /\ Stranded(key)'
              => \E c \in Conns, cwd \in BadCwds : OnPollBadCwd(c, key, cwd)
<1> SUFFICES ASSUME TypeOK, [Next]_vars, NEW key \in Keys, ~Stranded(key), Stranded(key)'
             PROVE  \E c \in Conns, cwd \in BadCwds : OnPollBadCwd(c, key, cwd)
    OBVIOUS
<1>1. ~StrandsNobody
    BY DEF StrandsNobody
<1>2. PICK c \in Conns, k \in Keys, cwd \in BadCwds : OnPollBadCwd(c, k, cwd)
    BY <1>1, MailStep
<1>3. k = key
    BY <1>2, BadPollStrands
<1> QED BY <1>2, <1>3

\* Nothing but a blank directory unsettles the hub: for any number of sessions,
\* connections and messages, a connection loses its entry by its own refused hello
\* only, and mail comes to stand behind an online session by a refused poll only.
THEOREM UnsettledCorrect == Spec => OnlyRefusalsUnsettle
<1>1. TypeOK /\ EntriesBound /\ [Next]_vars
        => [/\ \A c \in Conns : CanTouch(c) /\ ~CanTouch(c)'
                  => \E cwd \in BadCwds : OnHelloBadCwd(c, identity_map'[c], cwd)
            /\ \A key \in Keys : ~Stranded(key) /\ Stranded(key)'
                  => \E c \in Conns, cwd \in BadCwds : OnPollBadCwd(c, key, cwd)]_vars
    BY MappingsStep, StrandedStep
<1> QED BY <1>1, EntriesHold, TypeCorrect, PTL DEF Spec, OnlyRefusalsUnsettle

\* As long as no client sends a blank working directory, mail never waits behind
\* an online session, neither its own nor its bare name's, with any number of
\* sessions that share the name.
THEOREM MailboxCorrect == BadCwds = {} => (Spec => []NoMailBehindOnline)
<1>1. Init => NoMailBehindOnline
    BY DEF Init, NoEntry, NoMailBehindOnline, Stranded
<1>2. ASSUME BadCwds = {}
      PROVE  Spec => []NoMailBehindOnline
    <2>1. TypeOK /\ NoMailBehindOnline /\ [Next]_vars => NoMailBehindOnline'
        BY <1>2, StrandedStep DEF NoMailBehindOnline
    <2> QED BY <1>1, <2>1, TypeCorrect, PTL DEF Spec
<1> QED BY <1>2

-----------------------------------------------------------------------------
(* One copy of every message *)

\* Ids that have not been given out are nowhere.
FreshIds ==
    \A m \in MsgIds : m > sent =>
        /\ box[m] = NoRow
        /\ letters[m] = NoLetter
        /\ \A c \in Conns : m \notin inbox[c]

Custody == OneCopy /\ FreshIds

\* Mail moves from the mailbox to at most one connection, or is lost.
LEMMA MovedOnce ==
    ASSUME TypeOK, Custody, NEW c, NEW ms \in SUBSET MsgIds,
           ms \subseteq Stored(box), ms \cap Stored(box') = {},
           Stored(box') \subseteq Stored(box),
           \A d \in Conns : inbox'[d] \subseteq inbox[d] \cup (IF d = c THEN ms ELSE {}),
           UNCHANGED <<sent, letters>>
    PROVE  Custody'
<1>1. ASSUME NEW d \in Conns
      PROVE  inbox'[d] \cap Stored(box') = {}
    <2>1. inbox[d] \cap Stored(box) = {}
        BY DEF Custody, OneCopy
    <2> QED BY <2>1
<1>2. ASSUME NEW d \in Conns, NEW e \in Conns, d # e
      PROVE  inbox'[d] \cap inbox'[e] = {}
    <2>1. /\ inbox[d] \cap inbox[e] = {}
          /\ inbox[d] \cap Stored(box) = {}
          /\ inbox[e] \cap Stored(box) = {}
        BY <1>2 DEF Custody, OneCopy
    <2> QED BY <1>2, <2>1
<1>3. ASSUME NEW m \in MsgIds, m > sent'
      PROVE  /\ box'[m] = NoRow
             /\ letters'[m] = NoLetter
             /\ \A d \in Conns : m \notin inbox'[d]
    <2>1. /\ box[m] = NoRow /\ letters[m] = NoLetter
          /\ \A d \in Conns : m \notin inbox[d]
        BY <1>3 DEF Custody, FreshIds
    <2> QED BY <1>3, <2>1 DEF Stored
<1> QED BY <1>1, <1>2, <1>3 DEF Custody, OneCopy, FreshIds

\* A fresh message goes to the mailbox, or to one connection, or nowhere.
LEMMA PlacedOnce ==
    ASSUME TypeOK, Custody, sent + 1 \in MsgIds, sent' = sent + 1, NEW c,
           \/ /\ inbox' = inbox
              /\ \A m \in MsgIds : m # sent + 1 => box'[m] = box[m]
           \/ /\ box' = box
              /\ \A d \in Conns : inbox'[d] \subseteq inbox[d]
                                     \cup (IF d = c THEN {sent + 1} ELSE {}),
           \A m \in MsgIds : m # sent + 1 => letters'[m] = letters[m]
    PROVE  Custody'
<1> DEFINE new == sent + 1
<1>0. new \in MsgIds /\ sent \in Nat
    BY DEF TypeOK
<1>1. new \notin Stored(box) /\ \A d \in Conns : new \notin inbox[d]
    BY <1>0 DEF Custody, FreshIds, Stored
<1>2. ASSUME NEW m \in MsgIds, m > sent'
      PROVE  m # new /\ m > sent
    BY <1>2, <1>0
<1> HIDE DEF new
<1>3. \A d, e \in Conns : /\ inbox[d] \cap Stored(box) = {}
                          /\ d # e => inbox[d] \cap inbox[e] = {}
    BY DEF Custody, OneCopy
<1>4. CASE inbox' = inbox /\ \A m \in MsgIds : m # new => box'[m] = box[m]
    <2>1. Stored(box') \subseteq Stored(box) \cup {new}
        BY <1>4 DEF Stored
    <2>2. OneCopy'
        BY <1>1, <1>3, <1>4, <2>1 DEF OneCopy
    <2>3. FreshIds'
        BY <1>2, <1>4 DEF Custody, FreshIds, new
    <2> QED BY <2>2, <2>3 DEF Custody
<1>5. CASE /\ box' = box
           /\ \A d \in Conns : inbox'[d] \subseteq inbox[d] \cup (IF d = c THEN {new} ELSE {})
    <2>1. \A d \in Conns : inbox'[d] \cap Stored(box) = {}
        BY <1>1, <1>3, <1>5
    <2>2. ASSUME NEW d \in Conns, NEW e \in Conns, d # e
          PROVE  inbox'[d] \cap inbox'[e] = {}
        BY <1>1, <1>3, <1>5, <2>2
    <2>3. OneCopy'
        BY <1>5, <2>1, <2>2 DEF OneCopy
    <2>4. FreshIds'
        <3> SUFFICES ASSUME NEW m \in MsgIds, m > sent'
                     PROVE  /\ box'[m] = NoRow /\ letters'[m] = NoLetter
                            /\ \A d \in Conns : m \notin inbox'[d]
            BY DEF FreshIds
        <3>1. m # new /\ m > sent
            BY <1>2
        <3> QED BY <1>5, <3>1 DEF Custody, FreshIds, new
    <2> QED BY <2>3, <2>4 DEF Custody
<1> QED BY <1>4, <1>5 DEF new

\* Frames reach one connection at most.
LEMMA WrittenOnce ==
    ASSUME TypeOK, NEW c, NEW ms \in SUBSET MsgIds, Written(c, ms), NEW d \in Conns
    PROVE  inbox'[d] \subseteq inbox[d] \cup (IF d = c THEN ms ELSE {})
BY DEF Written, TypeOK, WireTypeOK

LEMMA DrainMoves ==
    ASSUME TypeOK, Custody, NEW c \in Conns, NEW key \in Keys, Drain(c, key),
           UNCHANGED <<sent, letters>>
    PROVE  Custody'
<1> DEFINE ms == MailFor(box, key)
<1>1. ms \in SUBSET MsgIds /\ ms \subseteq Stored(box)
    BY NoKeyAssumption DEF MailFor, Stored, TakenBy, NoRow
<1>2. ms \cap Stored(box') = {} /\ Stored(box') \subseteq Stored(box)
    BY DEF Drain, Take, Stored
<1>3. \A d \in Conns : inbox'[d] \subseteq inbox[d] \cup (IF d = c THEN ms ELSE {})
    BY <1>1, WrittenOnce DEF Drain
<1> HIDE DEF ms
<1> QED BY <1>1, <1>2, <1>3, MovedOnce

\* A step that only loses mail.
LEMMA OnlyLost ==
    ASSUME TypeOK, Custody, Stored(box') \subseteq Stored(box),
           \A d \in Conns : inbox'[d] \subseteq inbox[d],
           UNCHANGED <<sent, letters>>
    PROVE  Custody'
<1> DEFINE none == {}
<1>1. /\ none \in SUBSET MsgIds /\ none \subseteq Stored(box)
      /\ none \cap Stored(box') = {}
      /\ \A d \in Conns : inbox'[d] \subseteq inbox[d] \cup (IF d = NoConn THEN none ELSE {})
    OBVIOUS
<1> HIDE DEF none
<1> QED BY <1>1, MovedOnce

LEMMA SendPlaces ==
    ASSUME TypeOK, Custody, NEW c \in Conns, OnSend(c)
    PROVE  Custody'
<1> DEFINE new == sent + 1
<1>1. SendOutcome(c) /\ new \in MsgIds /\ sent' = new
    BY SendOutcomes, SendFrameType
<1>2. letters \in [MsgIds -> Letters] /\ inbox \in [Conns -> SUBSET MsgIds] /\ box \in Boxes
    BY DEF TypeOK, WireTypeOK
<1>3. ASSUME NEW kind, NEW to, NEW re, NEW status, Post(new, kind, to, re, status)
      PROVE  \A m \in MsgIds : m # new => letters'[m] = letters[m]
    BY <1>2, <1>3 DEF Post
<1>4. CASE \E kind, to, re, status : /\ Post(new, kind, to, re, status)
                                     /\ UNCHANGED <<box, inbox>>
    BY <1>1, <1>3, <1>4, PlacedOnce
<1>5. CASE \E target, kind, to, re, status : /\ Post(new, kind, to, re, status)
                                             /\ Written(target, {new})
                                             /\ UNCHANGED box
    <2>1. PICK target : Written(target, {new})
        BY <1>5
    <2>2. {new} \in SUBSET MsgIds
        BY <1>1
    <2>3. \A d \in Conns : inbox'[d] \subseteq inbox[d] \cup (IF d = target THEN {new} ELSE {})
        BY <2>1, <2>2, WrittenOnce
    <2> QED BY <1>1, <1>3, <1>5, <2>3, PlacedOnce
<1>6. CASE \E key, kind, re : /\ Post(new, kind, key, re, "queued")
                              /\ box' = Put(box, new, key)
                              /\ UNCHANGED inbox
    <2>1. PICK key, kind, re : /\ Post(new, kind, key, re, "queued")
                               /\ box' = Put(box, new, key)
                               /\ inbox' = inbox
        BY <1>6
    <2>2. \A m \in MsgIds : m # new => box'[m] = box[m]
        BY <1>2, <2>1 DEF Put, Boxes
    <2>3. \A m \in MsgIds : m # new => letters'[m] = letters[m]
        BY <1>3, <2>1
    <2>4. inbox' = inbox
        BY <2>1
    <2> QED BY <1>1, <2>2, <2>3, <2>4, PlacedOnce
<1> HIDE DEF new
<1>7. ASSUME NEW key, NEW kind, NEW re, DeliverToSession(Touched(c), new, key, kind, re)
      PROVE  Custody'
    BY <1>5, <1>6, <1>7, DeliverCases
<1>8. CASE \E re : Refused(c, new, re)
    BY <1>4, <1>8 DEF Refused
<1>9. CASE \E target, kind, re : RoutedTo(c, target, new, kind, re)
    BY <1>5, <1>9 DEF RoutedTo
<1>10. CASE Post(new, Tell, NoKey, NoMsg, "lost") /\ UNCHANGED <<box, inbox>>
    BY <1>4, <1>10
<1> QED BY <1>1, <1>7, <1>8, <1>9, <1>10 DEF SendOutcome, new

LEMMA CustodyStep == TypeOK /\ Custody /\ [Next]_vars => Custody'
<1> SUFFICES ASSUME TypeOK, Custody, [Next]_vars
             PROVE  Custody'
    OBVIOUS
<1>1. ASSUME NEW c \in Conns, Handle(c)
      PROVE  Custody'
    <2>1. ASSUME NEW key \in Keys, Drain(c, key), UNCHANGED <<sent, letters>>
          PROVE  Custody'
        BY <2>1, DrainMoves
    <2>2. CASE UNCHANGED <<box, inbox, sent, letters>>
        BY <2>2, OnlyLost
    <2>3. ASSUME OnPollMapped(c)
          PROVE  identity_map[c] \in Keys
        BY <2>3 DEF OnPollMapped, TypeOK
    <2> QED
        BY <1>1, <2>1, <2>2, <2>3, SendPlaces
        DEF Handle, OnHello, OnHelloBadCwd, OnPoll, OnPollBadCwd, OnPollMapped, OnBye,
            OnByeMapped, OnQuery, OnBadRequest, LoopDies, history
<1>2. CASE Sweep
    <2>1. Stored(box') \subseteq Stored(box)
        BY <1>2 DEF Sweep, Prune, Stored
    <2> QED BY <1>2, <2>1, OnlyLost DEF Sweep, wireVars
<1>3. CASE Tick
    <2>1. Stored(box') \subseteq Stored(box)
        BY <1>3 DEF Tick, AgeRows, Stored
    <2> QED BY <1>3, <2>1, OnlyLost DEF Tick, history, wireVars
<1>4. CASE Stop
    <2>1. \A key \in Keys : Stored(Take(box, key)) \subseteq Stored(box)
        BY DEF Take, Stored
    <2>2. Stored(box') \subseteq Stored(box)
        BY <1>4, <2>1 DEF Stop
    <2> QED BY <1>4, <2>2, OnlyLost DEF Stop, history, wireVars
<1>5. CASE Start
    BY <1>5, OnlyLost DEF Start, Severed
<1>6. CASE UNCHANGED <<box, inbox, sent, letters>>
    BY <1>6, OnlyLost
<1> QED
    BY <1>1, <1>2, <1>3, <1>4, <1>5, <1>6
    DEF Next, ClientMoves, Connect, Close, Notice, vars, history, wireVars

LEMMA CustodyHolds == Spec => []Custody
<1>1. Init => Custody
    BY DEF Init, WireInit, EmptyBox, Stored, Custody, OneCopy, FreshIds
<1> QED BY <1>1, CustodyStep, TypeCorrect, PTL DEF Spec

\* No message is ever both kept and delivered, or delivered to two connections:
\* not by drains, not by failed sends, not by restarts of the hub.
THEOREM OneCopyCorrect == Spec => []OneCopy
<1>1. Custody => OneCopy
    BY DEF Custody
<1> QED BY <1>1, CustodyHolds, PTL

-----------------------------------------------------------------------------
(* Nothing is overtaken *)

\* No letter changes and no session's mail grows.
LEMMA OrderKept ==
    ASSUME NoOvertaking, UNCHANGED letters,
           \A k \in Keys : MailFor(box', k) \subseteq MailFor(box, k)
    PROVE  NoOvertaking'
BY DEF NoOvertaking

\* A fresh message that is not delivered to a session, and may be stored.
LEMMA StoredLast ==
    ASSUME TypeOK, Custody, NoOvertaking, sent + 1 \in MsgIds,
           letters'[sent + 1].status = "delivered" => letters'[sent + 1].to \notin Keys,
           \A m \in MsgIds : m # sent + 1 => letters'[m] = letters[m] /\ box'[m] = box[m]
    PROVE  NoOvertaking'
<1> SUFFICES ASSUME NEW m \in MsgIds, letters'[m].status = "delivered", letters'[m].to \in Keys,
                    NEW earlier \in MailFor(box', letters'[m].to)
             PROVE  earlier > m
    BY DEF NoOvertaking
<1>1. m # sent + 1 /\ letters'[m] = letters[m] /\ sent \in Nat
    BY DEF TypeOK
<1>2. m <= sent
    BY <1>1 DEF Custody, FreshIds, NoLetter
<1>3. CASE earlier = sent + 1
    BY <1>1, <1>2, <1>3
<1>4. CASE earlier # sent + 1
    <2>1. earlier \in MailFor(box, letters[m].to)
        BY <1>1, <1>4 DEF MailFor
    <2> QED BY <1>1, <2>1 DEF NoOvertaking
<1> QED BY <1>3, <1>4

LEMMA SendOrder ==
    ASSUME TypeOK, Custody, NoMailBehindOnline, NoOvertaking, NEW c \in Conns, OnSend(c)
    PROVE  NoOvertaking'
<1> DEFINE new == sent + 1
<1>1. SendOutcome(c) /\ new \in MsgIds
    BY SendOutcomes, SendFrameType
<1>2. letters \in [MsgIds -> Letters] /\ box \in Boxes
    BY DEF TypeOK
<1>3. ASSUME NEW kind, NEW to, NEW re, NEW status, Post(new, kind, to, re, status)
      PROVE  /\ letters'[new].status = status /\ letters'[new].to = to
             /\ \A m \in MsgIds : m # new => letters'[m] = letters[m]
    BY <1>1, <1>2, <1>3 DEF Post
<1>4. ASSUME NEW kind, NEW to, NEW re, NEW status, Post(new, kind, to, re, status),
             status = "delivered" => to \notin Keys,
             \A m \in MsgIds : m # new => box'[m] = box[m]
      PROVE  NoOvertaking'
    BY <1>1, <1>3, <1>4, StoredLast
<1> HIDE DEF new
<1>5. CASE \E re \in MsgIds \cup {NoMsg} : Refused(c, new, re)
    BY <1>4, <1>5 DEF Refused
<1>6. CASE \E target, kind, re : RoutedTo(c, target, new, kind, re)
    BY <1>4, <1>6, NoKeyAssumption DEF RoutedTo
<1>7. CASE Post(new, Tell, NoKey, NoMsg, "lost") /\ UNCHANGED box
    BY <1>4, <1>7
<1>8. ASSUME NEW key, NEW kind, NEW re, DeliverToSession(Touched(c), new, key, kind, re)
      PROVE  NoOvertaking'
    <2>1. CASE /\ box' = Put(box, new, key)
               /\ Post(new, kind, key, re, "queued")
        <3>1. \A m \in MsgIds : m # new => box'[m] = box[m]
            BY <1>2, <2>1 DEF Put, Boxes
        <3> QED BY <1>4, <2>1, <3>1
    <2>2. CASE /\ EntryAt(Touched(c), key).online
               /\ Post(new, kind, key, re, "delivered")
               /\ UNCHANGED box
        <3>1. key \in Keys
            BY <2>2 DEF EntryAt, NoEntry
        <3>2. registry[key].online
            BY <2>2, <3>1, TouchedFields DEF EntryAt
        <3>3. MailFor(box', key) = {}
            BY <2>2, <3>1, <3>2 DEF NoMailBehindOnline, Stranded, MailFor
        <3>4. /\ letters'[new].to = key
              /\ \A m \in MsgIds : m # new => letters'[m] = letters[m]
            BY <1>3, <2>2
        <3> SUFFICES ASSUME NEW m \in MsgIds, letters'[m].status = "delivered",
                            letters'[m].to \in Keys, NEW earlier \in MailFor(box', letters'[m].to)
                     PROVE  earlier > m
            BY DEF NoOvertaking
        <3>5. m # new
            BY <3>3, <3>4
        <3>6. letters'[m] = letters[m] /\ box' = box
            BY <2>2, <3>4, <3>5
        <3> QED BY <3>6 DEF NoOvertaking
    <2> QED BY <1>8, <2>1, <2>2, DeliverCases
<1> QED BY <1>1, <1>5, <1>6, <1>7, <1>8 DEF SendOutcome, new

LEMMA OrderStep ==
    TypeOK /\ Custody /\ NoMailBehindOnline /\ NoOvertaking /\ [Next]_vars => NoOvertaking'
<1> SUFFICES ASSUME TypeOK, Custody, NoMailBehindOnline, NoOvertaking, [Next]_vars
             PROVE  NoOvertaking'
    OBVIOUS
<1>0. box \in Boxes
    BY DEF TypeOK
<1>1. \A key, k \in Keys : MailFor(Take(box, key), k) \subseteq MailFor(box, k)
    BY <1>0, TakenMail
<1>2. ASSUME NEW c \in Conns, Handle(c)
      PROVE  NoOvertaking'
    <2>1. CASE UNCHANGED <<letters, box>>
        BY <2>1, OrderKept
    <2>2. CASE UNCHANGED letters /\ \E key \in Keys : Drain(c, key)
        BY <1>1, <2>2, OrderKept DEF Drain
    <2>3. ASSUME OnPollMapped(c)
          PROVE  identity_map[c] \in Keys
        BY <2>3 DEF OnPollMapped, TypeOK
    <2> QED
        BY <1>2, <2>1, <2>2, <2>3, SendOrder
        DEF Handle, OnHello, OnHelloBadCwd, OnPoll, OnPollBadCwd, OnPollMapped, OnBye,
            OnByeMapped, OnQuery, OnBadRequest, LoopDies, history
<1>3. CASE Sweep
    BY <1>0, <1>3, PrunedMail, OrderKept DEF Sweep
<1>4. CASE Tick
    BY <1>0, <1>4, AgedMail, OrderKept DEF Tick, history
<1>5. CASE Stop
    <2>1. \A k \in Keys : MailFor(box', k) \subseteq MailFor(box, k)
        BY <1>1, <1>5 DEF Stop
    <2> QED BY <1>5, <2>1, OrderKept DEF Stop, history
<1>6. CASE UNCHANGED <<letters, box>>
    BY <1>6, OrderKept
<1> QED
    BY <1>2, <1>3, <1>4, <1>5, <1>6 DEF Next, Start, ClientMoves, vars, history

\* As long as no client sends a blank working directory, what a session is given
\* directly never overtakes mail that waits for it.
THEOREM OrderCorrect == BadCwds = {} => (Spec => []NoOvertaking)
<1>1. Init => NoOvertaking
    BY DEF Init, NoLetter, NoOvertaking
<1>2. ASSUME BadCwds = {}
      PROVE  Spec => []NoOvertaking
    <2>1. BadCwds = {}
        BY <1>2
    <2>2. Spec => []NoMailBehindOnline
        BY <2>1, MailboxCorrect
    <2> QED BY <1>1, <2>2, OrderStep, CustodyHolds, TypeCorrect, PTL DEF Spec
<1> QED BY <1>2
=============================================================================
