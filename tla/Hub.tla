-------------------------------- MODULE Hub ---------------------------------
(***************************************************************************)
(* The ocahub broker (ocahub/daemon.py): a registry of sessions, the       *)
(* mapping from connections to sessions, the ask ledger, the pending table *)
(* for replies, and the durable mailbox.                                   *)
(*                                                                         *)
(* One action is one frame handled by router_loop, one pass of the sweeper,*)
(* or a move of the outside world.  The handlers await only ZeroMQ sends,  *)
(* which complete without yielding unless a pipe is full, so a handler and *)
(* a sweep never interleave.                                               *)
(***************************************************************************)
EXTENDS Mailbox, Wire

CONSTANTS
    SessionTTL,   \* SESSION_TTL
    PendingTTL,   \* PENDING_TTL
    AskTTL,       \* ASK_TTL
    UsedKinds,    \* bound: the kinds of messages clients send
    MaxStarts     \* bound: how often the hub is started again

ASSUME TTLAssumption == /\ SessionTTL \in Nat
                        /\ PendingTTL \in Nat
                        /\ AskTTL \in Nat
                        /\ MaxStarts \in Nat
ASSUME UsedKindsAssumption == UsedKinds \subseteq Kinds

VARIABLES
    hub,            \* "running", "stopped" (killed) or "dead" (an exception left router_loop)
    registry,       \* (name, session) -> the session's entry
    identity_map,   \* connection -> (name, session)
    pending,        \* message id -> the connection that sent it
    asks,           \* message id -> the ask ledger's record
    box,            \* the mailbox table; outlives the process
    \* History: what the hub has said so far.
    sent,           \* the number of sends handled
    letters,        \* message id -> what became of that send
    announced,      \* (name, session) -> the last session event published
    starts          \* restarts so far

memory  == <<registry, identity_map, pending, asks>>
history == <<sent, letters, announced, starts>>
vars    == <<hub, memory, box, history, wireVars>>

-----------------------------------------------------------------------------
(* Records *)

Entries == [identity : MaybeConn, online : BOOLEAN, age : Ages(SessionTTL), cwd : MaybeCwd]
NoEntry == [identity |-> NoConn, online |-> FALSE, age |-> 0, cwd |-> NoCwd]

PendingRecords == [conn : MaybeConn, age : Ages(PendingTTL)]
NoPending      == [conn |-> NoConn, age |-> 0]

AskRecords == [target : Addresses \cup {NoKey}, from : MaybeConn, age : Ages(AskTTL)]
NoAsk      == [target |-> NoKey, from |-> NoConn, age |-> 0]

\* kind is the Deliver's, after a reply's degradation; to is the address it was
\* delivered or stored under (NoKey: straight to a connection); re is the open
\* ask it settled, if it was a reply to one; status is what the hub answers.
Letters  == [kind : Kinds, to : Addresses \cup {NoKey}, re : MsgIds \cup {NoMsg},
             status : {"unsent", "delivered", "queued", "lost", "refused"}]
NoLetter == [kind |-> Tell, to |-> NoKey, re |-> NoMsg, status |-> "unsent"]

\* Every variable has a value of the right shape.
TypeOK ==
    /\ hub \in {"running", "stopped", "dead"}
    /\ registry \in [Keys -> Entries]
    /\ identity_map \in [Conns -> MaybeKey]
    /\ pending \in [MsgIds -> PendingRecords]
    /\ asks \in [MsgIds -> AskRecords]
    /\ box \in Boxes
    /\ sent \in 0..MaxMsgs
    /\ letters \in [MsgIds -> Letters]
    /\ announced \in [Keys -> {"none", "up", "down"}]
    /\ starts \in 0..MaxStarts
    /\ WireTypeOK

Init ==
    /\ hub = "running"
    /\ registry = [k \in Keys |-> NoEntry]
    /\ identity_map = [c \in Conns |-> NoKey]
    /\ pending = [m \in MsgIds |-> NoPending]
    /\ asks = [m \in MsgIds |-> NoAsk]
    /\ announced = [k \in Keys |-> "none"]
    /\ box = EmptyBox
    /\ sent = 0
    /\ letters = [m \in MsgIds |-> NoLetter]
    /\ starts = 0
    /\ WireInit

-----------------------------------------------------------------------------
(* The loop around the handlers: router_loop *)

\* The lookup that refreshes last_seen happens outside the try block.
CanTouch(c) == identity_map[c] # NoKey => registry[identity_map[c]] # NoEntry

Touched(c) ==
    IF identity_map[c] = NoKey THEN registry
    ELSE [registry EXCEPT ![identity_map[c]].age = 0]

\* A frame of c reaches its handler.
Frame(c) ==
    /\ hub = "running"
    /\ HasRequest(c)
    /\ CanTouch(c)
    /\ Received(c)

\* An ack that cannot be sent is swallowed by the catch-all.
Acked == hub' = hub

\* The error for a ProtocolError is sent inside that except clause: if the send
\* fails, the second exception leaves the loop.
Failed(c) == hub' = IF Reaches(c) THEN hub ELSE "dead"

\* KeyError on the lookup.
LoopDies(c) ==
    /\ hub = "running"
    /\ HasRequest(c)
    /\ ~CanTouch(c)
    /\ Received(c)
    /\ hub' = "dead"
    /\ UNCHANGED <<memory, box, history, client, route, inbox>>

-----------------------------------------------------------------------------
(* Presence and routing *)

\* Slip: the entry keeps its online flag.
StaysOnline(reg, k) == reg

\* Nobody reads the age of an offline session before it is set again.
Offline(reg, k) == [reg EXCEPT ![k] = [@ EXCEPT !.online = FALSE, !.age = 0]]

\* Slip: only a session's first coming online is announced.
SetOnlineOnce(k) ==
    announced' = [announced EXCEPT ![k] = IF registry[k] = NoEntry THEN "up" ELSE @]

SetOnline(k) == announced' = [announced EXCEPT ![k] = IF registry[k].online THEN @ ELSE "up"]

Unmapped(c) == IF c \in Conns THEN [identity_map EXCEPT ![c] = NoKey] ELSE identity_map

\* The most recently seen of a set of sessions.  Equal ages (the model's clock
\* is coarser than the code's) leave the choice open.
Freshest(reg, live) == {k \in live : \A other \in live : reg[k].age <= reg[other].age}

LatestLive(reg, name) == Freshest(reg, {k \in Keys : k[1] = name /\ reg[k].online})

LatestLiveByCwd(reg, cwd) ==
    Freshest(reg, {k \in Keys : /\ reg[k].online
                                /\ reg[k].cwd # NoCwd
                                /\ CwdMatch(reg[k].cwd, cwd)})

\* The keys a 'to' may stand for: a session's address stands for itself, a bare
\* name for its latest live session or, with none live, for itself.
Targets(reg, to) ==
    IF to \in Keys \/ LatestLive(reg, to[1]) = {} THEN {to}
    ELSE LatestLive(reg, to[1])

Post(m, kind, to, re, status) ==
    letters' = [letters EXCEPT ![m] = [kind |-> kind, to |-> to, re |-> re, status |-> status]]

EntryAt(reg, key) == IF key \in Keys THEN reg[key] ELSE NoEntry

\* _deliver_to_session: onto the session's connection if it is online and the
\* send works, else into the mailbox, and then the session is offline.
DeliverToSession(reg, m, key, kind, re) ==
    LET entry == EntryAt(reg, key)
    IN  \/ /\ entry.online /\ Reaches(entry.identity)
           /\ Written(entry.identity, {m})
           /\ Post(m, kind, key, re, "delivered")
           /\ registry' = reg
           /\ UNCHANGED <<announced, box>>
        \/ /\ ~(entry.online /\ Reaches(entry.identity))
           /\ registry' = IF entry.online THEN Offline(reg, key) ELSE reg
           /\ announced' = IF entry.online THEN [announced EXCEPT ![key] = "down"] ELSE announced
           /\ box' = Put(box, m, key)
           /\ Post(m, kind, key, re, "queued")
           /\ UNCHANGED inbox

-----------------------------------------------------------------------------
(* Handlers: sessions *)

\* Slip: the mail waits for the next poll.
DrainLater(c, key) == UNCHANGED <<box, inbox>>

\* The mail of key goes to connection c; the rows are deleted first.
Drain(c, key) ==
    /\ box' = Take(box, key)
    /\ Written(c, MailFor(box, key))

OnHello(c, key, cwd) ==
    /\ Frame(c)
    /\ CheckCwd(cwd)
    /\ identity_map' = [Unmapped(registry[key].identity) EXCEPT ![c] = key]
    /\ registry' = [Touched(c) EXCEPT ![key] =
                        [identity |-> c, online |-> TRUE, age |-> 0,
                         cwd |-> IF cwd = NoCwd THEN registry[key].cwd ELSE cwd]]
    /\ SetOnline(key)
    /\ Drain(c, key)
    /\ Acked
    /\ UNCHANGED <<pending, asks, sent, letters, starts, client, route>>

\* A hello with a blank cwd is refused after the connection has been mapped.
OnHelloBadCwd(c, key, cwd) ==
    /\ Frame(c)
    /\ ~CheckCwd(cwd)
    /\ identity_map' = [Unmapped(registry[key].identity) EXCEPT ![c] = key]
    /\ registry' = Touched(c)
    /\ Failed(c)
    /\ UNCHANGED <<pending, asks, box, history, client, route, inbox>>

\* _resolve_session with an explicit key: the entry is bound to the caller.
\* Unlike hello it leaves the mapping of the connection it replaces.
Resolve(c, key, cwd) ==
    /\ identity_map' = [identity_map EXCEPT ![c] = key]
    /\ registry' = [Touched(c) EXCEPT ![key] =
                        [identity |-> c, online |-> TRUE, age |-> 0,
                         cwd |-> IF cwd \in Cwds THEN cwd ELSE registry[key].cwd]]
    /\ SetOnline(key)

OnPoll(c, key, cwd) ==
    /\ Frame(c)
    /\ CheckCwd(cwd)
    /\ Resolve(c, key, cwd)
    /\ Drain(c, key)
    /\ Acked
    /\ UNCHANGED <<pending, asks, sent, letters, starts, client, route>>

\* A poll with a blank cwd is refused when the session is already bound and
\* online, before its mail is drained.
OnPollBadCwd(c, key, cwd) ==
    /\ Frame(c)
    /\ ~CheckCwd(cwd)
    /\ Resolve(c, key, cwd)
    /\ Failed(c)
    /\ UNCHANGED <<pending, asks, box, sent, letters, starts, client, route, inbox>>

\* A poll without a key drains the session the connection is mapped to.
OnPollMapped(c) ==
    /\ Frame(c)
    /\ identity_map[c] # NoKey
    /\ registry' = Touched(c)
    /\ Drain(c, identity_map[c])
    /\ Acked
    /\ UNCHANGED <<identity_map, pending, asks, history, client, route>>

\* Slip: a bye forgets the session.
Forgets(c, key) ==
    /\ registry' = [Touched(c) EXCEPT ![key] = NoEntry]
    /\ announced' = [announced EXCEPT ![key] = "down"]

GoesOffline(c, key) ==
    /\ registry' = Offline(Touched(c), key)
    /\ announced' = [announced EXCEPT ![key] = "down"]

\* A bye that names a session takes it offline, whoever sends it.
OnBye(c, key) ==
    /\ Frame(c)
    /\ \/ /\ registry[key] # NoEntry
          /\ identity_map' = Unmapped(registry[key].identity)
          /\ GoesOffline(c, key)
       \/ /\ registry[key] = NoEntry
          /\ registry' = Touched(c)
          /\ UNCHANGED <<identity_map, announced>>
    /\ Acked
    /\ UNCHANGED <<pending, asks, box, sent, letters, starts, client, route, inbox>>

OnByeMapped(c) ==
    /\ Frame(c)
    /\ identity_map' = Unmapped(c)
    /\ \/ /\ identity_map[c] # NoKey
          /\ GoesOffline(c, identity_map[c])
       \/ /\ identity_map[c] = NoKey
          /\ UNCHANGED <<registry, announced>>
    /\ Acked
    /\ UNCHANGED <<pending, asks, box, sent, letters, starts, client, route, inbox>>

\* ping, who, broadcast, and asks with a key or a mapping: they only read.
OnQuery(c) ==
    /\ Frame(c)
    /\ registry' = Touched(c)
    /\ Acked
    /\ UNCHANGED <<identity_map, pending, asks, box, history, client, route, inbox>>

\* What a handler refuses before it has changed anything: a frame that does not
\* parse, an unknown type, a bad name, a poll or an asks without key or mapping.
OnBadRequest(c) ==
    /\ Frame(c)
    /\ registry' = Touched(c)
    /\ Failed(c)
    /\ UNCHANGED <<identity_map, pending, asks, box, history, client, route, inbox>>

-----------------------------------------------------------------------------
(* Handlers: send *)

\* Every send is remembered first, so that a reply to it can find its way.
SendFrame(c) ==
    /\ Frame(c)
    /\ sent < MaxMsgs
    /\ sent' = sent + 1
    /\ pending' = [pending EXCEPT ![sent + 1] = [conn |-> c, age |-> 0]]
    /\ UNCHANGED <<identity_map, starts, client, route>>

\* The send is refused; whatever it did before stays done.
Refused(c, m, re) ==
    /\ Post(m, Tell, NoKey, re, "refused")
    /\ registry' = Touched(c)
    /\ Failed(c)
    /\ UNCHANGED <<announced, box, inbox>>

\* Onto the connection of target, past the registry.
RoutedTo(c, target, m, kind, re) ==
    /\ Reaches(target)
    /\ Written(target, {m})
    /\ Post(m, kind, NoKey, re, "delivered")
    /\ registry' = Touched(c)
    /\ Acked
    /\ UNCHANGED <<announced, box>>

\* Who a reply to message re goes to: the asker, else whoever sent re.
ReplyTarget(re) == IF asks[re] # NoAsk THEN asks[re].from ELSE pending[re].conn

ReplyKind(re) == IF asks[re] # NoAsk THEN Reply ELSE Tell

OpenAsk(re) == IF asks[re] # NoAsk THEN re ELSE NoMsg

\* Slip: a reply looks its ask up and leaves it in the ledger.
LeftOpen(re) == asks' = asks

Settled(re) == asks' = [asks EXCEPT ![re] = NoAsk]

\* A reply settles its ask before it is known to arrive: it goes to the asker's
\* connection, else to the address it names, else it is refused.
SendReply(c, re) ==
    LET m == sent + 1 IN
    /\ SendFrame(c)
    /\ re # m
    /\ Settled(re)
    /\ \/ RoutedTo(c, ReplyTarget(re), m, ReplyKind(re), OpenAsk(re))
       \/ /\ ~Reaches(ReplyTarget(re))
          /\ \E to \in Addresses : \E key \in Targets(Touched(c), to) :
                DeliverToSession(Touched(c), m, key, ReplyKind(re), OpenAsk(re))
          /\ Acked
       \/ /\ ~Reaches(ReplyTarget(re))
          /\ Refused(c, m, OpenAsk(re))

\* A tell or an ask that only names the message it answers.  It keeps its kind
\* and never enters the ledger.
SendThrough(c, kind, re) ==
    LET m == sent + 1 IN
    /\ SendFrame(c)
    /\ re # m
    /\ kind # Reply
    /\ \/ RoutedTo(c, pending[re].conn, m, kind, NoMsg)
       \/ /\ pending[re] # NoPending
          /\ ~Reaches(pending[re].conn)
          /\ Post(m, Tell, NoKey, NoMsg, "lost")
          /\ registry' = Touched(c)
          /\ Acked
          /\ UNCHANGED <<announced, box, inbox>>
       \/ /\ pending[re] = NoPending
          /\ Refused(c, m, NoMsg)
    /\ UNCHANGED asks

\* _on_send enters asks alone into the ledger.
Ledgered(m, kind, key, c) ==
    asks' = IF kind = Ask
            THEN [asks EXCEPT ![m] = [target |-> key, from |-> c, age |-> 0]]
            ELSE asks

\* A send to an address.
SendTo(c, kind, to) ==
    LET m == sent + 1 IN
    /\ SendFrame(c)
    /\ \E key \in Targets(Touched(c), to) :
          /\ DeliverToSession(Touched(c), m, key, kind, NoMsg)
          /\ Ledgered(m, kind, key, c)
    /\ Acked

\* A send to whoever works in a directory.
SendToCwd(c, kind, cwd) ==
    LET m    == sent + 1
        live == LatestLiveByCwd(Touched(c), cwd)
    IN
    /\ SendFrame(c)
    /\ \/ /\ \E key \in live :
                /\ DeliverToSession(Touched(c), m, key, kind, NoMsg)
                /\ Ledgered(m, kind, key, c)
          /\ Acked
       \/ /\ live = {}
          /\ Refused(c, m, NoMsg)
          /\ UNCHANGED asks

\* A send that names no target at all, or a name check_name refuses.
SendNowhere(c) ==
    /\ SendFrame(c)
    /\ Refused(c, sent + 1, NoMsg)
    /\ UNCHANGED asks

OnSend(c) ==
    \/ Reply \in UsedKinds /\ \E re \in MsgIds : SendReply(c, re)
    \/ \E kind \in UsedKinds, re \in MsgIds : SendThrough(c, kind, re)
    \/ \E kind \in UsedKinds, to \in Addresses : SendTo(c, kind, to)
    \/ \E kind \in UsedKinds, cwd \in Cwds : SendToCwd(c, kind, cwd)
    \/ SendNowhere(c)

-----------------------------------------------------------------------------
(* The sweeper, the clock, the process *)

\* Slip: the sweeper trusts a connection that still has its pipe.
SweptIfCutOff(k) ==
    registry[k].online /\ registry[k].age > SessionTTL /\ ~Reaches(registry[k].identity)

Swept(k) == registry[k].online /\ registry[k].age > SessionTTL

\* Slips: an ask expires one tick early; only asks to dead sessions expire.
StaleAskEarly(m) == asks[m] # NoAsk /\ asks[m].age >= AskTTL

StaleAskOfDead(m) ==
    asks[m].age > AskTTL /\ asks[m].target \in Keys /\ ~registry[asks[m].target].online

StaleAsk(m) == asks[m].age > AskTTL

Sweep ==
    /\ hub = "running"
    /\ registry' = [k \in Keys |-> IF Swept(k) THEN Offline(registry, k)[k] ELSE registry[k]]
    /\ announced' = [k \in Keys |-> IF Swept(k) THEN "down" ELSE announced[k]]
    /\ box' = Prune(box)
    /\ pending' = [m \in MsgIds |-> IF pending[m].age > PendingTTL THEN NoPending ELSE pending[m]]
    /\ asks' = [m \in MsgIds |-> IF StaleAsk(m) THEN NoAsk ELSE asks[m]]
    /\ UNCHANGED <<hub, identity_map, sent, letters, starts, wireVars>>

\* Time passes, for the mailbox also while the hub is down.
Tick ==
    /\ hub = "running" \/ starts < MaxStarts
    /\ registry' = [k \in Keys |-> IF registry[k].online
                                   THEN [registry[k] EXCEPT !.age = Older(@, SessionTTL)]
                                   ELSE registry[k]]
    /\ pending' = [m \in MsgIds |-> IF pending[m] = NoPending THEN NoPending
                                    ELSE [pending[m] EXCEPT !.age = Older(@, PendingTTL)]]
    /\ asks' = [m \in MsgIds |-> IF asks[m] = NoAsk THEN NoAsk
                                 ELSE [asks[m] EXCEPT !.age = Older(@, AskTTL)]]
    /\ box' = AgeRows(box)
    /\ UNCHANGED <<hub, identity_map, history, wireVars>>

\* The process is killed, between two handlers or in the middle of a drain: the
\* rows are deleted and committed before the first of them is sent.
Stop ==
    /\ hub = "running"
    /\ starts < MaxStarts
    /\ hub' = "stopped"
    /\ \/ UNCHANGED box
       \/ \E c \in Conns, key \in Keys : HasRequest(c) /\ box' = Take(box, key)
    /\ UNCHANGED <<memory, history, wireVars>>

\* A new process: the mailbox is all that is left.
Start ==
    /\ hub # "running"
    /\ starts < MaxStarts
    /\ starts' = starts + 1
    /\ hub' = "running"
    /\ registry' = [k \in Keys |-> NoEntry]
    /\ identity_map' = [c \in Conns |-> NoKey]
    /\ pending' = [m \in MsgIds |-> NoPending]
    /\ asks' = [m \in MsgIds |-> NoAsk]
    /\ announced' = [k \in Keys |-> "none"]
    /\ Severed
    /\ UNCHANGED <<box, sent, letters>>

-----------------------------------------------------------------------------
Handle(c) ==
    \/ \E key \in Keys, cwd \in CwdField :
          \/ OnHello(c, key, cwd)
          \/ OnHelloBadCwd(c, key, cwd)
          \/ OnPoll(c, key, cwd)
          \/ OnPollBadCwd(c, key, cwd)
    \/ OnPollMapped(c)
    \/ \E key \in Keys : OnBye(c, key)
    \/ OnByeMapped(c)
    \/ OnQuery(c)
    \/ OnBadRequest(c)
    \/ OnSend(c)
    \/ LoopDies(c)

\* What clients do while the hub is down makes no difference to the next hub.
ClientMoves(c) ==
    /\ hub = "running"
    /\ Connect(c) \/ Close(c) \/ Notice(c)
    /\ UNCHANGED <<hub, memory, box, history>>

Next ==
    \/ \E c \in Conns : Handle(c) \/ ClientMoves(c)
    \/ Sweep
    \/ Tick
    \/ Stop
    \/ Start

Spec == Init /\ [][Next]_vars

-----------------------------------------------------------------------------
(* Properties *)

\* A connection the hub maps to a session has an entry there.  router_loop looks
\* the entry up outside its try block on every frame, so one mapping without an
\* entry lets the next frame of that connection end the broker.
MappedRegistered == \A c \in Conns : CanTouch(c)

Stranded(key) == registry[key].online /\ MailFor(box, key) # {}

\* Mail never waits behind an online session: whatever a session would take from
\* the mailbox was given to it when it came online, and nothing is stored for it
\* while it stays so.  Nobody would tell it to poll again.
NoMailBehindOnline == \A key \in Keys : ~Stranded(key)

\* A blank working directory, refused when half of the work is done, is all that
\* can unsettle the hub: a connection loses the entry its frames need only by its
\* own refused hello, and mail comes to stand behind an online session only by a
\* refused poll for that session.  No bye, sweep, vanished client, send or restart
\* does either.
OnlyRefusalsUnsettle ==
    [][/\ \A c \in Conns : CanTouch(c) /\ ~CanTouch(c)'
             => \E cwd \in BadCwds : OnHelloBadCwd(c, identity_map'[c], cwd)
       /\ \A key \in Keys : ~Stranded(key) /\ Stranded(key)'
             => \E c \in Conns, cwd \in BadCwds : OnPollBadCwd(c, key, cwd)]_vars

\* A message is in one place at most: in the mailbox or with one connection.  The
\* hub never delivers what it also keeps, nor delivers anything twice, over
\* drains, failed sends, rebinding and restarts.
OneCopy ==
    /\ \A c \in Conns : inbox[c] \cap Stored(box) = {}
    /\ \A c, d \in Conns : c # d => inbox[c] \cap inbox[d] = {}

\* A subscriber that believes the session events knows who is online: the last
\* event published of a session is an up exactly while the session is online.
PresenceAnnounced ==
    \A key \in Keys : registry[key].online <=> announced[key] = "up"

\* A message delivered straight to a session does not overtake an earlier one
\* that waits in the mailbox for that session.
NoOvertaking ==
    \A m \in MsgIds :
        letters[m].status = "delivered" /\ letters[m].to \in Keys
            => \A earlier \in MailFor(box, letters[m].to) : earlier > m

\* The ledger holds asks that were delivered or queued, under the address they
\* went to: never a message the hub refused or lost, which nobody could answer.
LedgerSound ==
    \A m \in MsgIds : asks[m] # NoAsk =>
        /\ letters[m].kind = Ask
        /\ letters[m].status \in {"delivered", "queued"}
        /\ letters[m].to = asks[m].target

\* "reply answers one": of the replies to an ask at most one is delivered as a
\* reply, all others arrive as tells.
IsReplyTo(letter, ask) ==
    /\ letter.kind = Reply
    /\ letter.re = ask
    /\ letter.status \in {"delivered", "queued"}

OneReply ==
    \A ask, m, n \in MsgIds : IsReplyTo(letters[m], ask) /\ IsReplyTo(letters[n], ask) => m = n

\* What the senders were told reached nobody, what is owed, and what answered it.
InVain    == {m \in MsgIds : letters[m].status \in {"lost", "refused"}}
OpenAsks  == {m \in MsgIds : asks[m] # NoAsk}
RepliesTo == [ask \in MsgIds |-> {m \in MsgIds : IsReplyTo(letters[m], ask)}]

\* A frame that reached a connection may be read there at any time after.
Promise == INSTANCE Delivery WITH
    Messages <- MsgIds, accepted <- sent,
    kept <- Stored(box), given <- inbox, read <- {}, refused <- InVain,
    open <- OpenAsks, replies <- RepliesTo

\* The hub keeps what Delivery promises, whatever clients connect, vanish or
\* return and however often it is killed: no message is in two places, comes back
\* once it was lost, or reaches anybody after its sender was told that it did not
\* (_deliver_to_session, _drain_mailbox), and no ask has two replies (_on_send).
Delivers == Promise!Spec

\* An ask stays owed until a reply to it is sent, it is too old, or the hub is
\* started anew: no other send, no session's end and no sweep drops it early.
AskOwedUntilAnswered ==
    [][\A ask \in MsgIds : asks[ask] # NoAsk /\ asks'[ask] = NoAsk
          => \/ asks[ask].age > AskTTL
             \/ starts' # starts
             \/ \E m \in MsgIds : letters'[m] # letters[m] /\ letters'[m].re = ask]_vars

-----------------------------------------------------------------------------
(* Liveness.  Time passes, the sweeper is scheduled, and a request that is in *)
(* the ROUTER's queue is handled.  Nothing restarts a hub that is down.       *)

Fairness ==
    /\ WF_vars(Tick)
    /\ WF_vars(Sweep)
    /\ \A c \in Conns : WF_vars(owed[c] /\ Handle(c))

FairSpec == Spec /\ Fairness

\* No connection that could still refresh the session is left.
Forsaken(key) ==
    \A c \in Conns : identity_map[c] = key => client[c] = "gone" /\ ~owed[c]

\* A session whose connections are all gone does not stay online for ever: the
\* sweeper ends it, whoever else keeps talking to the hub, unless someone takes
\* the session up again or the hub goes down.
ForsakenGoesOffline ==
    \A key \in Keys :
        registry[key].online /\ Forsaken(key)
            ~> ~registry[key].online \/ ~Forsaken(key) \/ hub # "running"

\* An ask is not owed for ever, even if nobody replies.
AskEndsSomeDay ==
    \A m \in MsgIds : asks[m] # NoAsk ~> asks[m] = NoAsk \/ hub # "running"

\* Mail does not stay in the mailbox for ever, even if nobody fetches it.
MailEndsSomeDay ==
    \A m \in MsgIds : m \in Stored(box) ~> m \notin Stored(box) \/ hub # "running"

\* Nothing a client left behind stays with the hub for ever: its session does
\* not stay online, its asks are not owed and its mail is not kept (sweeper).
NothingStays == ForsakenGoesOffline /\ AskEndsSomeDay /\ MailEndsSomeDay

-----------------------------------------------------------------------------
\* What a comment says and the code does not do: the property of a run that ends
\* in a counterexample.

\* daemon.py:424: "One bad handler must not kill the broker; the request still
\* gets an answer."
BrokerSurvives == hub # "dead"
=============================================================================
