----------------------------- MODULE HubAnswers -----------------------------
(***************************************************************************)
(* The ask ledger of Hub, proved for every value of the constants: what is *)
(* in it, how an ask leaves it, and that an ask gets one reply.            *)
(***************************************************************************)
EXTENDS HubCustody

USE DEF Keys, NameLevel, Addresses, MsgIds, NoMsg, MaybeConn, MaybeKey, MaybeCwd,
        Tell, Ask, Reply, Kinds

\* No ask is entered under an id that has not been given out.
FreshAsks == \A m \in MsgIds : m > sent => asks[m] = NoAsk

\* An ask that a reply was delivered to is closed, and stays so: it was given out.
AnsweredOnce ==
    \A ask, m \in MsgIds : IsReplyTo(letters[m], ask) => asks[ask] = NoAsk /\ ask <= sent

Ledger == FreshAsks /\ LedgerSound /\ AnsweredOnce /\ OneReply

-----------------------------------------------------------------------------
(* What a send does to the ledger *)

\* A reply to an open ask closes it and may be a reply; every other send only
\* tells; an addressed ask is entered under the address it went to.
Closes(re) ==
    /\ asks' = [asks EXCEPT ![re] = NoAsk]
    /\ letters'[sent + 1].re = OpenAsk(re)
    /\ letters'[sent + 1].kind # Ask
    /\ letters'[sent + 1].status # "refused" => letters'[sent + 1].kind = ReplyKind(re)

Tells ==
    /\ asks' = asks
    /\ letters'[sent + 1].re = NoMsg

Enters(c) ==
    /\ \E to : asks' = [asks EXCEPT ![sent + 1] = [target |-> to, from |-> c, age |-> 0]]
               /\ letters'[sent + 1].to = to
    /\ letters'[sent + 1].re = NoMsg
    /\ letters'[sent + 1].kind = Ask
    /\ letters'[sent + 1].status \in {"delivered", "queued"}

\* What the posted letter says.
LEMMA Posted ==
    ASSUME TypeOK, sent + 1 \in MsgIds, NEW kind, NEW to, NEW re, NEW status,
           Post(sent + 1, kind, to, re, status)
    PROVE  /\ letters'[sent + 1] = [kind |-> kind, to |-> to, re |-> re, status |-> status]
           /\ \A m \in MsgIds : m # sent + 1 => letters'[m] = letters[m]
BY DEF Post, TypeOK

LEMMA DeliverPosts ==
    ASSUME NEW reg, NEW m, NEW key, NEW kind, NEW re, DeliverToSession(reg, m, key, kind, re)
    PROVE  \E status \in {"delivered", "queued"} : Post(m, kind, key, re, status)
BY DeliverCases

LEMMA SendLedger ==
    ASSUME TypeOK, NEW c \in Conns, OnSend(c)
    PROVE  /\ \/ \E re \in MsgIds : re # sent + 1 /\ Closes(re)
              \/ Tells
              \/ Enters(c)
           /\ \A m \in MsgIds : m # sent + 1 => letters'[m] = letters[m]
           /\ sent + 1 \in MsgIds /\ sent' = sent + 1
<1> USE UsedKindsAssumption
<1> DEFINE new == sent + 1
<1>1. new \in MsgIds /\ sent' = new
    BY SendOutcomes, SendFrameType
<1>2. ASSUME NEW kind, NEW to, NEW re, NEW status, Post(new, kind, to, re, status)
      PROVE  /\ letters'[new].kind = kind /\ letters'[new].to = to
             /\ letters'[new].re = re /\ letters'[new].status = status
             /\ \A m \in MsgIds : m # new => letters'[m] = letters[m]
    <2>1. /\ letters'[new] = [kind |-> kind, to |-> to, re |-> re, status |-> status]
          /\ \A m \in MsgIds : m # new => letters'[m] = letters[m]
        BY <1>1, <1>2, Posted
    <2> QED BY <2>1
<1>3. ASSUME NEW re \in MsgIds, SendReply(c, re)
      PROVE  re # new /\ Closes(re) /\ \A m \in MsgIds : m # new => letters'[m] = letters[m]
    <2>1. \E kind \in {Tell, Reply} : \E to, status :
             /\ Post(new, kind, to, OpenAsk(re), status)
             /\ status # "refused" => kind = ReplyKind(re)
        <3>1. ReplyKind(re) \in {Tell, Reply}
            BY DEF ReplyKind
        <3> QED BY <1>3, <3>1, DeliverPosts DEF SendReply, RoutedTo, Refused
    <2> QED BY <1>2, <1>3, <2>1 DEF SendReply, Settled, Closes
<1>4. ASSUME UNCHANGED asks, NEW kind, NEW to, NEW status, Post(new, kind, to, NoMsg, status)
      PROVE  Tells /\ \A m \in MsgIds : m # new => letters'[m] = letters[m]
    BY <1>2, <1>4 DEF Tells
<1>5. ASSUME NEW kind \in Kinds, NEW re \in MsgIds, SendThrough(c, kind, re)
      PROVE  Tells /\ \A m \in MsgIds : m # new => letters'[m] = letters[m]
    BY <1>4, <1>5 DEF SendThrough, RoutedTo, Refused
<1>6. ASSUME NEW kind \in Kinds, NEW key, DeliverToSession(Touched(c), new, key, kind, NoMsg),
             Ledgered(new, kind, key, c)
      PROVE  (Tells \/ Enters(c)) /\ \A m \in MsgIds : m # new => letters'[m] = letters[m]
    <2>1. PICK status \in {"delivered", "queued"} : Post(new, kind, key, NoMsg, status)
        BY <1>6, DeliverPosts
    <2>2. CASE kind = Ask
        BY <1>2, <1>6, <2>1, <2>2 DEF Ledgered, Enters
    <2>3. CASE kind # Ask
        BY <1>4, <1>6, <2>1, <2>3 DEF Ledgered
    <2> QED BY <2>2, <2>3
<1>7. ASSUME NEW kind \in Kinds, NEW to \in Addresses, SendTo(c, kind, to)
      PROVE  (Tells \/ Enters(c)) /\ \A m \in MsgIds : m # new => letters'[m] = letters[m]
    BY <1>6, <1>7 DEF SendTo
<1>8. ASSUME NEW kind \in Kinds, NEW cwd \in Cwds, SendToCwd(c, kind, cwd)
      PROVE  (Tells \/ Enters(c)) /\ \A m \in MsgIds : m # new => letters'[m] = letters[m]
    BY <1>4, <1>6, <1>8 DEF SendToCwd, Refused
<1>9. ASSUME SendNowhere(c)
      PROVE  Tells /\ \A m \in MsgIds : m # new => letters'[m] = letters[m]
    BY <1>4, <1>9 DEF SendNowhere, Refused
<1> HIDE DEF new
<1>10. (\E re \in MsgIds : re # new /\ Closes(re)) \/ Tells \/ Enters(c)
    BY <1>3, <1>5, <1>7, <1>8, <1>9 DEF OnSend
<1>11. \A m \in MsgIds : m # new => letters'[m] = letters[m]
    BY <1>3, <1>5, <1>7, <1>8, <1>9 DEF OnSend
<1> QED BY <1>1, <1>10, <1>11 DEF new

-----------------------------------------------------------------------------
(* The ledger's invariant *)

\* Asks may leave the ledger, those that stay keep their target.
LEMMA LedgerShrinks ==
    ASSUME TypeOK, Ledger, UNCHANGED <<sent, letters>>,
           \A m \in MsgIds : asks'[m] # NoAsk
              => asks[m] # NoAsk /\ asks'[m].target = asks[m].target
    PROVE  Ledger'
<1>1. FreshAsks' /\ LedgerSound' /\ OneReply'
    BY DEF Ledger, FreshAsks, LedgerSound, OneReply, IsReplyTo
<1>2. AnsweredOnce'
    BY DEF Ledger, AnsweredOnce, IsReplyTo
<1> QED BY <1>1, <1>2 DEF Ledger

LEMMA LedgerSend ==
    ASSUME TypeOK, Ledger, NEW c \in Conns, OnSend(c)
    PROVE  Ledger'
<1> DEFINE new == sent + 1
<1>1. /\ new \in MsgIds /\ sent' = new /\ sent \in Nat
      /\ \A m \in MsgIds : m # new => letters'[m] = letters[m]
    BY SendLedger DEF TypeOK
<1>2. asks[new] = NoAsk /\ asks \in [MsgIds -> AskRecords]
    BY <1>1 DEF Ledger, FreshAsks, TypeOK
<1>3. \A m \in MsgIds : m > sent' => m > sent /\ m # new
    BY <1>1
<1>4. \A m \in MsgIds : m # new => letters'[m] = letters[m]
    BY <1>1
<1>5. NoMsg \notin MsgIds
    OBVIOUS
<1>6. CASE \E re \in MsgIds : re # new /\ Closes(re)
    <2>1. PICK re \in MsgIds : re # new /\ Closes(re)
        BY <1>6
    <2>2. \A m \in MsgIds : asks'[m] = IF m = re THEN NoAsk ELSE asks[m]
        BY <1>2, <2>1 DEF Closes
    <2>3. FreshAsks'
        BY <1>3, <2>2 DEF Ledger, FreshAsks
    <2>4. LedgerSound'
        BY <1>1, <1>2, <2>1, <2>2 DEF Ledger, LedgerSound
    <2>5. ASSUME NEW ask \in MsgIds, IsReplyTo(letters'[new], ask)
          PROVE  ask = re /\ asks[re] # NoAsk /\ ask <= sent
        <3>1. letters'[new].re = ask /\ letters'[new].re = OpenAsk(re)
            BY <2>1, <2>5 DEF IsReplyTo, Closes, new
        <3>2. ask = re /\ asks[re] # NoAsk
            BY <1>5, <3>1 DEF OpenAsk
        <3> QED BY <1>1, <3>2 DEF Ledger, FreshAsks
    <2> HIDE DEF new
    <2>6. AnsweredOnce'
        <3> SUFFICES ASSUME NEW ask \in MsgIds, NEW m \in MsgIds, IsReplyTo(letters'[m], ask)
                     PROVE  asks'[ask] = NoAsk /\ ask <= sent'
            BY DEF AnsweredOnce
        <3>1. CASE m = new
            BY <1>1, <2>2, <2>5, <3>1 DEF new
        <3>2. CASE m # new
            <4>1. asks[ask] = NoAsk /\ ask <= sent
                BY <1>4, <3>2 DEF Ledger, AnsweredOnce
            <4> QED BY <1>1, <2>2, <4>1 DEF new
        <3> QED BY <3>1, <3>2
    <2>7. OneReply'
        <3> SUFFICES ASSUME NEW ask \in MsgIds, NEW m \in MsgIds, NEW n \in MsgIds,
                            IsReplyTo(letters'[m], ask), IsReplyTo(letters'[n], ask), m # n
                     PROVE  FALSE
            BY DEF OneReply
        <3>1. CASE m # new /\ n # new
            BY <1>4, <3>1 DEF Ledger, OneReply
        <3>2. CASE m = new /\ n # new
            BY <1>4, <2>5, <3>2 DEF Ledger, AnsweredOnce
        <3>3. CASE n = new /\ m # new
            BY <1>4, <2>5, <3>3 DEF Ledger, AnsweredOnce
        <3> QED BY <3>1, <3>2, <3>3
    <2> QED BY <2>3, <2>4, <2>6, <2>7 DEF Ledger
<1>7. CASE Tells \/ Enters(c)
    <2>1. \A m \in MsgIds : m # new => asks'[m] = asks[m]
        BY <1>2, <1>7 DEF Tells, Enters
    <2>2. \A ask \in MsgIds : ~IsReplyTo(letters'[new], ask)
        BY <1>5, <1>7 DEF Tells, Enters, IsReplyTo
    <2>3. FreshAsks'
        BY <1>3, <2>1 DEF Ledger, FreshAsks
    <2>4. LedgerSound'
        <3> SUFFICES ASSUME NEW m \in MsgIds, asks'[m] # NoAsk
                     PROVE  /\ letters'[m].kind = Ask
                            /\ letters'[m].status \in {"delivered", "queued"}
                            /\ letters'[m].to = asks'[m].target
            BY DEF LedgerSound
        <3>1. CASE m # new
            BY <1>1, <2>1, <3>1 DEF Ledger, LedgerSound
        <3>2. CASE m = new
            <4>1. Enters(c)
                BY <1>2, <1>7, <3>2 DEF Tells
            <4>2. PICK to : asks' = [asks EXCEPT ![new] = [target |-> to, from |-> c, age |-> 0]]
                            /\ letters'[new].to = to
                BY <4>1 DEF Enters
            <4>3. asks'[m].target = to
                BY <1>1, <1>2, <3>2, <4>2
            <4> QED BY <3>2, <4>1, <4>2, <4>3 DEF Enters
        <3> QED BY <3>1, <3>2
    <2> HIDE DEF new
    <2>5. AnsweredOnce'
        <3> SUFFICES ASSUME NEW ask \in MsgIds, NEW m \in MsgIds, IsReplyTo(letters'[m], ask)
                     PROVE  asks'[ask] = NoAsk /\ ask <= sent'
            BY DEF AnsweredOnce
        <3>1. m # new
            BY <2>2
        <3>2. asks[ask] = NoAsk /\ ask <= sent
            BY <1>4, <3>1 DEF Ledger, AnsweredOnce
        <3>3. ask # new
            BY <1>1, <3>2 DEF new
        <3> QED BY <1>1, <2>1, <3>2, <3>3 DEF new
    <2>6. OneReply'
        BY <1>4, <2>2 DEF Ledger, OneReply
    <2> QED BY <2>3, <2>4, <2>5, <2>6 DEF Ledger
<1> QED BY <1>6, <1>7, SendLedger

\* Every other step keeps the letters and closes asks at most: by age or because
\* a new process knows none.
LEMMA OtherStepsLedger ==
    ASSUME TypeOK, [Next]_vars, \A c \in Conns : ~OnSend(c)
    PROVE  /\ UNCHANGED <<sent, letters>>
           /\ \A m \in MsgIds : asks'[m] # NoAsk
                 => asks[m] # NoAsk /\ asks'[m].target = asks[m].target
           /\ \A m \in MsgIds : asks[m] # NoAsk /\ asks'[m] = NoAsk
                 => asks[m].age > AskTTL \/ starts' # starts
<1> USE TTLAssumption
<1>1. CASE UNCHANGED <<sent, letters, asks>>
    BY <1>1
<1>2. CASE Sweep
    BY <1>2 DEF Sweep, StaleAsk
<1>3. CASE Tick
    <2>1. \A r \in AskRecords :
             /\ [r EXCEPT !.age = Older(@, AskTTL)].target = r.target
             /\ [r EXCEPT !.age = Older(@, AskTTL)].age = Older(r.age, AskTTL)
        BY DEF AskRecords
    <2>2. \A r \in AskRecords : Older(r.age, AskTTL) # 0
        BY DEF AskRecords, Ages, Older
    <2>3. \A r \in AskRecords : [r EXCEPT !.age = Older(@, AskTTL)] # NoAsk
        BY <2>1, <2>2 DEF NoAsk
    <2>4. \A m \in MsgIds : asks[m] \in AskRecords
        BY DEF TypeOK
    <2> QED BY <1>3, <2>1, <2>3, <2>4 DEF Tick, history
<1>4. CASE Start
    BY <1>4 DEF Start, TypeOK
<1>5. ASSUME NEW c \in Conns, Handle(c) \/ ClientMoves(c)
      PROVE  UNCHANGED <<sent, letters, asks>>
    BY <1>5
    DEF Handle, OnHello, OnHelloBadCwd, OnPoll, OnPollBadCwd, OnPollMapped, OnBye, OnByeMapped,
        OnQuery, OnBadRequest, LoopDies, ClientMoves, memory, history
<1> QED BY <1>1, <1>2, <1>3, <1>4, <1>5 DEF Next, Stop, vars, memory, history

LEMMA LedgerStep == TypeOK /\ Ledger /\ [Next]_vars => Ledger'
<1> SUFFICES ASSUME TypeOK, Ledger, [Next]_vars
             PROVE  Ledger'
    OBVIOUS
<1>1. CASE \E c \in Conns : OnSend(c)
    BY <1>1, LedgerSend
<1>2. CASE \A c \in Conns : ~OnSend(c)
    BY <1>2, OtherStepsLedger, LedgerShrinks
<1> QED BY <1>1, <1>2

LEMMA LedgerHolds == Spec => []Ledger
<1>1. Init => Ledger
    BY DEF Init, NoLetter, Ledger, FreshAsks, LedgerSound, AnsweredOnce, OneReply, IsReplyTo
<1> QED BY <1>1, LedgerStep, TypeCorrect, PTL DEF Spec

\* The ledger never holds an ask that was refused or lost, and it knows the
\* address each of its asks went to.
THEOREM LedgerCorrect == Spec => []LedgerSound
<1>1. Ledger => LedgerSound
    BY DEF Ledger
<1> QED BY <1>1, LedgerHolds, PTL

\* An ask is answered by one reply: whatever else is sent in answer to it
\* arrives as a tell, over any number of connections, sweeps and restarts.
THEOREM OneReplyCorrect == Spec => []OneReply
<1>1. Ledger => OneReply
    BY DEF Ledger
<1> QED BY <1>1, LedgerHolds, PTL

LEMMA OwedStep ==
    TypeOK /\ Custody /\ Ledger /\ [Next]_vars
        => \A ask \in MsgIds : asks[ask] # NoAsk /\ asks'[ask] = NoAsk
              => \/ asks[ask].age > AskTTL
                 \/ starts' # starts
                 \/ \E m \in MsgIds : letters'[m] # letters[m] /\ letters'[m].re = ask
<1> SUFFICES ASSUME TypeOK, Custody, Ledger, [Next]_vars,
                    NEW ask \in MsgIds, asks[ask] # NoAsk, asks'[ask] = NoAsk
             PROVE  \/ asks[ask].age > AskTTL
                    \/ starts' # starts
                    \/ \E m \in MsgIds : letters'[m] # letters[m] /\ letters'[m].re = ask
    OBVIOUS
<1>1. CASE \A c \in Conns : ~OnSend(c)
    BY <1>1, OtherStepsLedger
<1>2. ASSUME NEW c \in Conns, OnSend(c)
      PROVE  \E m \in MsgIds : letters'[m] # letters[m] /\ letters'[m].re = ask
    <2> DEFINE new == sent + 1
    <2>1. new \in MsgIds /\ new > sent
        BY <1>2, SendLedger DEF TypeOK
    <2>2. letters[new] = NoLetter /\ asks[new] = NoAsk
        BY <2>1 DEF Custody, FreshIds, Ledger, FreshAsks
    <2>3. asks \in [MsgIds -> AskRecords]
        BY DEF TypeOK
    <2>4. ~Tells
        BY DEF Tells
    <2>5. ~Enters(c)
        BY <2>2, <2>3 DEF Enters
    <2>6. PICK re \in MsgIds : Closes(re)
        BY <1>2, <2>4, <2>5, SendLedger
    <2>7. re = ask
        BY <2>3, <2>6 DEF Closes
    <2>8. letters'[new].re = ask
        BY <2>6, <2>7 DEF Closes, OpenAsk
    <2> QED BY <2>1, <2>2, <2>8 DEF NoLetter
<1> QED BY <1>1, <1>2

\* An ask leaves the ledger by a reply to it, by its age, or with the process.
THEOREM OwedCorrect == Spec => AskOwedUntilAnswered
<1>1. TypeOK /\ Custody /\ Ledger /\ [Next]_vars
        => [\A ask \in MsgIds : asks[ask] # NoAsk /\ asks'[ask] = NoAsk
              => \/ asks[ask].age > AskTTL
                 \/ starts' # starts
                 \/ \E m \in MsgIds : letters'[m] # letters[m] /\ letters'[m].re = ask]_vars
    BY OwedStep
<1> QED BY <1>1, LedgerHolds, CustodyHolds, TypeCorrect, PTL DEF Spec, AskOwedUntilAnswered
-----------------------------------------------------------------------------
(* The hub keeps what Delivery promises *)

\* A send keeps the message, gives it to one connection or writes it to a closing
\* one; of one that was refused or lost there is nothing anywhere.
LEMMA SendPlaced ==
    ASSUME TypeOK, NEW c \in Conns, OnSend(c)
    PROVE  \/ /\ Stored(box') = Stored(box) \cup {sent + 1} /\ inbox' = inbox
              /\ letters'[sent + 1].status = "queued"
           \/ /\ box' = box
              /\ \/ inbox' = inbox
                 \/ \E d \in Conns : inbox' = [inbox EXCEPT ![d] = @ \cup {sent + 1}]
              /\ letters'[sent + 1].status = "delivered"
           \/ /\ box' = box /\ inbox' = inbox
              /\ letters'[sent + 1].status \in {"lost", "refused"}
<1> DEFINE new == sent + 1
<1>1. SendOutcome(c) /\ new \in MsgIds
    BY SendOutcomes, SendFrameType
<1>2. ASSUME NEW kind, NEW to, NEW re, NEW status, Post(new, kind, to, re, status)
      PROVE  letters'[new].status = status
    <2>1. letters'[new] = [kind |-> kind, to |-> to, re |-> re, status |-> status]
        BY <1>1, <1>2, Posted
    <2> QED BY <2>1
<1>3. ASSUME NEW d, Written(d, {new})
      PROVE  \/ inbox' = inbox
             \/ \E e \in Conns : inbox' = [inbox EXCEPT ![e] = @ \cup {new}]
    BY <1>3 DEF Written, Reaches
<1>4. ASSUME NEW key \in Addresses, box' = Put(box, new, key)
      PROVE  Stored(box') = Stored(box) \cup {new}
    <2>1. \A m \in MsgIds : box'[m] = IF m = new THEN [to |-> key, age |-> 0] ELSE box[m]
        BY <1>1, <1>4 DEF Put, TypeOK, Boxes
    <2>2. [to |-> key, age |-> 0] # NoRow
        BY NoKeyAssumption DEF NoRow
    <2> HIDE DEF new
    <2> QED BY <1>1, <2>1, <2>2 DEF Stored
<1>5. CASE \E re \in MsgIds \cup {NoMsg} : Refused(c, new, re)
    BY <1>2, <1>5 DEF Refused
<1>6. CASE \E target, kind, re : RoutedTo(c, target, new, kind, re)
    BY <1>2, <1>3, <1>6 DEF RoutedTo
<1>7. CASE Post(new, Tell, NoKey, NoMsg, "lost") /\ UNCHANGED <<box, inbox>>
    BY <1>2, <1>7
<1>8. CASE \E to \in Addresses : \E key \in Targets(Touched(c), to), kind \in Kinds,
                                    re \in MsgIds \cup {NoMsg} :
              DeliverToSession(Touched(c), new, key, kind, re)
    <2>1. PICK to \in Addresses : \E key \in Targets(Touched(c), to) : \E kind \in Kinds,
               re \in MsgIds \cup {NoMsg} : DeliverToSession(Touched(c), new, key, kind, re)
        BY <1>8
    <2>2. PICK key \in Targets(Touched(c), to) : \E kind \in Kinds, re \in MsgIds \cup {NoMsg} :
               DeliverToSession(Touched(c), new, key, kind, re)
        BY <2>1
    <2>3. key \in Addresses
        BY TargetsType
    <2>4. PICK kind \in Kinds, re \in MsgIds \cup {NoMsg} :
               DeliverToSession(Touched(c), new, key, kind, re)
        BY <2>2
    <2> HIDE DEF new
    <2>5. \/ /\ \E d : Written(d, {new})
             /\ Post(new, kind, key, re, "delivered")
             /\ box' = box
          \/ /\ box' = Put(box, new, key)
             /\ Post(new, kind, key, re, "queued")
             /\ inbox' = inbox
        BY <2>4, DeliverCases
    <2>6. CASE \E d : Written(d, {new}) /\ Post(new, kind, key, re, "delivered") /\ box' = box
        BY <1>2, <1>3, <2>6 DEF new
    <2>7. CASE box' = Put(box, new, key) /\ Post(new, kind, key, re, "queued") /\ inbox' = inbox
        BY <1>2, <1>4, <2>3, <2>7 DEF new
    <2> QED BY <2>5, <2>6, <2>7
<1> QED BY <1>1, <1>5, <1>6, <1>7, <1>8 DEF SendOutcome

\* To the sets that Delivery speaks of a send adds the new message only.
LEMMA SendAdds ==
    ASSUME TypeOK, Custody, Ledger, NEW c \in Conns, OnSend(c)
    PROVE  /\ InVain' = IF letters'[sent + 1].status \in {"lost", "refused"}
                        THEN InVain \cup {sent + 1} ELSE InVain
           /\ \A ask \in MsgIds :
                 RepliesTo'[ask] = IF IsReplyTo(letters'[sent + 1], ask)
                                   THEN RepliesTo[ask] \cup {sent + 1} ELSE RepliesTo[ask]
<1> DEFINE new == sent + 1
<1>1. /\ new \in MsgIds /\ new > sent
      /\ \A m \in MsgIds : m # new => letters'[m] = letters[m]
    BY SendLedger DEF TypeOK
<1>2. letters[new] = NoLetter
    BY <1>1 DEF Custody, FreshIds
<1> HIDE DEF new
<1>3. new \notin InVain /\ \A ask \in MsgIds : ~IsReplyTo(letters[new], ask)
    BY <1>2 DEF InVain, NoLetter, IsReplyTo
<1>4. ASSUME NEW ask \in MsgIds
      PROVE  RepliesTo'[ask] = IF IsReplyTo(letters'[new], ask)
                               THEN RepliesTo[ask] \cup {new} ELSE RepliesTo[ask]
    <2>1. \A m \in MsgIds : m # new => (IsReplyTo(letters'[m], ask) <=> IsReplyTo(letters[m], ask))
        BY <1>1
    <2>2. /\ RepliesTo[ask] = {m \in MsgIds : IsReplyTo(letters[m], ask)}
          /\ RepliesTo'[ask] = {m \in MsgIds : IsReplyTo(letters'[m], ask)}
        BY DEF RepliesTo
    <2>3. ~IsReplyTo(letters[new], ask)
        BY <1>3
    <2> QED BY <1>1, <2>1, <2>2, <2>3
<1>5. InVain' = IF letters'[new].status \in {"lost", "refused"} THEN InVain \cup {new} ELSE InVain
    BY <1>1, <1>3 DEF InVain
<1> QED BY <1>4, <1>5 DEF new

LEMMA SendDelivers ==
    ASSUME TypeOK, Custody, Ledger, NEW c \in Conns, OnSend(c)
    PROVE  Promise!Tell \/ Promise!Ask \/ \E ask \in MsgIds : Promise!Reply(ask)
<1> DEFINE new == sent + 1
           status == letters'[new].status
<1>1. /\ new \in MsgIds /\ sent' = new /\ new > sent
      /\ asks \in [MsgIds -> AskRecords] /\ asks[new] = NoAsk
    BY SendLedger DEF TypeOK, Ledger, FreshAsks
<1>2. /\ InVain' = IF status \in {"lost", "refused"} THEN InVain \cup {new} ELSE InVain
      /\ \A ask \in MsgIds : RepliesTo'[ask] = IF IsReplyTo(letters'[new], ask)
                                               THEN RepliesTo[ask] \cup {new} ELSE RepliesTo[ask]
    BY SendAdds
<1>3. /\ status \in {"delivered", "queued"} => Promise!Accept
      /\ status \in {"lost", "refused"} => Promise!Refuse
      /\ status \in {"delivered", "queued", "lost", "refused"}
    BY <1>1, <1>2, SendPlaced DEF Promise!Accept, Promise!Refuse, Promise!New, Promise!places
<1> HIDE DEF status
<1>4. ASSUME \A ask \in MsgIds : ~IsReplyTo(letters'[new], ask)
      PROVE  RepliesTo' = RepliesTo
    BY <1>2, <1>4 DEF RepliesTo
<1>5. CASE Tells
    <2>1. OpenAsks' = OpenAsks
        BY <1>5 DEF Tells, OpenAsks
    <2>2. RepliesTo' = RepliesTo
        BY <1>4, <1>5 DEF Tells, IsReplyTo
    <2> QED BY <1>3, <2>1, <2>2 DEF Promise!Tell, Promise!ledger
<1>6. CASE Enters(c)
    <2>1. PICK to : asks' = [asks EXCEPT ![new] = [target |-> to, from |-> c, age |-> 0]]
        BY <1>6 DEF Enters
    <2>2. [target |-> to, from |-> c, age |-> 0] # NoAsk
        BY ConnsAssumption DEF NoAsk
    <2>3. OpenAsks' = OpenAsks \cup {new}
        <3> HIDE DEF new
        <3> QED BY <1>1, <2>1, <2>2 DEF OpenAsks
    <2>4. RepliesTo' = RepliesTo
        BY <1>4, <1>6 DEF Enters, IsReplyTo
    <2>5. status \in {"delivered", "queued"}
        BY <1>6 DEF Enters, status
    <2> QED BY <1>3, <2>3, <2>4, <2>5 DEF Promise!Ask, Promise!New
<1>7. ASSUME NEW re \in MsgIds, re # new, Closes(re)
      PROVE  Promise!Tell \/ Promise!Reply(re)
    <2>1. OpenAsks' = OpenAsks \ {re}
        BY <1>1, <1>7 DEF Closes, OpenAsks
    <2>2. CASE asks[re] = NoAsk
        <3>1. OpenAsks' = OpenAsks
            BY <2>1, <2>2 DEF OpenAsks
        <3>2. letters'[new].re = NoMsg
            BY <1>7, <2>2 DEF Closes, OpenAsk
        <3>3. RepliesTo' = RepliesTo
            BY <1>4, <3>2 DEF IsReplyTo
        <3> QED BY <1>3, <3>1, <3>3 DEF Promise!Tell, Promise!ledger
    <2>3. CASE asks[re] # NoAsk
        <3>1. re \in OpenAsks /\ letters'[new].re = re
            BY <1>7, <2>3 DEF Closes, OpenAsk, OpenAsks
        <3>2. CASE status \in {"delivered", "queued"}
            <4>1. letters'[new].kind = Reply
                BY <1>7, <2>3, <3>2 DEF Closes, ReplyKind, status
            <4>2. \A ask \in MsgIds : IsReplyTo(letters'[new], ask) <=> ask = re
                BY <3>1, <3>2, <4>1 DEF IsReplyTo, status
            <4>3. RepliesTo' = [RepliesTo EXCEPT ![re] = @ \cup {new}]
                <5>1. \A ask \in MsgIds : RepliesTo'[ask] = IF ask = re THEN RepliesTo[ask] \cup {new}
                                                            ELSE RepliesTo[ask]
                    BY <1>2, <4>2
                <5>2. DOMAIN RepliesTo' = MsgIds /\ DOMAIN RepliesTo = MsgIds
                    BY DEF RepliesTo
                <5>3. /\ RepliesTo = [ask \in MsgIds |-> RepliesTo[ask]]
                      /\ RepliesTo' = [ask \in MsgIds |-> RepliesTo'[ask]]
                    BY DEF RepliesTo
                <5> HIDE DEF new
                <5> QED BY <5>1, <5>2, <5>3
            <4> QED BY <1>3, <2>1, <3>1, <3>2, <4>3 DEF Promise!Reply, Promise!New
        <3>3. CASE status \in {"lost", "refused"}
            <4>1. \A ask \in MsgIds : ~IsReplyTo(letters'[new], ask)
                BY <3>3 DEF IsReplyTo, status
            <4>2. RepliesTo' = RepliesTo
                BY <1>4, <4>1
            <4> QED BY <1>3, <2>1, <3>1, <3>3, <4>2 DEF Promise!Reply
        <3> QED BY <1>3, <3>2, <3>3
    <2> QED BY <2>2, <2>3
<1> QED BY <1>5, <1>6, <1>7, SendLedger

\* Every other step moves messages on or loses them, and gives asks up.
LEMMA MovesOn ==
    ASSUME TypeOK, Custody, UNCHANGED <<sent, letters>>, OpenAsks' \subseteq OpenAsks,
           NEW c, NEW ms \in SUBSET MsgIds,
           ms \subseteq Stored(box), ms \cap Stored(box') = {}, Stored(box') \subseteq Stored(box),
           \A d \in Conns : inbox'[d] \subseteq inbox[d] \cup (IF d = c THEN ms ELSE {})
    PROVE  Promise!Move
<1>1. InVain' = InVain /\ RepliesTo' = RepliesTo
    BY DEF InVain, RepliesTo
<1>2. Stored(box)' = Stored(box')
    BY DEF Stored
<1> DEFINE taken == Stored(box) \ Stored(box')
<1>3. \A d \in Conns : inbox'[d] \subseteq inbox[d] \cup taken
    OBVIOUS
<1>4. ASSUME NEW d \in Conns, NEW e \in Conns, d # e
      PROVE  inbox'[d] \cap inbox'[e] \cap taken = {}
    <2>1. inbox[d] \cap Stored(box) = {} /\ inbox[e] \cap Stored(box) = {}
        BY DEF Custody, OneCopy
    <2> QED BY <1>4, <2>1
<1> QED BY <1>1, <1>2, <1>3, <1>4 DEF Promise!Move

LEMMA OnlyLosesMoves ==
    ASSUME TypeOK, Custody, UNCHANGED <<sent, letters>>, OpenAsks' \subseteq OpenAsks,
           Stored(box') \subseteq Stored(box), \A d \in Conns : inbox'[d] \subseteq inbox[d]
    PROVE  Promise!Move
<1> DEFINE none == {}
<1>1. /\ none \in SUBSET MsgIds /\ none \subseteq Stored(box)
      /\ none \cap Stored(box') = {}
      /\ \A d \in Conns : inbox'[d] \subseteq inbox[d] \cup (IF d = NoConn THEN none ELSE {})
    OBVIOUS
<1> HIDE DEF none
<1> QED BY <1>1, MovesOn

LEMMA DrainMovesOn ==
    ASSUME TypeOK, Custody, NEW c \in Conns, NEW key \in Keys, Drain(c, key),
           UNCHANGED <<sent, letters, asks>>
    PROVE  Promise!Move
<1> DEFINE ms == MailFor(box, key)
<1>1. ms \in SUBSET MsgIds /\ ms \subseteq Stored(box)
    BY NoKeyAssumption DEF MailFor, Stored, TakenBy, NoRow
<1>2. ms \cap Stored(box') = {} /\ Stored(box') \subseteq Stored(box)
    BY DEF Drain, Take, Stored
<1>3. \A d \in Conns : inbox'[d] \subseteq inbox[d] \cup (IF d = c THEN ms ELSE {})
    BY <1>1, WrittenOnce DEF Drain
<1>4. OpenAsks' \subseteq OpenAsks
    BY DEF OpenAsks
<1> HIDE DEF ms
<1> QED BY <1>1, <1>2, <1>3, <1>4, MovesOn

LEMMA DeliversStep ==
    TypeOK /\ Custody /\ Ledger /\ [Next]_vars => [Promise!Next]_(Promise!deliveryVars)
<1> SUFFICES ASSUME TypeOK, Custody, Ledger, [Next]_vars
             PROVE  Promise!Next
    OBVIOUS
<1>1. ASSUME NEW c \in Conns, OnSend(c)
      PROVE  Promise!Next
    BY <1>1, SendDelivers DEF Promise!Next
<1>2. SUFFICES ASSUME \A c \in Conns : ~OnSend(c)
               PROVE  Promise!Move
    BY <1>1 DEF Promise!Next
<1>3. UNCHANGED <<sent, letters>> /\ OpenAsks' \subseteq OpenAsks
    BY <1>2, OtherStepsLedger DEF OpenAsks
<1>4. ASSUME NEW c \in Conns, Handle(c)
      PROVE  Promise!Move
    <2>1. ASSUME NEW key \in Keys, Drain(c, key), UNCHANGED asks
          PROVE  Promise!Move
        BY <1>3, <2>1, DrainMovesOn
    <2>2. CASE UNCHANGED <<box, inbox>>
        BY <1>3, <2>2, OnlyLosesMoves
    <2>3. ASSUME OnPollMapped(c)
          PROVE  identity_map[c] \in Keys
        BY <2>3 DEF OnPollMapped, TypeOK
    <2> QED
        BY <1>2, <1>4, <2>1, <2>2, <2>3
        DEF Handle, OnHello, OnHelloBadCwd, OnPoll, OnPollBadCwd, OnPollMapped, OnBye,
            OnByeMapped, OnQuery, OnBadRequest, LoopDies
<1>5. CASE Sweep
    <2>1. Stored(box') \subseteq Stored(box)
        BY <1>5 DEF Sweep, Prune, Stored
    <2> QED BY <1>3, <1>5, <2>1, OnlyLosesMoves DEF Sweep, wireVars
<1>6. CASE Tick
    <2>1. Stored(box') \subseteq Stored(box)
        BY <1>6 DEF Tick, AgeRows, Stored
    <2> QED BY <1>3, <1>6, <2>1, OnlyLosesMoves DEF Tick, wireVars
<1>7. CASE Stop
    <2>1. \A key \in Keys : Stored(Take(box, key)) \subseteq Stored(box)
        BY DEF Take, Stored
    <2>2. Stored(box') \subseteq Stored(box)
        BY <1>7, <2>1 DEF Stop
    <2> QED BY <1>3, <1>7, <2>2, OnlyLosesMoves DEF Stop, wireVars
<1>8. CASE Start
    BY <1>3, <1>8, OnlyLosesMoves DEF Start, Severed
<1>9. CASE UNCHANGED <<box, inbox>>
    BY <1>3, <1>9, OnlyLosesMoves
<1> QED
    BY <1>4, <1>5, <1>6, <1>7, <1>8, <1>9
    DEF Next, ClientMoves, Connect, Close, Notice, vars, wireVars

\* The hub implements Delivery, for any number of connections, sessions, sends
\* and restarts and blank directories too: every step maps to one of Delivery.
THEOREM DeliversCorrect == Spec => Delivers
<1>1. Init => Promise!Init
    BY DEF Init, WireInit, EmptyBox, Stored, InVain, OpenAsks, RepliesTo, IsReplyTo, NoLetter,
           Promise!Init
<1> QED
    BY <1>1, DeliversStep, CustodyHolds, LedgerHolds, TypeCorrect, PTL
    DEF Spec, Delivers, Promise!Spec
=============================================================================
