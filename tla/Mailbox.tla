------------------------------ MODULE Mailbox -------------------------------
(***************************************************************************)
(* The store-and-forward mailbox (ocahub/store.py): the SQLite table as a  *)
(* function from message ids to rows.  Every method of the class commits   *)
(* before it returns, so each operator is one durable step.                *)
(***************************************************************************)
EXTENDS Protocol

CONSTANT MailTTL    \* MAILBOX_MAX_AGE

ASSUME MailTTLAssumption == MailTTL \in Nat

\* A row keeps the address it was stored under and its age.  The columns that
\* only travel along (sender, topic, payload) are left out.
Rows  == [to : Addresses \cup {NoKey}, age : Ages(MailTTL)]
NoRow == [to |-> NoKey, age |-> 0]

Boxes    == [MsgIds -> Rows]
EmptyBox == [m \in MsgIds |-> NoRow]

Stored(box) == {m \in MsgIds : box[m] # NoRow}

\* The addresses whose mail a session takes: its own, and its bare name.
TakenBy(key) == {key, <<key[1], NoSession>>}

MailFor(box, key) == {m \in MsgIds : box[m].to \in TakenBy(key)}

Put(box, m, to) == [box EXCEPT ![m] = [to |-> to, age |-> 0]]

\* Slip: the rows are read and not deleted.
TakeAndKeep(box, key) == box

Take(box, key) == [m \in MsgIds |-> IF m \in MailFor(box, key) THEN NoRow ELSE box[m]]

\* Slip: mail to a bare name is never pruned.
PruneSessionMail(box) ==
    [m \in MsgIds |-> IF box[m].age > MailTTL /\ box[m].to \in Keys THEN NoRow ELSE box[m]]

Prune(box) == [m \in MsgIds |-> IF box[m].age > MailTTL THEN NoRow ELSE box[m]]

AgeRows(box) == [m \in MsgIds |->
                    IF box[m] = NoRow THEN NoRow
                    ELSE [box[m] EXCEPT !.age = Older(@, MailTTL)]]
=============================================================================
