--------------------------- MODULE ForwardProofs ----------------------------
(***************************************************************************)
(* The safety of Forward, proved for any number of chunks and any room of  *)
(* the streams.  A direction is a run of consecutive chunks laid over four *)
(* places: what the other end read, what was sent to it, the chunk in the  *)
(* task's hand, and what is still to be received.  The places follow each  *)
(* other (Ordered) and, as long as the direction works, leave nothing out  *)
(* (Position).  The same holds of what the task counted (Counted), since   *)
(* it counts a chunk once, after the drain.                                *)
(***************************************************************************)
EXTENDS Forward, SequenceTheorems, TLAPS

\* s are the chunks that come after the first a.
Run(s, a) == \A i \in 1 .. Len(s) : s[i] = a + i

Passed(e) == Len(read[e]) + Len(outbound[e])
Sent(e)   == count[e] + (IF copy[e] = "drain" THEN 1 ELSE 0)
Working   == {"receive", "send", "drain", "done"}

Ordered(e) ==
    /\ Run(wrote[e], 0) /\ Len(wrote[e]) <= MaxChunks
    /\ Run(read[e], 0) /\ Run(outbound[e], Len(read[e]))
    /\ Run(inbound[e], Len(wrote[e]) - Len(inbound[e]))
    /\ conn[e] = "lost" => inbound[e] = <<>>
    /\ copy[e] = "send" /\ Up(Other(e)) => hand[e] = <<Passed(e) + 1>>

Position(e) ==
    /\ Passed(e) + Len(hand[e]) + Len(inbound[e]) <= Len(wrote[e])
    /\ conn[e] # "lost" /\ Up(Other(e)) /\ copy[e] \in Working =>
          Passed(e) + Len(hand[e]) + Len(inbound[e]) = Len(wrote[e])

Counted(e) ==
    /\ Sent(e) + Len(hand[e]) + Len(inbound[e]) <= Len(wrote[e])
    /\ conn[e] # "lost" /\ copy[e] \in Working =>
          Sent(e) + Len(hand[e]) + Len(inbound[e]) = Len(wrote[e])
    /\ copy[e] = "done" => count[e] = Len(wrote[e])

\* A direction that is done has given everything on, and a task that is not
\* done has an error to show for it.
Finishes(e) ==
    /\ copy[e] \in {"receive", "send", "done"} => Len(outbound[e]) <= Room
    /\ copy[e] = "done" => fin[e] /\ inbound[e] = <<>>
    /\ eof[e] => copy[e] = "done"
    /\ over[e] => outbound[e] = <<>> /\ copy[e] \in Finals
    /\ copy[e] = "raised" => Broken
    /\ copy[e] = "cancelled" => copy[Other(e)] = "raised"
    /\ ended_by # "none" => copy[e] \in Finals
    /\ ended_by = "eof" => copy[e] = "done"

Good(e) == Ordered(e) /\ Position(e) /\ Counted(e) /\ Finishes(e)

Inv == TypeOK /\ \A e \in Ends : Good(e)

-----------------------------------------------------------------------------
(* Runs *)

LEMMA RunAppends ==
    ASSUME NEW s \in Seq(Nat), NEW a \in Nat, Run(s, a)
    PROVE  Run(Append(s, a + Len(s) + 1), a)
BY DEF Run

LEMMA RunMovesOn ==
    ASSUME NEW s \in Seq(Nat), NEW a \in Nat, Run(s, a), s # <<>>
    PROVE  /\ Head(s) = a + 1 /\ Run(Tail(s), a + 1)
           /\ Len(Tail(s)) = Len(s) - 1 /\ Len(s) \in Nat \ {0}
<1>1. Head(s) = a + 1 /\ Len(Tail(s)) = Len(s) - 1 /\ Len(s) \in Nat \ {0}
  BY DEF Run
<1>2. \A i \in 1 .. Len(Tail(s)) : Tail(s)[i] = s[i + 1]
  OBVIOUS
<1> QED BY <1>1, <1>2 DEF Run

LEMMA RunIsCut ==
    ASSUME NEW s \in Seq(Nat), NEW a \in Nat, Run(s, a), NEW n \in Nat, n <= Len(s)
    PROVE  /\ Run(SubSeq(s, 1, n), a) /\ Len(SubSeq(s, 1, n)) = n
BY DEF Run

\* Two runs of the same length are the same.
LEMMA RunsAgree ==
    ASSUME NEW s \in Seq(Nat), NEW t \in Seq(Nat), Run(s, 0), Run(t, 0), Len(s) = Len(t)
    PROVE  s = t
BY SeqEqual DEF Run

-----------------------------------------------------------------------------
(* The ends and the types *)

LEMMA EndsAre ==
    /\ \A e \in Ends : Other(e) \in Ends /\ Other(e) # e /\ Other(Other(e)) = e
    /\ \A e \in Ends : Ends = {e, Other(e)}
BY DEF Ends, Other

LEMMA InitTypes == Init => TypeOK
BY BoundAssumption DEF Init, TypeOK, Nothing, Nowhere, Ends, Finals

\* What TypeOK says of one end, whose sequences are also those of numbers.
TypedAt(e) ==
    /\ conn[e] \in {"up", "broken", "lost"}
    /\ wrote[e] \in Seq(Chunks) /\ read[e] \in Seq(Chunks)
    /\ inbound[e] \in Seq(Chunks) /\ outbound[e] \in Seq(Chunks)
    /\ hand[e] \in {<<>>} \cup {<<chunk>> : chunk \in Chunks}
    /\ fin[e] \in BOOLEAN /\ eof[e] \in BOOLEAN /\ over[e] \in BOOLEAN
    /\ copy[e] \in {"receive", "send", "drain"} \cup Finals
    /\ count[e] \in 0 .. MaxChunks
    /\ hand[e] # <<>> <=> copy[e] = "send"

LEMMA TypesAt == ASSUME TypeOK PROVE \A e \in Ends : TypedAt(e)
BY DEF TypeOK, TypedAt

Numbered(e) ==
    /\ wrote[e] \in Seq(Nat) /\ read[e] \in Seq(Nat)
    /\ inbound[e] \in Seq(Nat) /\ outbound[e] \in Seq(Nat)
    /\ Len(wrote[e]) \in Nat /\ Len(read[e]) \in Nat /\ Len(hand[e]) \in Nat
    /\ Len(inbound[e]) \in Nat /\ Len(outbound[e]) \in Nat
    /\ hand[e] = <<>> => Len(hand[e]) = 0
    /\ hand[e] # <<>> => Len(hand[e]) = 1 /\ Head(hand[e]) \in Nat
    /\ count[e] \in Nat /\ MaxChunks \in Nat /\ Room \in Nat
    /\ Passed(e) \in Nat /\ Sent(e) \in Nat

LEMMA Numbers ==
    ASSUME NEW e \in Ends, TypedAt(e)
    PROVE  Numbered(e)
<1>1. Chunks \subseteq Nat /\ MaxChunks \in Nat /\ Room \in Nat
  BY BoundAssumption DEF Chunks
<1>2. wrote[e] \in Seq(Nat) /\ read[e] \in Seq(Nat) /\ inbound[e] \in Seq(Nat) /\ outbound[e] \in Seq(Nat)
  BY <1>1, SeqMonotonic DEF TypedAt
<1>3. /\ Len(wrote[e]) \in Nat /\ Len(read[e]) \in Nat
      /\ Len(inbound[e]) \in Nat /\ Len(outbound[e]) \in Nat /\ count[e] \in Nat
  BY <1>1, <1>2 DEF TypedAt
<1>4. /\ hand[e] = <<>> => Len(hand[e]) = 0
      /\ hand[e] # <<>> => Len(hand[e]) = 1 /\ Head(hand[e]) \in Nat
      /\ Len(hand[e]) \in Nat
  BY <1>1 DEF TypedAt
<1>5. Passed(e) \in Nat
  <2>1. \A m, n \in Nat : m + n \in Nat
    OBVIOUS
  <2> QED BY <1>3, <2>1 DEF Passed
<1>6. Sent(e) \in Nat
  BY <1>3 DEF Sent
<1> QED BY <1>1, <1>2, <1>3, <1>4, <1>5, <1>6 DEF Numbered

LEMMA InitInv == Init => Inv
<1> SUFFICES ASSUME Init, NEW e \in Ends PROVE Good(e)
  BY InitTypes DEF Inv
<1>1. /\ wrote[e] = <<>> /\ read[e] = <<>> /\ inbound[e] = <<>> /\ outbound[e] = <<>>
      /\ hand[e] = <<>> /\ copy[e] = "receive" /\ count[e] = 0
      /\ ~eof[e] /\ ~over[e] /\ ended_by = "none"
  BY DEF Init, Nothing, Nowhere
<1>2. Len(<<>>) = 0
  OBVIOUS
<1> QED BY <1>1, <1>2, BoundAssumption
        DEF Good, Ordered, Position, Counted, Finishes, Run, Passed, Sent, Finals

-----------------------------------------------------------------------------
(* The direction that a step leaves alone *)

Same(e) ==
    /\ wrote'[e] = wrote[e] /\ read'[e] = read[e] /\ inbound'[e] = inbound[e]
    /\ outbound'[e] = outbound[e] /\ hand'[e] = hand[e] /\ fin'[e] = fin[e]
    /\ eof'[e] = eof[e] /\ over'[e] = over[e] /\ copy'[e] = copy[e]
    /\ count'[e] = count[e]

LEMMA Elsewhere ==
    ASSUME NEW e \in Ends, Good(e), Same(e), UNCHANGED <<conn, ended_by>>,
           copy[Other(e)] = "raised" => copy'[Other(e)] = "raised"
    PROVE  Good(e)'
<1>1. Ordered(e)'
  BY DEF Good, Same, Ordered, Run, Passed, Up
<1>2. Position(e)'
  BY DEF Good, Same, Position, Passed, Up
<1>3. Counted(e)'
  BY DEF Good, Same, Counted, Sent
<1>4. Finishes(e)'
  BY DEF Good, Same, Finishes, Broken, Up
<1> QED BY <1>1, <1>2, <1>3, <1>4 DEF Good

\* A step of one direction's task, or of an end within it.
LEMMA OneDirection ==
    ASSUME Inv, NEW e \in Ends, TypeOK', UNCHANGED <<conn, ended_by>>,
           Good(e)', Same(Other(e)),
           copy[e] = "raised" => copy'[e] = "raised"
    PROVE  Inv'
BY EndsAre, Elsewhere DEF Inv

-----------------------------------------------------------------------------
(* The ends *)

LEMMA WritesStep ==
    ASSUME Inv, NEW e \in Ends, Writes(e)
    PROVE  Inv'
<1> DEFINE n == Len(wrote[e]) + 1
<1>1. TypeOK /\ TypedAt(e) /\ Numbered(e) /\ Good(e)
  BY TypesAt, Numbers DEF Inv
<1>2. /\ wrote' = [wrote EXCEPT ![e] = Append(@, n)] /\ inbound' = [inbound EXCEPT ![e] = Append(@, n)]
      /\ UNCHANGED <<conn, fin, read, over, copy, hand, outbound, eof, count, ended_by>>
      /\ ~fin[e] /\ Up(e) /\ n <= MaxChunks
  BY DEF Writes
<1>3. wrote'[e] = Append(wrote[e], n) /\ inbound'[e] = Append(inbound[e], n) /\ Same(Other(e))
  BY <1>1, <1>2, EndsAre DEF TypeOK, Same
<1>4. /\ n \in Chunks /\ Len(wrote'[e]) = n /\ Len(inbound'[e]) = Len(inbound[e]) + 1
      /\ Append(wrote[e], n) \in Seq(Chunks) /\ Append(inbound[e], n) \in Seq(Chunks)
  BY <1>1, <1>2, <1>3 DEF Numbered, TypedAt, Chunks
<1>5. TypeOK'
  BY <1>1, <1>2, <1>4 DEF TypeOK
<1>6. Run(wrote'[e], 0)
  <2>1. 0 + Len(wrote[e]) + 1 = n /\ Run(wrote[e], 0) /\ wrote[e] \in Seq(Nat)
    BY <1>1 DEF Numbered, Good, Ordered
  <2> QED BY <1>3, <2>1, RunAppends
<1>7. Run(inbound'[e], Len(wrote'[e]) - Len(inbound'[e]))
  <2>1. Len(wrote[e]) - Len(inbound[e]) \in Nat
    BY <1>1 DEF Numbered, Good, Position
  <2>2. Len(wrote[e]) - Len(inbound[e]) + Len(inbound[e]) + 1 = n
    BY <1>1 DEF Numbered
  <2>3. Len(wrote'[e]) - Len(inbound'[e]) = Len(wrote[e]) - Len(inbound[e])
    BY <1>1, <1>4 DEF Numbered
  <2>4. Run(inbound[e], Len(wrote[e]) - Len(inbound[e])) /\ inbound[e] \in Seq(Nat)
    BY <1>1 DEF Numbered, Good, Ordered
  <2> QED BY <1>3, <2>1, <2>2, <2>3, <2>4, RunAppends
<1>8. Ordered(e)'
  BY <1>1, <1>2, <1>4, <1>6, <1>7 DEF Good, Ordered, Passed, Up
<1>9. Passed(e)' = Passed(e) /\ Sent(e)' = Sent(e)
  BY <1>2 DEF Passed, Sent
<1>10. Position(e)' /\ Counted(e)'
  <2>1. PICK p \in Nat, s \in Nat, h \in Nat, i \in Nat, w \in Nat :
            /\ p = Passed(e) /\ s = Sent(e) /\ h = Len(hand[e]) /\ i = Len(inbound[e])
            /\ w = Len(wrote[e])
    BY <1>1 DEF Numbered
  <2>2. /\ Passed(e)' = p /\ Sent(e)' = s /\ Len(hand'[e]) = h /\ Len(inbound'[e]) = i + 1
        /\ Len(wrote'[e]) = w + 1 /\ copy'[e] = copy[e] /\ conn'[e] = conn[e] /\ Up(Other(e))' = Up(Other(e))
    BY <1>2, <1>4, <1>9, <2>1 DEF Up
  <2>3. copy[e] # "done" /\ conn[e] = "up"
    BY <1>1, <1>2 DEF Good, Finishes, Up
  <2>4. p + h + i <= w /\ (Up(Other(e)) /\ copy[e] \in Working => p + h + i = w)
    BY <1>1, <2>1, <2>3 DEF Good, Position
  <2>5. s + h + i <= w /\ (copy[e] \in Working => s + h + i = w)
    BY <1>1, <2>1, <2>3 DEF Good, Counted
  <2>6. p + h + (i + 1) <= w + 1 /\ s + h + (i + 1) <= w + 1
    BY <2>4, <2>5
  <2>7. Position(e)'
    BY <2>2, <2>4, <2>6 DEF Position
  <2>8. Counted(e)'
    BY <2>2, <2>3, <2>5, <2>6 DEF Counted
  <2> QED BY <2>7, <2>8
<1>11. Finishes(e)'
  BY <1>1, <1>2 DEF Good, Finishes, Up, Broken
<1> QED BY <1>2, <1>3, <1>5, <1>8, <1>10, <1>11, OneDirection DEF Good

LEMMA HalfClosesStep ==
    ASSUME Inv, NEW e \in Ends, HalfCloses(e)
    PROVE  Inv'
<1>1. TypeOK /\ TypedAt(e) /\ Numbered(e) /\ Good(e)
  BY TypesAt, Numbers DEF Inv
<1>2. fin' = [fin EXCEPT ![e] = TRUE] /\ UNCHANGED <<conn, wrote, read, over, copyVars, ended_by>>
  BY DEF HalfCloses
<1>3. fin'[e] /\ Same(Other(e))
  BY <1>1, <1>2, EndsAre DEF TypeOK, Same, copyVars
<1>4. TypeOK'
  BY <1>1, <1>2 DEF TypeOK, copyVars
<1>5. Good(e)'
  BY <1>1, <1>2, <1>3 DEF Good, Ordered, Position, Counted, Finishes, Passed, Sent, Up, Broken, Run, copyVars
<1> QED BY <1>2, <1>3, <1>4, <1>5, OneDirection DEF copyVars

LEMMA ReadsStep ==
    ASSUME Inv, NEW e \in Ends, Reads(e)
    PROVE  Inv'
<1>1. TypeOK /\ TypedAt(e) /\ Numbered(e) /\ Good(e)
  BY TypesAt, Numbers DEF Inv
<1>2. /\ read' = [read EXCEPT ![e] = Append(@, Head(outbound[e]))]
      /\ outbound' = [outbound EXCEPT ![e] = Tail(@)] /\ outbound[e] # <<>>
      /\ UNCHANGED <<conn, wrote, fin, over, inbound, copy, hand, eof, count, ended_by>>
  BY DEF Reads
<1>3. read'[e] = Append(read[e], Head(outbound[e])) /\ outbound'[e] = Tail(outbound[e]) /\ Same(Other(e))
  BY <1>1, <1>2, EndsAre DEF TypeOK, Same
<1>4. /\ Run(Tail(outbound[e]), Len(read[e]) + 1) /\ Head(outbound[e]) = Len(read[e]) + 1
      /\ Len(Tail(outbound[e])) = Len(outbound[e]) - 1 /\ Len(outbound[e]) \in Nat \ {0}
  BY <1>1, <1>2, RunMovesOn DEF Numbered, Good, Ordered
<1>5. /\ Append(read[e], Head(outbound[e])) \in Seq(Chunks) /\ Tail(outbound[e]) \in Seq(Chunks)
      /\ Len(read'[e]) = Len(read[e]) + 1
  BY <1>1, <1>2, <1>3 DEF TypedAt
<1>6. TypeOK'
  BY <1>1, <1>2, <1>5 DEF TypeOK
<1>7. Run(read'[e], 0)
  <2>1. 0 + Len(read[e]) + 1 = Head(outbound[e]) /\ Run(read[e], 0) /\ read[e] \in Seq(Nat)
    BY <1>1, <1>4 DEF Numbered, Good, Ordered
  <2> QED BY <1>3, <2>1, RunAppends
<1>8. Passed(e)' = Passed(e)
  <2>1. PICK r \in Nat, o \in Nat : r = Len(read[e]) /\ o = Len(outbound[e])
    BY <1>1 DEF Numbered
  <2>2. Len(read'[e]) = r + 1 /\ Len(outbound'[e]) = o - 1
    BY <1>3, <1>4, <1>5, <2>1
  <2>3. (r + 1) + (o - 1) = r + o
    OBVIOUS
  <2> QED BY <2>1, <2>2, <2>3 DEF Passed
<1>9. Ordered(e)'
  BY <1>1, <1>2, <1>3, <1>4, <1>5, <1>7, <1>8 DEF Good, Ordered, Up
<1>10. Position(e)' /\ Counted(e)' /\ Finishes(e)'
  BY <1>1, <1>2, <1>3, <1>4, <1>8 DEF Numbered, Good, Position, Counted, Finishes, Sent, Up, Broken
<1> QED BY <1>2, <1>3, <1>6, <1>9, <1>10, OneDirection DEF Good

LEMMA SeesEndStep ==
    ASSUME Inv, NEW e \in Ends, SeesEnd(e)
    PROVE  Inv'
<1>1. TypeOK /\ TypedAt(e) /\ Numbered(e) /\ Good(e)
  BY TypesAt, Numbers DEF Inv
<1>2. /\ over' = [over EXCEPT ![e] = TRUE] /\ outbound[e] = <<>> /\ (eof[e] \/ ended_by # "none")
      /\ UNCHANGED <<conn, wrote, fin, read, copyVars, ended_by>>
  BY DEF SeesEnd
<1>3. over'[e] /\ Same(Other(e))
  BY <1>1, <1>2, EndsAre DEF TypeOK, Same, copyVars
<1>4. TypeOK'
  BY <1>1, <1>2 DEF TypeOK, copyVars
<1>5. Good(e)'
  BY <1>1, <1>2, <1>3
     DEF Good, Ordered, Position, Counted, Finishes, Passed, Sent, Up, Broken, Run, copyVars, Finals
<1> QED BY <1>2, <1>3, <1>4, <1>5, OneDirection DEF copyVars

\* A reset of e hits both directions: what is on its way from e, and to e.
LEMMA ResetsStep ==
    ASSUME Inv, NEW e \in Ends, Resets(e)
    PROVE  Inv'
<1> DEFINE f == Other(e)
<1>1. /\ TypeOK /\ TypedAt(e) /\ Numbered(e) /\ Good(e)
      /\ TypedAt(f) /\ Numbered(f) /\ Good(f)
      /\ f \in Ends /\ f # e /\ Other(f) = e /\ Ends = {e, f}
  BY TypesAt, Numbers, EndsAre DEF Inv
<1>2. /\ conn'[e] \in {"broken", "lost"} /\ conn'[f] = conn[f] /\ conn[e] = "up"
      /\ conn' \in [Ends -> {"up", "broken", "lost"}]
      /\ inbound'[f] = inbound[f] 
      /\ inbound'[e] = IF conn'[e] = "lost" THEN <<>> ELSE inbound[e]
      /\ inbound' \in [Ends -> Seq(Chunks)]
  <2>1. CASE conn' = [conn EXCEPT ![e] = "broken"] /\ inbound' = inbound
    BY <1>1, <2>1 DEF Resets, Up, TypeOK
  <2>2. CASE conn' = [conn EXCEPT ![e] = "lost"] /\ inbound' = [inbound EXCEPT ![e] = <<>>]
    <3>1. <<>> \in Seq(Chunks) /\ conn[e] = "up"
      BY EmptySeq DEF Resets, Up
    <3>2. inbound' \in [Ends -> Seq(Chunks)]
      BY <1>1, <2>2, <3>1 DEF TypeOK
    <3> QED BY <1>1, <2>2, <3>1, <3>2 DEF TypeOK
  <2> QED BY <2>1, <2>2 DEF Resets
<1>3. /\ outbound'[f] = <<>> /\ outbound'[e] = outbound[e] /\ ended_by = "none"
      /\ outbound' \in [Ends -> Seq(Chunks)]
      /\ UNCHANGED <<wrote, fin, read, over, copy, hand, eof, count, ended_by>>
  BY <1>1, EmptySeq DEF Resets, TypeOK
<1>4. TypeOK'
  BY <1>1, <1>2, <1>3 DEF TypeOK
<1>5. ~Up(e)' /\ Up(f)' = Up(f) /\ Broken'
  BY <1>1, <1>2 DEF Up, Broken
<1>6. Len(<<>>) = 0 /\ \A a : Run(<<>>, a)
  BY DEF Run
<1>7. Good(e)'
  <2>1. Ordered(e)'
    BY <1>1, <1>2, <1>3, <1>5, <1>6 DEF Numbered, Good, Ordered, Passed
  <2>2. Position(e)' /\ Counted(e)'
    <3>1. Passed(e)' = Passed(e) /\ Sent(e)' = Sent(e)
      BY <1>3 DEF Passed, Sent
    <3>2. CASE inbound'[e] = inbound[e]
      BY <1>1, <1>2, <1>3, <1>5, <3>1, <3>2 DEF Good, Position, Counted, Up
    <3>3. CASE inbound'[e] = <<>> /\ conn'[e] = "lost"
      <4>1. Len(inbound'[e]) = 0 /\ Len(hand'[e]) = Len(hand[e]) /\ wrote' = wrote
        BY <1>3, <1>6, <3>3
      <4>2. /\ Passed(e) + Len(hand[e]) + Len(inbound'[e]) <= Len(wrote[e])
            /\ Sent(e) + Len(hand[e]) + Len(inbound'[e]) <= Len(wrote[e])
        <5>1. PICK p \in Nat, s \in Nat, h \in Nat, i \in Nat, w \in Nat :
                  /\ p = Passed(e) /\ s = Sent(e) /\ h = Len(hand[e]) /\ i = Len(inbound[e])
                  /\ w = Len(wrote[e])
          BY <1>1 DEF Numbered
        <5>2. p + h + i <= w /\ s + h + i <= w
          BY <1>1, <5>1 DEF Good, Position, Counted
        <5>3. p + h + 0 <= w /\ s + h + 0 <= w
          BY <5>2
        <5> QED BY <4>1, <5>1, <5>3
      <4> QED BY <1>1, <1>3, <3>1, <3>3, <4>1, <4>2 DEF Good, Position, Counted
    <3> QED BY <1>2, <3>2, <3>3
  <2>3. Finishes(e)'
    BY <1>1, <1>2, <1>3, <1>5 DEF Good, Finishes
  <2> QED BY <2>1, <2>2, <2>3 DEF Good
<1>8. Good(f)'
  <2>1. Ordered(f)'
    BY <1>1, <1>2, <1>3, <1>5, <1>6 DEF Good, Ordered, Passed
  <2>2. Position(f)'
    <3>1. PICK r \in Nat, o \in Nat, h \in Nat, i \in Nat, w \in Nat :
              /\ r = Len(read[f]) /\ o = Len(outbound[f]) /\ h = Len(hand[f])
              /\ i = Len(inbound[f]) /\ w = Len(wrote[f])
      BY <1>1 DEF Numbered
    <3>2. r + o + h + i <= w
      BY <1>1, <3>1 DEF Good, Position, Passed
    <3>3. r + 0 + h + i <= w
      BY <3>2
    <3>4. Passed(f)' + Len(hand'[f]) + Len(inbound'[f]) <= Len(wrote'[f])
      BY <1>2, <1>3, <1>6, <3>1, <3>3 DEF Passed
    <3> QED BY <1>1, <1>5, <3>4 DEF Position
  <2>4. Counted(f)'
    BY <1>1, <1>2, <1>3 DEF Good, Counted, Sent
  <2>3. Finishes(f)'
    BY <1>1, <1>2, <1>3, <1>5, <1>6 DEF Numbered, Good, Finishes
  <2> QED BY <2>1, <2>2, <2>3, <2>4 DEF Good
<1> QED BY <1>1, <1>4, <1>7, <1>8 DEF Inv

-----------------------------------------------------------------------------
(* The tasks *)

LEMMA ReceivesStep ==
    ASSUME Inv, NEW e \in Ends, Receives(e)
    PROVE  Inv'
<1>1. TypeOK /\ TypedAt(e) /\ Numbered(e) /\ Good(e)
  BY TypesAt, Numbers DEF Inv
<1>2. /\ hand' = [hand EXCEPT ![e] = <<Head(inbound[e])>>]
      /\ inbound' = [inbound EXCEPT ![e] = Tail(@)] /\ copy' = [copy EXCEPT ![e] = "send"]
      /\ UNCHANGED <<endVars, outbound, eof, count, ended_by>>
      /\ copy[e] = "receive" /\ inbound[e] # <<>>
  BY DEF Receives, Goes
<1>3. /\ hand'[e] = <<Head(inbound[e])>> /\ inbound'[e] = Tail(inbound[e]) /\ copy'[e] = "send"
      /\ Same(Other(e)) /\ hand[e] = <<>>
  BY <1>1, <1>2, EndsAre DEF TypeOK, TypedAt, Same, endVars
<1>4. PICK p \in Nat, s \in Nat, i \in Nat, w \in Nat :
          p = Passed(e) /\ s = Sent(e) /\ i = Len(inbound[e]) /\ w = Len(wrote[e])
  BY <1>1 DEF Numbered
<1>5. /\ p + 0 + i <= w /\ s + 0 + i <= w
      /\ conn[e] # "lost" => s + 0 + i = w /\ (Up(Other(e)) => p + 0 + i = w)
  <2>1. Len(hand[e]) = 0 /\ copy[e] \in Working
    BY <1>1, <1>2, <1>3 DEF Numbered, Working
  <2> QED BY <1>1, <1>4, <2>1 DEF Good, Position, Counted
<1>6. /\ Head(inbound[e]) = (w - i) + 1 /\ Run(Tail(inbound[e]), (w - i) + 1)
      /\ Len(Tail(inbound[e])) = i - 1 /\ i > 0
  <2>1. PICK a \in Nat : a = w - i
    BY <1>5
  <2>2. Run(inbound[e], a) /\ inbound[e] \in Seq(Nat)
    BY <1>1, <1>4, <2>1 DEF Good, Ordered, Numbered
  <2>3. /\ Head(inbound[e]) = a + 1 /\ Run(Tail(inbound[e]), a + 1)
        /\ Len(Tail(inbound[e])) = Len(inbound[e]) - 1 /\ Len(inbound[e]) \in Nat \ {0}
    BY <1>2, <2>2, RunMovesOn
  <2>4. a + 1 = (w - i) + 1 /\ i \in Nat \ {0} => i > 0
    BY <2>1
  <2> QED BY <1>4, <2>1, <2>3, <2>4
<1>7. Head(inbound[e]) \in Chunks /\ Tail(inbound[e]) \in Seq(Chunks)
  BY <1>1, <1>2 DEF TypedAt
<1>8. TypeOK'
  BY <1>1, <1>2, <1>3, <1>7 DEF TypeOK, endVars
<1>9. /\ Passed(e)' = p /\ Sent(e)' = s /\ Len(hand'[e]) = 1 /\ Len(inbound'[e]) = i - 1
      /\ Len(wrote'[e]) = w /\ Up(Other(e))' = Up(Other(e)) /\ conn'[e] = conn[e]
      /\ count'[e] = count[e]
  BY <1>2, <1>3, <1>4, <1>6 DEF Passed, Sent, Up, endVars
<1>10. Ordered(e)'
  <2>1. Run(inbound'[e], Len(wrote'[e]) - Len(inbound'[e]))
    <3>1. (w - i) + 1 = w - (i - 1)
      OBVIOUS
    <3> QED BY <1>3, <1>6, <1>9, <3>1
  <2>2. ASSUME Up(Other(e)) PROVE hand'[e] = <<p + 1>>
    <3>1. conn[e] # "lost"
      <4>1. inbound[e] # <<>>
        BY <1>2
      <4> QED BY <1>1, <4>1 DEF Good, Ordered
    <3>2. (w - i) + 1 = p + 1
      <4>1. p + 0 + i = w
        BY <1>5, <2>2, <3>1
      <4> QED BY <4>1
    <3> QED BY <1>3, <1>6, <3>2
  <2> QED BY <1>1, <1>2, <1>3, <1>9, <2>1, <2>2 DEF Good, Ordered, endVars
<1>11. Position(e)' /\ Counted(e)'
  <2>1. /\ p + 1 + (i - 1) <= w /\ s + 1 + (i - 1) <= w
        /\ conn[e] # "lost" => s + 1 + (i - 1) = w /\ (Up(Other(e)) => p + 1 + (i - 1) = w)
    BY <1>5
  <2> QED BY <1>3, <1>9, <2>1 DEF Position, Counted
<1>12. Finishes(e)'
  BY <1>1, <1>2, <1>3 DEF Good, Finishes, Broken, Up, endVars, Finals
<1> QED BY <1>2, <1>3, <1>8, <1>10, <1>11, <1>12, OneDirection DEF Good, endVars

LEMMA ReceivesEndStep ==
    ASSUME Inv, NEW e \in Ends, ReceivesEnd(e)
    PROVE  Inv'
<1>1. TypeOK /\ TypedAt(e) /\ Numbered(e) /\ Good(e)
  BY TypesAt, Numbers DEF Inv
<1>2. /\ eof' = [eof EXCEPT ![e] = Up(Other(e))] /\ copy' = [copy EXCEPT ![e] = "done"]
      /\ UNCHANGED <<endVars, inbound, hand, outbound, count, ended_by>>
      /\ copy[e] = "receive" /\ inbound[e] = <<>> /\ fin[e] /\ conn[e] # "lost"
  BY DEF ReceivesEnd, Goes
<1>3. copy'[e] = "done" /\ Same(Other(e)) /\ hand[e] = <<>>
  BY <1>1, <1>2, EndsAre DEF TypeOK, TypedAt, Same, endVars
<1>4. PICK s \in Nat, w \in Nat : s = count[e] /\ w = Len(wrote[e])
  BY <1>1 DEF Numbered
<1>5. count[e] = Len(wrote[e])
  <2>1. Len(hand[e]) = 0 /\ Len(inbound[e]) = 0 /\ Sent(e) = s + 0
    BY <1>2, <1>3, <1>4 DEF Sent
  <2>2. s + 0 + 0 + 0 = w
    BY <1>1, <1>2, <1>4, <2>1 DEF Good, Counted, Working
  <2> QED BY <1>4, <2>2
<1>6. TypeOK'
  <2>1. Up(Other(e)) \in BOOLEAN
    BY DEF Up
  <2> QED BY <1>1, <1>2, <1>3, <2>1 DEF TypeOK, endVars, Finals
<1>7. Passed(e)' = Passed(e) /\ Sent(e)' = Sent(e) /\ Up(Other(e))' = Up(Other(e))
  BY <1>2, <1>3 DEF Passed, Sent, Up, endVars
<1>8. Ordered(e)' /\ Position(e)'
  BY <1>1, <1>2, <1>3, <1>7 DEF Good, Ordered, Position, Run, Working, endVars
<1>9. Counted(e)'
  BY <1>1, <1>2, <1>3, <1>5, <1>7 DEF Good, Counted, Working, endVars
<1>10. Finishes(e)'
  BY <1>1, <1>2, <1>3 DEF Good, Finishes, Broken, Up, endVars, Finals
<1> QED BY <1>2, <1>3, <1>6, <1>8, <1>9, <1>10, OneDirection DEF Good, endVars

LEMMA SendsStep ==
    ASSUME Inv, NEW e \in Ends, Sends(e)
    PROVE  Inv'
<1>1. TypeOK /\ TypedAt(e) /\ Numbered(e) /\ Good(e)
  BY TypesAt, Numbers DEF Inv
<1>2. /\ outbound' = [outbound EXCEPT ![e] = @ \o hand[e]]
      /\ hand' = [hand EXCEPT ![e] = <<>>] /\ copy' = [copy EXCEPT ![e] = "drain"]
      /\ UNCHANGED <<endVars, inbound, eof, count, ended_by>>
      /\ copy[e] = "send" /\ Up(Other(e))
  BY DEF Sends, Goes
<1>3. /\ outbound'[e] = outbound[e] \o hand[e] /\ hand'[e] = <<>> /\ copy'[e] = "drain"
      /\ Same(Other(e))
  BY <1>1, <1>2, EndsAre DEF TypeOK, TypedAt, Same, endVars
<1>4. PICK r \in Nat, o \in Nat, s \in Nat, i \in Nat, w \in Nat :
          /\ r = Len(read[e]) /\ o = Len(outbound[e]) /\ s = count[e]
          /\ i = Len(inbound[e]) /\ w = Len(wrote[e])
  BY <1>1 DEF Numbered
<1>5. Passed(e) = r + o /\ Sent(e) = s + 0 /\ Len(hand[e]) = 1 /\ hand[e] = <<r + o + 1>>
  BY <1>1, <1>2, <1>4 DEF Passed, Sent, Good, Ordered, TypedAt, Numbered
<1>6. /\ r + o + 1 + i <= w /\ s + 0 + 1 + i <= w
      /\ conn[e] # "lost" => r + o + 1 + i = w /\ s + 0 + 1 + i = w
  BY <1>1, <1>2, <1>4, <1>5 DEF Good, Position, Counted, Working
<1>7. /\ outbound'[e] = Append(outbound[e], r + o + 1) /\ Len(outbound'[e]) = o + 1
      /\ outbound'[e] \in Seq(Chunks)
  <2>1. outbound[e] \in Seq(Chunks) /\ \E chunk \in Chunks : hand[e] = <<chunk>>
    BY <1>1, <1>2 DEF TypedAt
  <2>2. PICK chunk \in Chunks : hand[e] = <<chunk>> /\ chunk = r + o + 1
    BY <1>5, <2>1
  <2>3. outbound[e] \o <<chunk>> = Append(outbound[e], chunk)
    BY <2>1
  <2>4. Append(outbound[e], chunk) \in Seq(Chunks) /\ Len(Append(outbound[e], chunk)) = Len(outbound[e]) + 1
    BY <2>1
  <2> QED BY <1>3, <1>4, <2>2, <2>3, <2>4
<1>8. TypeOK'
  BY <1>1, <1>2, <1>3, <1>7 DEF TypeOK, endVars
<1>9. Run(outbound'[e], Len(read'[e]))
  BY <1>1, <1>2, <1>4, <1>7, RunAppends DEF Good, Ordered, Numbered, endVars
<1>10. /\ Passed(e)' = r + (o + 1) /\ Sent(e)' = s + 1 /\ Len(hand'[e]) = 0
       /\ Len(inbound'[e]) = i /\ Len(wrote'[e]) = w
  BY <1>2, <1>3, <1>4, <1>7 DEF Passed, Sent, endVars
<1>11. Ordered(e)'
  BY <1>1, <1>2, <1>3, <1>9 DEF Good, Ordered, Run, endVars
<1>12. Position(e)' /\ Counted(e)'
  <2>1. /\ r + (o + 1) + 0 + i <= w /\ s + 1 + 0 + i <= w
        /\ conn[e] # "lost" => r + (o + 1) + 0 + i = w /\ s + 1 + 0 + i = w
    BY <1>6
  <2> QED BY <1>2, <1>3, <1>10, <2>1 DEF Position, Counted, endVars
<1>13. Finishes(e)'
  BY <1>1, <1>2, <1>3 DEF Good, Finishes, Broken, Up, endVars, Finals
<1> QED BY <1>2, <1>3, <1>8, <1>11, <1>12, <1>13, OneDirection DEF Good, endVars

LEMMA DrainedStep ==
    ASSUME Inv, NEW e \in Ends, Drained(e)
    PROVE  Inv'
<1>1. TypeOK /\ TypedAt(e) /\ Numbered(e) /\ Good(e)
  BY TypesAt, Numbers DEF Inv
<1>2. /\ count' = [count EXCEPT ![e] = @ + 1] /\ copy' = [copy EXCEPT ![e] = "receive"]
      /\ UNCHANGED <<endVars, inbound, hand, outbound, eof, ended_by>>
      /\ copy[e] = "drain" /\ Len(outbound[e]) <= Room
  BY DEF Drained, Goes, HasRoom
<1>3. count'[e] = count[e] + 1 /\ copy'[e] = "receive" /\ Same(Other(e)) /\ hand[e] = <<>>
  BY <1>1, <1>2, EndsAre DEF TypeOK, TypedAt, Same, endVars
<1>4. PICK s \in Nat, i \in Nat, w \in Nat :
          s = count[e] /\ i = Len(inbound[e]) /\ w = Len(wrote[e]) /\ w <= MaxChunks
  BY <1>1 DEF Numbered, Good, Ordered
<1>5. Sent(e) = s + 1 /\ Sent(e)' = (s + 1) + 0 /\ Len(hand[e]) = 0
  BY <1>1, <1>2, <1>3, <1>4 DEF Sent, Numbered
<1>6. s + 1 + 0 + i <= w /\ (conn[e] # "lost" => s + 1 + 0 + i = w)
  BY <1>1, <1>2, <1>4, <1>5 DEF Good, Counted, Working
<1>7. s + 1 \in 0 .. MaxChunks
  BY <1>4, <1>6, BoundAssumption
<1>8. TypeOK'
  BY <1>1, <1>2, <1>3, <1>4, <1>7 DEF TypeOK, endVars
<1>9. Passed(e)' = Passed(e) /\ Up(Other(e))' = Up(Other(e))
  BY <1>2 DEF Passed, Up, endVars
<1>10. Ordered(e)' /\ Position(e)'
  BY <1>1, <1>2, <1>3, <1>9 DEF Good, Ordered, Position, Run, Working, endVars
<1>11. Counted(e)'
  <2>1. (s + 1) + 0 + 0 + i <= w /\ (conn[e] # "lost" => (s + 1) + 0 + 0 + i = w)
    BY <1>6
  <2> QED BY <1>2, <1>3, <1>4, <1>5, <2>1 DEF Counted, endVars
<1>12. Finishes(e)'
  BY <1>1, <1>2, <1>3 DEF Good, Finishes, Broken, Up, endVars, Finals
<1> QED BY <1>2, <1>3, <1>8, <1>10, <1>11, <1>12, OneDirection DEF Good, endVars

\* A task that is stopped by an error, its own or the other's, drops its chunk.
Stops(e, how) ==
    /\ hand' = [hand EXCEPT ![e] = <<>>] /\ Goes(e, how)
    /\ UNCHANGED <<endVars, inbound, outbound, eof, count, ended_by>>
    /\ copy[e] \notin Finals

LEMMA StopsStep ==
    ASSUME Inv, NEW e \in Ends, NEW how \in {"raised", "cancelled"}, Stops(e, how),
           how = "raised" => Broken, how = "cancelled" => copy[Other(e)] = "raised"
    PROVE  Inv'
<1>1. TypeOK /\ TypedAt(e) /\ Numbered(e) /\ Good(e)
  BY TypesAt, Numbers DEF Inv
<1>2. /\ hand' = [hand EXCEPT ![e] = <<>>] /\ copy' = [copy EXCEPT ![e] = how]
      /\ UNCHANGED <<endVars, inbound, outbound, eof, count, ended_by>>
      /\ copy[e] \notin Finals
  BY DEF Stops, Goes
<1>3. hand'[e] = <<>> /\ copy'[e] = how /\ Same(Other(e))
  BY <1>1, <1>2, EndsAre DEF TypeOK, TypedAt, Same, endVars
<1>4. PICK p \in Nat, s \in Nat, c \in Nat, h \in Nat, i \in Nat, w \in Nat :
          /\ p = Passed(e) /\ s = Sent(e) /\ c = count[e] /\ h = Len(hand[e])
          /\ i = Len(inbound[e]) /\ w = Len(wrote[e])
  BY <1>1 DEF Numbered
<1>5. c <= s /\ p + h + i <= w /\ s + h + i <= w
  BY <1>1, <1>4 DEF Good, Position, Counted, Sent
<1>6. /\ Passed(e)' = p /\ Sent(e)' = c + 0 /\ Len(hand'[e]) = 0 /\ Len(inbound'[e]) = i
      /\ Len(wrote'[e]) = w
  BY <1>2, <1>3, <1>4 DEF Passed, Sent, endVars
<1>7. TypeOK'
  BY <1>1, <1>2, <1>3 DEF TypeOK, endVars, Finals
<1>8. Ordered(e)'
  BY <1>1, <1>2, <1>3 DEF Good, Ordered, Run, endVars
<1>9. Position(e)' /\ Counted(e)'
  <2>1. p + 0 + i <= w /\ (c + 0) + 0 + i <= w
    BY <1>5
  <2> QED BY <1>3, <1>6, <2>1 DEF Position, Counted, Working
<1>10. Finishes(e)'
  <2>1. Broken' <=> Broken
    BY <1>2 DEF Broken, Up, endVars
  <2>2. copy'[Other(e)] = copy[Other(e)]
    BY <1>3 DEF Same
  <2> QED BY <1>1, <1>2, <1>3, <2>1, <2>2 DEF Good, Finishes, endVars, Finals
<1>11. copy[e] # "raised" /\ UNCHANGED <<conn, ended_by>>
  BY <1>2 DEF Finals, endVars
<1> QED BY <1>3, <1>7, <1>8, <1>9, <1>10, <1>11, OneDirection DEF Good

LEMMA RaisesStep ==
    ASSUME Inv, NEW e \in Ends, Raises(e)
    PROVE  Inv'
<1>1. Broken
  BY EndsAre DEF Raises, Broken
<1>2. Stops(e, "raised")
  BY DEF Raises, Stops, Finals
<1> QED BY <1>1, <1>2, StopsStep

LEMMA CancelledStep ==
    ASSUME Inv, NEW e \in Ends, Cancelled(e)
    PROVE  Inv'
<1>1. Stops(e, "cancelled") /\ copy[Other(e)] = "raised"
  BY DEF Cancelled, Stops
<1> QED BY <1>1, StopsStep

LEMMA ReturnsStep ==
    ASSUME Inv, Returns
    PROVE  Inv'
<1>1. /\ ended_by' = IF \E e \in Ends : copy[e] = "raised" THEN "error" ELSE "eof"
      /\ outbound' = [e \in Ends |-> IF Len(outbound[e]) <= Room THEN outbound[e]
                                     ELSE SubSeq(outbound[e], 1, Room)]
      /\ UNCHANGED <<endVars, inbound, copy, hand, eof, count>>
      /\ ended_by = "none" /\ AllOver
  BY DEF Returns
<1>2. ASSUME NEW e \in Ends
      PROVE  Good(e)' /\ outbound'[e] \in Seq(Chunks)
  <2>1. TypeOK /\ TypedAt(e) /\ Numbered(e) /\ Good(e) /\ copy[e] \in Finals
    BY <1>1, TypesAt, Numbers DEF Inv, AllOver
  <2>2. PICK o \in Nat, room \in Nat : o = Len(outbound[e]) /\ room = Room
    BY <2>1 DEF Numbered
  <2>3. /\ o <= room => outbound'[e] = outbound[e]
        /\ ~(o <= room) => outbound'[e] = SubSeq(outbound[e], 1, room)
    BY <1>1, <2>2
  <2>4. PICK n \in Nat :
            /\ n = Len(outbound'[e]) /\ n <= o /\ n <= room /\ (o <= room => n = o)
            /\ outbound'[e] \in Seq(Chunks)
    <3>1. CASE o <= room
      BY <2>1, <2>2, <2>3, <3>1 DEF TypedAt
    <3>2. CASE ~(o <= room)
      <4>1. SubSeq(outbound[e], 1, room) \in Seq(Chunks) /\ Len(SubSeq(outbound[e], 1, room)) = room
        BY <2>1, <2>2, <3>2 DEF TypedAt
      <4>2. room <= o
        BY <3>2
      <4> QED BY <2>3, <3>2, <4>1, <4>2
    <3> QED BY <3>1, <3>2
  <2>5. Run(outbound'[e], Len(read'[e]))
    <3>1. PICK a \in Nat : a = Len(read[e])
      BY <2>1 DEF Numbered
    <3>2. Run(outbound[e], a) /\ outbound[e] \in Seq(Nat)
      BY <2>1, <3>1 DEF Numbered, Good, Ordered
    <3>3. Run(outbound'[e], a)
      <4>1. CASE o <= room
        <5>1. outbound'[e] = outbound[e]
          BY <2>3, <4>1
        <5> QED BY <3>2, <5>1
      <4>2. CASE ~(o <= room)
        <5>1. outbound'[e] = SubSeq(outbound[e], 1, room)
          BY <2>3, <4>2
        <5>2. room <= o
          BY <4>2
        <5>3. Run(SubSeq(outbound[e], 1, room), a)
          BY <2>2, <3>2, <5>2, RunIsCut
        <5> QED BY <5>1, <5>3
      <4> QED BY <4>1, <4>2
    <3> QED BY <1>1, <3>1, <3>3 DEF endVars
  <2>6. /\ copy[e] # "send" /\ Sent(e)' = Sent(e)
    BY <1>1, <2>1 DEF Sent, Finals
  <2>7. Ordered(e)'
    BY <1>1, <2>1, <2>5, <2>6 DEF Good, Ordered, Run, endVars
  <2>8. Position(e)'
    <3>1. PICK r \in Nat, h \in Nat, i \in Nat, w \in Nat :
              /\ r = Len(read[e]) /\ h = Len(hand[e]) /\ i = Len(inbound[e]) /\ w = Len(wrote[e])
      BY <2>1 DEF Numbered
    <3>2. Passed(e) = r + o /\ Passed(e)' = r + n
      BY <1>1, <2>2, <2>4, <3>1 DEF Passed, endVars
    <3>3. r + o + h + i <= w
      BY <2>1, <3>1, <3>2 DEF Good, Position
    <3>4. r + n + h + i <= w
      BY <2>4, <3>3
    <3>5. CASE copy[e] = "done"
      <4>1. o = n
        BY <2>1, <2>2, <2>4, <3>5 DEF Good, Finishes
      <4> QED BY <1>1, <2>1, <3>1, <3>2, <3>4, <4>1 DEF Good, Position, Up, endVars
    <3>6. CASE copy[e] # "done"
      BY <1>1, <2>1, <3>1, <3>2, <3>4, <3>6 DEF Position, Working, Finals, endVars
    <3> QED BY <3>5, <3>6
  <2>9. Counted(e)'
    BY <1>1, <2>1, <2>6 DEF Good, Counted, endVars
  <2>10. Finishes(e)'
    <3>1. copy[e] \in {"receive", "send", "done"} => Len(outbound'[e]) <= Room
      BY <2>1, <2>2, <2>4 DEF Good, Finishes
    <3>2. over[e] => outbound'[e] = <<>>
      <4>1. ASSUME over[e] PROVE outbound'[e] = <<>>
        <5>1. outbound[e] = <<>>
          BY <2>1, <4>1 DEF Good, Finishes
        <5>2. o = 0
          BY <2>2, <5>1
        <5>3. o <= room
          BY <5>2
        <5> QED BY <2>3, <5>1, <5>3
      <4> QED BY <4>1
    <3>3. ended_by' = "eof" => copy[e] = "done"
      BY <1>1, <2>1, EndsAre DEF Good, Finishes, Finals
    <3> QED BY <1>1, <2>1, <3>1, <3>2, <3>3 DEF Good, Finishes, Broken, Up, endVars
  <2> QED BY <2>4, <2>7, <2>8, <2>9, <2>10 DEF Good
<1>3. TypeOK'
  <2>1. outbound' \in [Ends -> Seq(Chunks)]
    BY <1>1, <1>2
  <2> QED BY <1>1, <2>1 DEF Inv, TypeOK, endVars
<1> QED BY <1>2, <1>3 DEF Inv

LEMMA InvStep == Inv /\ [Next]_vars => Inv'
<1> SUFFICES ASSUME Inv, [Next]_vars PROVE Inv'
  OBVIOUS
<1>1. CASE Next
  BY <1>1, WritesStep, HalfClosesStep, ResetsStep, ReadsStep, SeesEndStep, ReceivesStep,
     ReceivesEndStep, SendsStep, DrainedStep, RaisesStep, CancelledStep, ReturnsStep
     DEF Next, EndsMove, Copies
<1>2. CASE UNCHANGED vars
  <2>1. UNCHANGED <<conn, wrote, fin, read, over, inbound, copy, hand, outbound, eof, count, ended_by>>
    BY <1>2 DEF vars, endVars, copyVars
  <2>2. TypeOK'
    BY <2>1 DEF Inv, TypeOK
  <2>3. \A e \in Ends : Good(e)'
    BY <2>1, Elsewhere DEF Inv, Same
  <2> QED BY <2>2, <2>3 DEF Inv
<1> QED BY <1>1, <1>2

THEOREM InvHolds == Spec => []Inv
<1> QED BY InitInv, InvStep, PTL DEF Spec

-----------------------------------------------------------------------------
(* Theorems *)

\* Every variable of the two tasks keeps to its values: a task has a chunk in
\* its hand just when it is in the send of _copy (forward.py, _copy).
THEOREM TypeOKHolds == Spec => []TypeOK
<1>1. Inv => TypeOK
  BY DEF Inv
<1> QED BY <1>1, InvHolds, PTL

\* The ForwardStats of a connection that ended clean are what either end wrote,
\* and no direction counts more than was written (forward.py, _copy, forward).
THEOREM CountsAllHolds == Spec => []CountsAll
<1>1. Inv => CountsAll
  <2> SUFFICES ASSUME Inv, NEW e \in Ends
               PROVE  count[e] <= Len(wrote[e]) /\ (ended_by = "eof" => count[e] = Len(wrote[e]))
    BY DEF CountsAll
  <2>1. Good(e) /\ Numbered(e)
    BY TypesAt, Numbers DEF Inv
  <2>2. PICK s \in Nat, c \in Nat, h \in Nat, i \in Nat, w \in Nat :
            s = Sent(e) /\ c = count[e] /\ h = Len(hand[e]) /\ i = Len(inbound[e]) /\ w = Len(wrote[e])
    BY <2>1 DEF Numbered
  <2>3. c <= s /\ s + h + i <= w
    BY <2>1, <2>2 DEF Good, Counted, Sent
  <2>4. c <= w
    BY <2>3
  <2> QED BY <2>1, <2>2, <2>4 DEF Good, Finishes, Counted
<1> QED BY <1>1, InvHolds, PTL

-----------------------------------------------------------------------------
(* The streams of Pipe *)

\* What the other end reads next is the next chunk that was written.
LEMMA ReadsTheNext ==
    ASSUME Inv, NEW e \in Ends, Reads(e)
    PROVE  Streams!Get(e)
<1>1. Good(e) /\ TypedAt(e) /\ Numbered(e)
  BY TypesAt, Numbers DEF Inv
<1>2. /\ read' = [read EXCEPT ![e] = Append(@, Head(outbound[e]))] /\ outbound[e] # <<>>
      /\ UNCHANGED <<conn, wrote, fin, over>>
  BY DEF Reads
<1>3. ~over[e]
  BY <1>1, <1>2 DEF Good, Finishes
<1>4. PICK r \in Nat, o \in Nat, h \in Nat, i \in Nat, w \in Nat :
          /\ r = Len(read[e]) /\ o = Len(outbound[e]) /\ h = Len(hand[e])
          /\ i = Len(inbound[e]) /\ w = Len(wrote[e])
  BY <1>1 DEF Numbered
<1>5. Head(outbound[e]) = r + 1 /\ o > 0
  <2>1. /\ Run(outbound[e], r) /\ outbound[e] \in Seq(Nat)
    BY <1>1, <1>4 DEF Good, Ordered, Numbered
  <2>2. Head(outbound[e]) = r + 1 /\ o \in Nat \ {0}
    BY <1>2, <1>4, <2>1, RunMovesOn
  <2>3. o \in Nat \ {0} => o > 0
    OBVIOUS
  <2> QED BY <2>2, <2>3
<1>6. r + o + h + i <= w
  BY <1>1, <1>4 DEF Good, Position, Passed
<1>7. r < w /\ r + 1 \in 1 .. w
  BY <1>5, <1>6
<1>8. wrote[e][r + 1] = r + 1
  <2>1. wrote[e][r + 1] = 0 + (r + 1)
    BY <1>1, <1>4, <1>7 DEF Good, Ordered, Run
  <2> QED BY <2>1
<1>9. read' = [read EXCEPT ![e] = Append(@, wrote[e][Len(@) + 1])]
  BY <1>2, <1>4, <1>5, <1>8 DEF TypedAt
<1> QED BY <1>2, <1>3, <1>4, <1>7, <1>9 DEF Streams!Get, Broken, Up

\* The end of an unbroken direction comes after all of it.
LEMMA EndsAfterAll ==
    ASSUME Inv, NEW e \in Ends, SeesEnd(e)
    PROVE  Streams!Finish(e)
<1>1. Good(e) /\ TypedAt(e) /\ Numbered(e)
  BY TypesAt, Numbers DEF Inv
<1>2. /\ over' = [over EXCEPT ![e] = TRUE] /\ outbound[e] = <<>> /\ (eof[e] \/ ended_by # "none")
      /\ UNCHANGED <<conn, wrote, fin, read>> /\ Up(Other(e))
  BY DEF SeesEnd
<1>3. ASSUME ~Broken
      PROVE  fin[e] /\ read[e] = wrote[e]
  <2>1. \A f \in Ends : copy[f] # "raised"
    BY <1>3 DEF Inv, Good, Finishes
  <2>2. copy[e] = "done"
    BY <1>1, <1>2, <2>1, EndsAre DEF Good, Finishes, Finals
  <2>3. conn[e] # "lost" /\ inbound[e] = <<>> /\ hand[e] = <<>>
    BY <1>1, <1>3, <2>2 DEF Broken, Up, Good, Finishes, TypedAt
  <2>4. PICK r \in Nat, w \in Nat : r = Len(read[e]) /\ w = Len(wrote[e])
    BY <1>1 DEF Numbered
  <2>5. r + 0 + 0 + 0 = w
    <3>1. Len(<<>>) = 0
      OBVIOUS
    <3> QED BY <1>1, <1>2, <2>2, <2>3, <2>4, <3>1 DEF Good, Position, Passed, Working
  <2>6. read[e] = wrote[e]
    BY <1>1, <2>4, <2>5, RunsAgree DEF Good, Ordered, Numbered
  <2> QED BY <1>1, <2>2, <2>6 DEF Good, Finishes
<1>4. Broken' <=> Broken
  BY <1>2 DEF Broken, Up
<1>5. Broken \in BOOLEAN
  BY DEF Broken
<1> QED BY <1>2, <1>3, <1>4, <1>5 DEF Streams!Finish

\* forward.py's two tasks implement two independent streams: each keeps its
\* order and its end, and only a reset of a connection cuts one short.
THEOREM ForwardsHolds == Spec => Forwards
<1>1. Init => Streams!Init
  BY DEF Init, Streams!Init, Nothing, Nowhere, Broken, Up
<1>2. Inv /\ [Next]_vars => [Streams!Next]_(Streams!pipeVars)
  <2> SUFFICES ASSUME Inv, [Next]_vars PROVE [Streams!Next]_(Streams!pipeVars)
    OBVIOUS
  <2>1. ASSUME UNCHANGED <<conn, wrote, fin, read, over>> PROVE UNCHANGED Streams!pipeVars
    BY <2>1 DEF Streams!pipeVars, Broken, Up
  <2>2. ASSUME NEW e \in Ends, Writes(e) PROVE Streams!Next
    <3>1. Len(wrote[e]) + 1 \in Chunks
      <4>1. PICK w \in Nat : w = Len(wrote[e])
        BY TypesAt, Numbers DEF Inv, Numbered
      <4>2. w + 1 <= MaxChunks /\ MaxChunks \in Nat
        BY <2>2, <4>1, BoundAssumption DEF Writes
      <4>3. w + 1 \in 1 .. MaxChunks
        BY <4>2
      <4> QED BY <4>1, <4>3 DEF Chunks
    <3>2. Streams!Send(e, Len(wrote[e]) + 1)
      BY <2>2 DEF Writes, Streams!Send, Broken, Up
    <3> QED BY <3>1, <3>2 DEF Streams!Next
  <2>3. ASSUME NEW e \in Ends, HalfCloses(e) PROVE Streams!Next
    BY <2>3 DEF HalfCloses, Streams!Next, Streams!End, Broken, Up
  <2>4. ASSUME NEW e \in Ends, Resets(e) PROVE Streams!Next
    <3>1. Broken'
      BY <2>4 DEF Resets, Broken, Up, Inv, TypeOK
    <3>2. Broken' = TRUE
      BY <3>1 DEF Broken
    <3> QED BY <2>4, <3>2 DEF Resets, Streams!Next, Streams!Break
  <2>5. ASSUME NEW e \in Ends, Reads(e) PROVE Streams!Next
    BY <2>5, ReadsTheNext DEF Streams!Next
  <2>6. ASSUME NEW e \in Ends, SeesEnd(e) PROVE Streams!Next
    BY <2>6, EndsAfterAll DEF Streams!Next
  <2>7. ASSUME NEW e \in Ends, Copies(e) PROVE UNCHANGED Streams!pipeVars
    BY <2>1, <2>7 DEF Copies, Receives, ReceivesEnd, Sends, Drained, Raises, Cancelled, endVars
  <2>8. ASSUME Returns PROVE UNCHANGED Streams!pipeVars
    BY <2>1, <2>8 DEF Returns, endVars
  <2>9. ASSUME UNCHANGED vars PROVE UNCHANGED Streams!pipeVars
    BY <2>1, <2>9 DEF vars, endVars
  <2> QED BY <2>2, <2>3, <2>4, <2>5, <2>6, <2>7, <2>8, <2>9 DEF Next, EndsMove
<1> QED BY <1>1, <1>2, InvHolds, PTL DEF Spec, Forwards, Streams!Spec
=============================================================================
