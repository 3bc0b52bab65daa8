--------------------------- MODULE SlopeUartProofs ---------------------------
(***************************************************************************)
(* That slope_uart.c keeps the promise of SlopeTx, for every number of     *)
(* sequence numbers, retries and give-ups that satisfies SeqAssumption,    *)
(* and lines of every length.                                              *)
(***************************************************************************)
EXTENDS SlopeUart, SequenceTheorems, TLAPS

\* How many attempts before number p the number s was used.
Age(p, s) == IF s <= p THEN p - s ELSE p + SeqMod - s

\* How many attempts ago the last success was: what is older has left the lines.
Back == IF waiting_ack THEN giveUps + 1 ELSE giveUps

\* Nothing has been sent yet.
Fresh ==
    /\ next_seq = pending_seq /\ ~waiting_ack /\ giveUps = 0 /\ ~reached
    /\ desired = "NONE" /\ inflight = "NONE" /\ lastQueued = "FORCE"
    /\ data = <<>> /\ acks = <<>>

Successor(s) == IF s = SeqMod - 1 THEN 0 ELSE s + 1

SenderInv ==
    /\ Fresh \/ next_seq = Successor(pending_seq)
    /\ waiting_ack => desired = inflight /\ lastQueued = inflight
    /\ ~waiting_ack /\ lastQueued = "FORCE" => desired = inflight
    /\ ~waiting_ack /\ lastQueued # "FORCE" => reached /\ giveUps = 0
    /\ phase = "client" /\ ~waiting_ack => desired = lastQueued

\* Numbers A and frames D on their way while p is pending and the last success was b
\* attempts ago: from the oldest ACK to the latest frame they run from old to new, and
\* what is younger than the last success carries the pending command c.
InAge(p, A, D, b) ==
    /\ \A i \in 1..Len(A) : Age(p, A[i]) <= b
    /\ \A i \in 1..Len(D) : Age(p, D[i].seq) <= b

InOrder(p, A, D) ==
    /\ \A i, j \in 1..Len(A) : i < j => Age(p, A[j]) <= Age(p, A[i])
    /\ \A i, j \in 1..Len(D) : i < j => Age(p, D[j].seq) <= Age(p, D[i].seq)
    /\ \A i \in 1..Len(A), j \in 1..Len(D) : Age(p, D[j].seq) <= Age(p, A[i])

OneCommand(p, D, b, c) == \A i \in 1..Len(D) : Age(p, D[i].seq) < b => D[i].cmd = c

Lines(p, A, D, b, c) == InAge(p, A, D, b) /\ InOrder(p, A, D) /\ OneCommand(p, D, b, c)

LinesInv == Lines(pending_seq, acks, data, Back, inflight)

\* The slope ECU remembers the number of the last success, or a later one.
ReceiverInv ==
    /\ desired # "NONE" \/ inflight # "NONE" =>
         has_last_seq /\ Age(pending_seq, last_seq) <= Back
    /\ reached =>
         /\ has_last_seq /\ last_seq = pending_seq
         /\ \A i \in 1..Len(data) : data[i].seq = pending_seq
    /\ ~reached =>
         /\ inflight = "NONE" \/ last_seq # pending_seq
         /\ \A i \in 1..Len(acks) : acks[i] # pending_seq
    /\ \A i \in 1..Len(data) :
         Age(pending_seq, data[i].seq) = Back => has_last_seq /\ last_seq = data[i].seq

IInv == TypeOK /\ SenderInv /\ LinesInv /\ ReceiverInv

-----------------------------------------------------------------------------
LEMMA AgeRange ==
  ASSUME NEW p \in SeqNo, NEW s \in SeqNo
  PROVE  Age(p, s) \in 0..(SeqMod - 1) /\ (Age(p, s) = 0 <=> s = p)
  BY UartAssumption DEF Age, SeqNo

LEMMA NextSeq ==
  ASSUME NEW s \in SeqNo
  PROVE  (s + 1) % SeqMod = Successor(s) /\ Successor(s) \in SeqNo
  <1>1. CASE s = SeqMod - 1
    <2>1. SeqMod % SeqMod = 0
      BY UartAssumption
    <2> QED BY <1>1, <2>1, UartAssumption DEF Successor, SeqNo
  <1>2. CASE s # SeqMod - 1
    BY <1>2, UartAssumption DEF Successor, SeqNo
  <1> QED BY <1>1, <1>2

LEMMA OlderByOne ==
  ASSUME NEW p \in SeqNo, NEW s \in SeqNo, Age(p, s) < SeqMod - 1
  PROVE  Age(Successor(p), s) = Age(p, s) + 1
  BY UartAssumption DEF Age, SeqNo, Successor

LEMMA Taken ==
  ASSUME NEW T, NEW S \in Seq(T), S # <<>>
  PROVE  /\ Len(S) \in Nat \ {0} /\ Head(S) = S[1] /\ Head(S) \in T
         /\ Tail(S) \in Seq(T) /\ Len(Tail(S)) = Len(S) - 1
         /\ \A i \in 1..(Len(S) - 1) : Tail(S)[i] = S[i + 1]
  OBVIOUS

LEMMA Given ==
  ASSUME NEW T, NEW S \in Seq(T), NEW e \in T
  PROVE  /\ Append(S, e) \in Seq(T) /\ Len(Append(S, e)) = Len(S) + 1
         /\ Len(S) \in Nat
         /\ \A i \in 1..Len(S) : Append(S, e)[i] = S[i]
         /\ Append(S, e)[Len(S) + 1] = e
  OBVIOUS

\* A line after a frame has been put on it, or lost.
LEMMA Written ==
  ASSUME NEW T, NEW S \in Seq(T), Len(S) <= LineFrames, NEW e \in T, NEW R,
         R = S \/ (Len(S) < LineFrames /\ R = Append(S, e))
  PROVE  R \in Seq(T) /\ Len(R) <= LineFrames
  BY Given, UartAssumption

\* The parts of a state of the lines.
LEMMA LinesTyped ==
  ASSUME NEW A \in Seq(SeqNo), NEW D \in Seq(Frame), NEW p \in SeqNo
  PROVE  /\ Len(A) \in Nat /\ \A i \in 1..Len(A) : A[i] \in SeqNo
         /\ Len(D) \in Nat
         /\ \A i \in 1..Len(D) : D[i].seq \in SeqNo /\ D[i].cmd \in Cmd
         /\ \A i \in 1..Len(A) : Age(p, A[i]) \in Nat /\ (Age(p, A[i]) = 0 <=> A[i] = p)
         /\ \A i \in 1..Len(D) :
              Age(p, D[i].seq) \in Nat /\ (Age(p, D[i].seq) = 0 <=> D[i].seq = p)
  <1>1. \A i \in 1..Len(A) : A[i] \in SeqNo
    BY ElementOfSeq
  <1>2. \A i \in 1..Len(D) : D[i] \in Frame
    BY ElementOfSeq
  <1>3. \A i \in 1..Len(D) : D[i].seq \in SeqNo /\ D[i].cmd \in Cmd
    BY <1>2 DEF Frame
  <1> QED BY <1>1, <1>3, AgeRange

LEMMA AckTaken ==
  ASSUME NEW A \in Seq(SeqNo), NEW D \in Seq(Frame), NEW p \in SeqNo, NEW b \in Nat, NEW c,
         Lines(p, A, D, b, c), A # <<>>
  PROVE  Lines(p, Tail(A), D, b, c) /\ (Head(A) = p => Lines(p, Tail(A), D, 0, c))
  <1>1. /\ Len(A) \in Nat \ {0} /\ Head(A) = A[1] /\ Len(Tail(A)) = Len(A) - 1
        /\ \A i \in 1..(Len(A) - 1) : i + 1 \in 1..Len(A) /\ Tail(A)[i] = A[i + 1]
    BY Taken
  <1>2. InOrder(p, Tail(A), D) /\ InAge(p, Tail(A), D, b)
    BY <1>1 DEF Lines, InOrder, InAge
  <1>3. ASSUME Head(A) = p PROVE InAge(p, Tail(A), D, 0) /\ OneCommand(p, D, 0, c)
    <2>1. 1 \in 1..Len(A) /\ Age(p, A[1]) = 0
      BY <1>1, <1>3, LinesTyped
    <2>2. \A i \in 1..Len(A) : Age(p, A[i]) <= 0
      BY <1>1, <2>1, LinesTyped DEF Lines, InOrder
    <2>3. \A i \in 1..Len(D) : Age(p, D[i].seq) <= 0
      BY <2>1 DEF Lines, InOrder
    <2> QED BY <1>1, <2>2, <2>3, LinesTyped DEF InAge, OneCommand
  <1> QED BY <1>2, <1>3 DEF Lines

LEMMA FramePut ==
  ASSUME NEW A \in Seq(SeqNo), NEW D \in Seq(Frame), NEW p \in SeqNo, NEW b \in Nat, NEW c \in Cmd,
         Lines(p, A, D, b, c), b > 0
  PROVE  Lines(p, A, Append(D, [seq |-> p, cmd |-> c]), b, c)
  <1> DEFINE f == [seq |-> p, cmd |-> c]
             E == Append(D, f)
  <1>1. f \in Frame
    BY DEF Frame
  <1>2. /\ Len(D) \in Nat /\ Len(E) = Len(D) + 1
        /\ \A i \in 1..Len(D) : E[i] = D[i]
        /\ E[Len(D) + 1].seq = p /\ E[Len(D) + 1].cmd = c
    BY <1>1, Given
  <1> HIDE DEF E
  <1>3. \A i \in 1..Len(E) :
           \/ i \in 1..Len(D) /\ E[i] = D[i]
           \/ i = Len(D) + 1 /\ E[i].seq = p /\ E[i].cmd = c
    <2> SUFFICES ASSUME NEW i \in 1..Len(E)
                 PROVE  \/ i \in 1..Len(D) /\ E[i] = D[i]
                        \/ i = Len(D) + 1 /\ E[i].seq = p /\ E[i].cmd = c
      OBVIOUS
    <2>1. i \in 1..Len(D) \/ i = Len(D) + 1
      BY <1>2
    <2>2. CASE i \in 1..Len(D)
      BY <1>2, <2>2
    <2>3. CASE i = Len(D) + 1
      BY <1>2, <2>3
    <2> QED BY <2>1, <2>2, <2>3
  <1>4. Age(p, p) = 0
    BY AgeRange
  <1>5. InAge(p, A, E, b)
    BY <1>3, <1>4 DEF Lines, InAge
  <1>6. \A i, j \in 1..Len(E) : i < j => Age(p, E[j].seq) <= Age(p, E[i].seq)
    <2> SUFFICES ASSUME NEW i \in 1..Len(E), NEW j \in 1..Len(E), i < j
                 PROVE  Age(p, E[j].seq) <= Age(p, E[i].seq)
      OBVIOUS
    <2>1. i \in 1..Len(D) /\ E[i] = D[i] /\ Age(p, D[i].seq) \in Nat
      BY <1>2, LinesTyped
    <2> QED BY <1>2, <1>3, <1>4, <2>1 DEF Lines, InOrder
  <1>7. \A i \in 1..Len(A), j \in 1..Len(E) : Age(p, E[j].seq) <= Age(p, A[i])
    <2> SUFFICES ASSUME NEW i \in 1..Len(A), NEW j \in 1..Len(E)
                 PROVE  Age(p, E[j].seq) <= Age(p, A[i])
      OBVIOUS
    <2>1. Age(p, A[i]) \in Nat
      BY LinesTyped
    <2> QED BY <1>3, <1>4, <2>1 DEF Lines, InOrder
  <1>8. OneCommand(p, E, b, c)
    BY <1>3 DEF Lines, OneCommand
  <1> QED BY <1>5, <1>6, <1>7, <1>8 DEF Lines, InOrder, E

LEMMA FrameTaken ==
  ASSUME NEW A \in Seq(SeqNo), NEW D \in Seq(Frame), NEW p \in SeqNo, NEW b \in Nat, NEW c,
         Lines(p, A, D, b, c), D # <<>>
  PROVE  Lines(p, A, Tail(D), b, c) /\ Lines(p, Append(A, Head(D).seq), Tail(D), b, c)
  <1>1. /\ Len(D) \in Nat \ {0} /\ Head(D) = D[1] /\ Len(Tail(D)) = Len(D) - 1
        /\ \A i \in 1..(Len(D) - 1) : i + 1 \in 1..Len(D) /\ Tail(D)[i] = D[i + 1]
    BY Taken
  <1>2. Head(D).seq \in SeqNo
    BY <1>1, LinesTyped
  <1> DEFINE B == Append(A, Head(D).seq)
             E == Tail(D)
  <1>9. /\ Len(A) \in Nat /\ Len(B) = Len(A) + 1
        /\ \A i \in 1..Len(A) : B[i] = A[i]
        /\ B[Len(A) + 1] = D[1].seq
    BY <1>1, <1>2, Given
  <1> HIDE DEF B
  <1>3. \A i \in 1..Len(B) :
           \/ i \in 1..Len(A) /\ B[i] = A[i]
           \/ i = Len(A) + 1 /\ B[i] = D[1].seq
    <2> SUFFICES ASSUME NEW i \in 1..Len(B)
                 PROVE  \/ i \in 1..Len(A) /\ B[i] = A[i]
                        \/ i = Len(A) + 1 /\ B[i] = D[1].seq
      OBVIOUS
    <2>1. i \in 1..Len(A) \/ i = Len(A) + 1
      BY <1>9
    <2>2. CASE i \in 1..Len(A)
      BY <1>9, <2>2
    <2>3. CASE i = Len(A) + 1
      BY <1>9, <2>3
    <2> QED BY <2>1, <2>2, <2>3
  <1>4. /\ 1 \in 1..Len(D)
        /\ \A i \in 1..Len(E) : i + 1 \in 1..Len(D) /\ E[i] = D[i + 1] /\ 1 < i + 1
    BY <1>1
  <1> HIDE DEF E
  <1>5. \A i, j \in 1..Len(E) : i < j => Age(p, E[j].seq) <= Age(p, E[i].seq)
    <2> SUFFICES ASSUME NEW i \in 1..Len(E), NEW j \in 1..Len(E), i < j
                 PROVE  Age(p, E[j].seq) <= Age(p, E[i].seq)
      OBVIOUS
    <2>1. i + 1 < j + 1 /\ i + 1 \in 1..Len(D) /\ j + 1 \in 1..Len(D)
      BY <1>4
    <2>2. Age(p, D[j + 1].seq) <= Age(p, D[i + 1].seq)
      BY <2>1 DEF Lines, InOrder
    <2> QED BY <1>4, <2>2
  <1>6. /\ \A i \in 1..Len(A), j \in 1..Len(E) : Age(p, E[j].seq) <= Age(p, A[i])
        /\ OneCommand(p, E, b, c)
        /\ InAge(p, A, E, b) /\ InAge(p, B, E, b)
    BY <1>9, <1>3, <1>4 DEF Lines, InAge, InOrder, OneCommand
  <1>7. \A i, j \in 1..Len(B) : i < j => Age(p, B[j]) <= Age(p, B[i])
    <2> SUFFICES ASSUME NEW i \in 1..Len(B), NEW j \in 1..Len(B), i < j
                 PROVE  Age(p, B[j]) <= Age(p, B[i])
      OBVIOUS
    <2>1. i \in 1..Len(A) /\ B[i] = A[i]
      BY <1>9, <1>3
    <2> QED BY <1>9, <1>3, <1>4, <2>1 DEF Lines, InOrder
  <1>8. \A i \in 1..Len(B), j \in 1..Len(E) : Age(p, E[j].seq) <= Age(p, B[i])
    <2> SUFFICES ASSUME NEW i \in 1..Len(B), NEW j \in 1..Len(E)
                 PROVE  Age(p, E[j].seq) <= Age(p, B[i])
      OBVIOUS
    <2>1. Age(p, D[j + 1].seq) <= Age(p, D[1].seq)
      BY <1>4 DEF Lines, InOrder
    <2> QED BY <1>9, <1>3, <1>4, <1>6, <2>1
  <1> QED BY <1>5, <1>6, <1>7, <1>8 DEF Lines, InOrder, B, E

LEMMA NextAttempt ==
  ASSUME NEW A \in Seq(SeqNo), NEW D \in Seq(Frame), NEW p \in SeqNo, NEW b \in Nat,
         NEW c, NEW e, Lines(p, A, D, b, c), b < SeqMod - 1, b > 0 => e = c
  PROVE  Lines(Successor(p), A, D, b + 1, e)
  <1>1. \A i \in 1..Len(A) : /\ A[i] \in SeqNo /\ Age(p, A[i]) \in Nat
                             /\ Age(p, A[i]) < SeqMod - 1
    BY LinesTyped, UartAssumption DEF Lines, InAge
  <1>2. \A i \in 1..Len(D) : /\ D[i].seq \in SeqNo /\ Age(p, D[i].seq) \in Nat
                             /\ Age(p, D[i].seq) < SeqMod - 1
    BY LinesTyped, UartAssumption DEF Lines, InAge
  <1>3. \A i \in 1..Len(A) : Age(Successor(p), A[i]) = Age(p, A[i]) + 1
    BY <1>1, OlderByOne
  <1>4. \A i \in 1..Len(D) : Age(Successor(p), D[i].seq) = Age(p, D[i].seq) + 1
    BY <1>2, OlderByOne
  <1>5. InAge(Successor(p), A, D, b + 1)
    BY <1>1, <1>2, <1>3, <1>4 DEF Lines, InAge
  <1>6. InOrder(Successor(p), A, D)
    BY <1>1, <1>2, <1>3, <1>4 DEF Lines, InOrder
  <1>7. OneCommand(Successor(p), D, b + 1, e)
    <2> SUFFICES ASSUME NEW i \in 1..Len(D), Age(p, D[i].seq) + 1 < b + 1
                 PROVE  D[i].cmd = e
      BY <1>4 DEF OneCommand
    <2>1. Age(p, D[i].seq) < b /\ b > 0
      BY <1>2
    <2> QED BY <2>1 DEF Lines, OneCommand
  <1> QED BY <1>5, <1>6, <1>7 DEF Lines

-----------------------------------------------------------------------------
(* Types.                                                                  *)

LEMMA TypeStep == TypeOK /\ [Next]_vars => TypeOK'
  <1> SUFFICES ASSUME TypeOK, [Next]_vars PROVE TypeOK'
    OBVIOUS
  <1> USE UartAssumption DEF TypeOK, senderVars, adapterVars, receiverVars
  <1>1. CASE ProcessAck
    <2>1. acks' \in Seq(SeqNo) /\ Len(acks') <= LineFrames
      BY <1>1, Taken DEF ProcessAck
    <2>2. /\ waiting_ack' \in BOOLEAN /\ giveUps' \in 0..MaxGiveUps
          /\ txSuccess' \in Cmd \cup {"EMPTY"} /\ desired' \in Cmd
          /\ lastQueued' \in Cmd \cup {"FORCE"} /\ inflight' \in Cmd
      <3>1. CASE SenderOnFrame(Head(acks))
        <4>1. giveUps' \in 0..MaxGiveUps
          BY <1>1, <3>1 DEF ProcessAck
        <4>2. inflight' = inflight /\ desired' = "NONE" /\ lastQueued' = "NONE"
              /\ txSuccess' = inflight /\ waiting_ack' = FALSE
          BY <1>1, <3>1 DEF ProcessAck
        <4> QED BY <4>1, <4>2 DEF Cmd
      <3>2. CASE ~SenderOnFrame(Head(acks))
        BY <1>1, <3>2 DEF ProcessAck
      <3> QED BY <3>1, <3>2
    <2> QED BY <1>1, <2>1, <2>2 DEF ProcessAck
  <1>2. CASE RxDone
    BY <1>2 DEF RxDone
  <1>3. CASE NoTimeout
    BY <1>3 DEF NoTimeout
  <1>4. CASE Resend
    <2>1. [seq |-> pending_seq, cmd |-> inflight] \in Frame
      BY DEF Frame
    <2>2. data' \in Seq(Frame) /\ Len(data') <= LineFrames
      <3>1. \/ data' = data
            \/ /\ Len(data) < LineFrames
               /\ data' = Append(data, [seq |-> pending_seq, cmd |-> inflight])
        BY <1>4 DEF Resend, WriteFrame, Put
      <3> QED BY <2>1, <3>1, Written
    <2>3. retry_count' \in 0..RetryLimit
      BY <1>4 DEF Resend
    <2> QED BY <1>4, <2>2, <2>3 DEF Resend
  <1>5. CASE GiveUp
    <2>1. giveUps' \in 0..MaxGiveUps
      BY <1>5 DEF GiveUp
    <2> QED BY <1>5, <2>1 DEF GiveUp
  <1>6. CASE SendDesired
    <2>1. [seq |-> next_seq, cmd |-> desired] \in Frame
      BY DEF Frame
    <2>2. data' \in Seq(Frame) /\ Len(data') <= LineFrames
      <3>1. \/ data' = data
            \/ /\ Len(data) < LineFrames
               /\ data' = Append(data, [seq |-> next_seq, cmd |-> desired])
        BY <1>6 DEF SendDesired, WriteFrame, Put
      <3> QED BY <2>1, <3>1, Written
    <2>3. next_seq' \in SeqNo
      BY <1>6, NextSeq DEF SendDesired
    <2>4. retry_count' \in 0..RetryLimit
      BY <1>6 DEF SendDesired
    <2> QED BY <1>6, <2>2, <2>3, <2>4 DEF SendDesired
  <1>7. CASE NothingToSend
    BY <1>7 DEF NothingToSend
  <1>8. CASE ConsumeTxSuccess
    BY <1>8 DEF ConsumeTxSuccess
  <1>9. CASE NoRequest
    BY <1>9 DEF NoRequest
  <1>10. ASSUME NEW c \in {"OPEN", "CLOSE"}, Request(c) PROVE TypeOK'
    BY <1>10 DEF Request, Cmd
  <1>11. CASE ReceiverOnFrame
    <2>1. Head(data) \in Frame /\ data' \in Seq(Frame) /\ Len(data') <= LineFrames
      BY <1>11, Taken DEF ReceiverOnFrame
    <2>2. acks' \in Seq(SeqNo) /\ Len(acks') <= LineFrames
      BY <1>11, <2>1, Given DEF ReceiverOnFrame, Put, Frame
    <2>3. /\ has_last_seq' \in BOOLEAN /\ last_seq' \in SeqNo
          /\ ramp' \in {"OPEN", "CLOSE"}
      BY <1>11, <2>1 DEF ReceiverOnFrame, Frame, Cmd
    <2>4. reached' \in BOOLEAN
      BY <1>11 DEF ReceiverOnFrame
    <2> QED BY <1>11, <2>1, <2>2, <2>3, <2>4 DEF ReceiverOnFrame
  <1>12. CASE UNCHANGED vars
    BY <1>12 DEF vars
  <1> QED
    BY <1>1, <1>2, <1>3, <1>4, <1>5, <1>6, <1>7, <1>8, <1>9, <1>10, <1>11, <1>12
       DEF Next, TxPoll

-----------------------------------------------------------------------------
(* The sender and the lines.                                               *)

LEMMA SenderStep == IInv /\ [Next]_vars => SenderInv'
  <1> SUFFICES ASSUME IInv, [Next]_vars PROVE SenderInv'
    OBVIOUS
  <1> USE DEF IInv, SenderInv, Fresh, senderVars, adapterVars, receiverVars
  <1>1. CASE ProcessAck
    <2>1. acks # <<>>
      BY <1>1 DEF ProcessAck
    <2>2. CASE SenderOnFrame(Head(acks))
      <3>1. reached
        BY <1>1, <2>1, <2>2, Taken DEF SenderOnFrame, ReceiverInv, TypeOK
      <3> QED BY <1>1, <2>1, <2>2, <3>1 DEF ProcessAck, Successor
    <2>3. CASE ~SenderOnFrame(Head(acks))
      BY <1>1, <2>1, <2>3 DEF ProcessAck, Successor
    <2> QED BY <2>2, <2>3
  <1>2. CASE RxDone
    BY <1>2 DEF RxDone, Successor
  <1>3. CASE NoTimeout
    BY <1>3 DEF NoTimeout, Successor
  <1>4. CASE Resend
    BY <1>4 DEF Resend, Successor
  <1>5. CASE GiveUp
    BY <1>5 DEF GiveUp, Successor
  <1>6. CASE SendDesired
    BY <1>6, NextSeq DEF SendDesired, Successor, TypeOK
  <1>7. CASE NothingToSend
    BY <1>7 DEF NothingToSend, Successor
  <1>8. CASE ConsumeTxSuccess
    BY <1>8 DEF ConsumeTxSuccess, Successor
  <1>9. CASE NoRequest
    BY <1>9 DEF NoRequest, Successor
  <1>10. ASSUME NEW c \in {"OPEN", "CLOSE"}, Request(c) PROVE SenderInv'
    BY <1>10 DEF Request, Successor, TypeOK, Cmd
  <1>11. CASE ReceiverOnFrame
    BY <1>11 DEF ReceiverOnFrame, Successor
  <1>12. CASE UNCHANGED vars
    BY <1>12 DEF vars, Successor
  <1> QED
    BY <1>1, <1>2, <1>3, <1>4, <1>5, <1>6, <1>7, <1>8, <1>9, <1>10, <1>11, <1>12
       DEF Next, TxPoll

LEMMA LinesStep == IInv /\ [Next]_vars => LinesInv'
  <1> SUFFICES ASSUME IInv, [Next]_vars PROVE LinesInv'
    OBVIOUS
  <1> USE DEF LinesInv, senderVars, adapterVars, receiverVars
  <1>0. /\ acks \in Seq(SeqNo) /\ data \in Seq(Frame)
        /\ pending_seq \in SeqNo /\ next_seq \in SeqNo /\ giveUps \in Nat /\ Back \in Nat
        /\ inflight \in Cmd /\ desired \in Cmd
    BY UartAssumption DEF IInv, TypeOK, Back
  <1>00. Lines(pending_seq, acks, data, Back, inflight)
    BY DEF IInv
  <1>1. CASE ProcessAck
    <2>1. acks # <<>> /\ acks' = Tail(acks) /\ UNCHANGED <<pending_seq, data, inflight>>
      BY <1>1 DEF ProcessAck
    <2>2. CASE SenderOnFrame(Head(acks))
      <3>1. Back' = 0 /\ Head(acks) = pending_seq
        BY <1>1, <2>2 DEF ProcessAck, SenderOnFrame, Back
      <3> QED BY <1>0, <1>00, <2>1, <3>1, AckTaken
    <2>3. CASE ~SenderOnFrame(Head(acks))
      <3>1. Back' = Back
        BY <1>1, <2>3 DEF ProcessAck, Back
      <3> QED BY <1>0, <1>00, <2>1, <3>1, AckTaken
    <2> QED BY <2>2, <2>3
  <1>2. CASE RxDone
    BY <1>00, <1>2 DEF RxDone, Back
  <1>3. CASE NoTimeout
    BY <1>00, <1>3 DEF NoTimeout, Back
  <1>4. CASE Resend
    <2>1. /\ UNCHANGED <<pending_seq, acks, inflight>> /\ Back > 0 /\ Back' = Back
          /\ \/ data' = data
             \/ data' = Append(data, [seq |-> pending_seq, cmd |-> inflight])
      BY <1>0, <1>4 DEF Resend, WriteFrame, Put, Back
    <2> QED BY <1>0, <1>00, <2>1, FramePut
  <1>5. CASE GiveUp
    BY <1>00, <1>5 DEF GiveUp, Back
  <1>6. CASE SendDesired
    <2>1. /\ ~waiting_ack /\ pending_seq' = next_seq
          /\ acks' = acks /\ inflight' = desired
          /\ \/ data' = data
             \/ data' = Append(data, [seq |-> next_seq, cmd |-> desired])
          /\ Back = giveUps /\ Back' = giveUps + 1
      BY <1>6 DEF SendDesired, WriteFrame, Put, Back
    <2>2. Lines(next_seq, acks, data, giveUps + 1, desired)
      <3>1. CASE Fresh
        BY <3>1 DEF Fresh, Lines, InAge, InOrder, OneCommand
      <3>2. CASE ~Fresh
        <4>1. /\ next_seq = Successor(pending_seq) /\ giveUps < SeqMod - 1
              /\ giveUps > 0 => desired = inflight
          BY <2>1, <3>2, SeqAssumption, UartAssumption DEF IInv, SenderInv, TypeOK
        <4> QED BY <1>0, <1>00, <2>1, <4>1, NextAttempt
      <3> QED BY <3>1, <3>2
    <2>3. giveUps + 1 \in Nat /\ giveUps + 1 > 0
      BY <1>0
    <2>4. Lines(next_seq, acks, Append(data, [seq |-> next_seq, cmd |-> desired]),
                giveUps + 1, desired)
      BY <1>0, <2>2, <2>3, FramePut
    <2> QED BY <2>1, <2>2, <2>4
  <1>7. CASE NothingToSend
    BY <1>00, <1>7 DEF NothingToSend, Back
  <1>8. CASE ConsumeTxSuccess
    BY <1>00, <1>8 DEF ConsumeTxSuccess, Back
  <1>9. CASE NoRequest
    BY <1>00, <1>9 DEF NoRequest, Back
  <1>10. ASSUME NEW c \in {"OPEN", "CLOSE"}, Request(c) PROVE LinesInv'
    BY <1>00, <1>10 DEF Request, Back
  <1>11. CASE ReceiverOnFrame
    <2>1. /\ data # <<>> /\ data' = Tail(data)
          /\ UNCHANGED <<pending_seq, inflight>> /\ Back' = Back
          /\ acks' = acks \/ acks' = Append(acks, Head(data).seq)
      BY <1>11 DEF ReceiverOnFrame, Put, Back
    <2> QED BY <1>0, <1>00, <2>1, FrameTaken
  <1>12. CASE UNCHANGED vars
    BY <1>00, <1>12 DEF vars, Back
  <1> QED
    BY <1>1, <1>2, <1>3, <1>4, <1>5, <1>6, <1>7, <1>8, <1>9, <1>10, <1>11, <1>12
       DEF Next, TxPoll

-----------------------------------------------------------------------------
(* The receiver.                                                           *)

\* The frame the slope ECU reads next.
LEMMA HeadOfLine ==
  ASSUME TypeOK, data # <<>>
  PROVE  /\ 1 \in 1..Len(data) /\ Head(data) = data[1]
         /\ data[1].seq \in SeqNo /\ data[1].cmd \in Cmd
         /\ Len(Tail(data)) = Len(data) - 1
         /\ \A i \in 1..(Len(data) - 1) : i + 1 \in 1..Len(data) /\ Tail(data)[i] = data[i + 1]
  <1>1. data \in Seq(Frame) /\ acks \in Seq(SeqNo) /\ pending_seq \in SeqNo
    BY DEF TypeOK
  <1>2. Len(data) \in Nat \ {0} /\ Head(data) = data[1]
    BY <1>1, Taken
  <1> QED BY <1>1, <1>2, Taken, LinesTyped

LEMMA ReceiverStep == IInv /\ [Next]_vars => ReceiverInv'
  <1> SUFFICES ASSUME IInv, [Next]_vars PROVE ReceiverInv'
    OBVIOUS
  <1> USE DEF IInv, ReceiverInv, senderVars, adapterVars, receiverVars
  <1>0. /\ acks \in Seq(SeqNo) /\ data \in Seq(Frame)
        /\ pending_seq \in SeqNo /\ next_seq \in SeqNo /\ last_seq \in SeqNo
        /\ giveUps \in Nat /\ Back \in Nat /\ inflight \in Cmd /\ desired \in Cmd
    BY UartAssumption DEF TypeOK, Back
  <1>2. CASE RxDone
    BY <1>2 DEF RxDone, Back
  <1>3. CASE NoTimeout
    BY <1>3 DEF NoTimeout, Back
  <1>5. CASE GiveUp
    BY <1>5 DEF GiveUp, Back
  <1>7. CASE NothingToSend
    BY <1>7 DEF NothingToSend, Back
  <1>8. CASE ConsumeTxSuccess
    BY <1>8 DEF ConsumeTxSuccess, Back
  <1>9. CASE NoRequest
    BY <1>9 DEF NoRequest, Back
  <1>10. ASSUME NEW c \in {"OPEN", "CLOSE"}, Request(c) PROVE ReceiverInv'
    <2>1. reached /\ Age(pending_seq, last_seq) = 0
      BY <1>0, <1>10, AgeRange DEF Request, SenderInv, Cmd
    <2> QED BY <1>0, <1>10, <2>1 DEF Request, Back
  <1>12. CASE UNCHANGED vars
    BY <1>12 DEF vars, Back
  <1>1. CASE ProcessAck
    <2>1. /\ acks # <<>> /\ acks' = Tail(acks)
          /\ UNCHANGED <<pending_seq, data, inflight, reached, has_last_seq, last_seq>>
      BY <1>1 DEF ProcessAck
    <2>2. /\ 1 \in 1..Len(acks) /\ Head(acks) = acks[1]
          /\ \A i \in 1..Len(acks') : i + 1 \in 1..Len(acks) /\ acks'[i] = acks[i + 1]
      BY <1>0, <2>1, Taken
    <2>3. CASE SenderOnFrame(Head(acks))
      <3>1. reached /\ Age(pending_seq, pending_seq) = 0 /\ Back' = 0
        BY <1>0, <1>1, <2>2, <2>3, AgeRange DEF ProcessAck, SenderOnFrame, Back
      <3> QED BY <2>1, <2>2, <3>1
    <2>4. CASE ~SenderOnFrame(Head(acks))
      <3>1. Back' = Back /\ UNCHANGED desired
        BY <1>1, <2>4 DEF ProcessAck, Back
      <3> QED BY <2>1, <2>2, <3>1
    <2> QED BY <2>3, <2>4
  <1>4. CASE Resend
    <2>1. /\ UNCHANGED <<pending_seq, acks, inflight, desired, reached, has_last_seq, last_seq>>
          /\ Back > 0 /\ Back' = Back
          /\ \/ data' = data
             \/ data' = Append(data, [seq |-> pending_seq, cmd |-> inflight])
      BY <1>0, <1>4 DEF Resend, WriteFrame, Put, Back
    <2>2. CASE data' = data
      BY <2>1, <2>2
    <2>3. CASE data' = Append(data, [seq |-> pending_seq, cmd |-> inflight])
      <3>1. [seq |-> pending_seq, cmd |-> inflight] \in Frame
        BY <1>0 DEF Frame
      <3>2. \A i \in 1..Len(data') :
              (i \in 1..Len(data) /\ data'[i] = data[i]) \/ data'[i].seq = pending_seq
        BY <1>0, <2>3, <3>1, Given
      <3>3. Age(pending_seq, pending_seq) = 0
        BY <1>0, AgeRange
      <3>4. \A i \in 1..Len(data') :
              Age(pending_seq, data'[i].seq) = Back => has_last_seq /\ last_seq = data'[i].seq
        BY <1>0, <2>1, <3>2, <3>3
      <3>5. reached => \A i \in 1..Len(data') : data'[i].seq = pending_seq
        BY <3>2
      <3> QED BY <2>1, <3>4, <3>5
    <2> QED BY <2>1, <2>2, <2>3
  <1>6. CASE SendDesired
    <2>1. /\ ~waiting_ack /\ pending_seq' = next_seq
          /\ acks' = acks /\ inflight' = desired /\ desired' = desired /\ ~reached'
          /\ UNCHANGED <<has_last_seq, last_seq>>
          /\ \/ data' = data
             \/ data' = Append(data, [seq |-> next_seq, cmd |-> desired])
          /\ Back = giveUps /\ Back' = giveUps + 1
      BY <1>6 DEF SendDesired, WriteFrame, Put, Back
    <2>2. [seq |-> next_seq, cmd |-> desired] \in Frame
      BY <1>0 DEF Frame
    <2>3. \A i \in 1..Len(data') :
            (i \in 1..Len(data) /\ data'[i] = data[i]) \/ data'[i].seq = next_seq
      BY <1>0, <2>1, <2>2, Given
    <2>4. Age(next_seq, next_seq) = 0
      BY <1>0, AgeRange
    <2>5. CASE Fresh
      <3>1. acks = <<>> /\ Len(data) = 0 /\ desired = "NONE"
        BY <2>5 DEF Fresh
      <3> QED BY <1>0, <2>1, <2>3, <2>4, <3>1
    <2>6. CASE ~Fresh
      <3>1. next_seq = Successor(pending_seq) /\ giveUps < SeqMod - 1
        BY <2>6, SeqAssumption, UartAssumption DEF SenderInv, TypeOK
      <3>2. \A s \in SeqNo : Age(pending_seq, s) <= Back =>
              Age(next_seq, s) = Age(pending_seq, s) + 1 /\ s # next_seq
        <4> SUFFICES ASSUME NEW s \in SeqNo, Age(pending_seq, s) <= Back
                     PROVE  Age(next_seq, s) = Age(pending_seq, s) + 1 /\ s # next_seq
          OBVIOUS
        <4>1. Age(pending_seq, s) \in Nat /\ Age(pending_seq, s) < SeqMod - 1
          BY <1>0, <2>1, <3>1, AgeRange, UartAssumption
        <4>2. Age(next_seq, s) = Age(pending_seq, s) + 1
          BY <1>0, <3>1, <4>1, OlderByOne
        <4> QED BY <2>4, <4>1, <4>2
      <3>3. \A i \in 1..Len(acks) : acks[i] \in SeqNo /\ acks[i] # next_seq
        BY <1>0, <3>2, LinesTyped DEF LinesInv, Lines, InAge
      <3>4. \A i \in 1..Len(data) :
              data[i].seq \in SeqNo /\ Age(pending_seq, data[i].seq) <= Back
        BY <1>0, LinesTyped DEF LinesInv, Lines, InAge
      <3>5. \A i \in 1..Len(data') :
              Age(pending_seq', data'[i].seq) = Back' => has_last_seq /\ last_seq = data'[i].seq
        <4> SUFFICES ASSUME NEW i \in 1..Len(data'), Age(next_seq, data'[i].seq) = giveUps + 1
                     PROVE  has_last_seq /\ last_seq = data'[i].seq
          BY <2>1
        <4>1. i \in 1..Len(data) /\ data'[i] = data[i]
          BY <1>0, <2>3, <2>4
        <4>2. Age(pending_seq, data[i].seq) = Back
          <5>1. /\ Age(next_seq, data[i].seq) = Age(pending_seq, data[i].seq) + 1
                /\ Age(pending_seq, data[i].seq) \in Nat
            <6>1. data[i].seq \in SeqNo /\ Age(pending_seq, data[i].seq) <= Back
              BY <3>4, <4>1
            <6>2. Age(pending_seq, data[i].seq) \in 0..(SeqMod - 1)
              BY <1>0, <6>1, AgeRange
            <6>3. Age(next_seq, data[i].seq) = Age(pending_seq, data[i].seq) + 1
              BY <3>2, <6>1
            <6> QED BY <6>2, <6>3, UartAssumption
          <5> QED BY <1>0, <2>1, <4>1, <5>1
        <4> QED BY <4>1, <4>2
      <3>6. desired # "NONE" => has_last_seq /\ last_seq # next_seq
                                /\ Age(next_seq, last_seq) <= giveUps + 1
        BY <1>0, <2>1, <3>2, AgeRange
      <3> QED BY <1>0, <2>1, <3>3, <3>5, <3>6
    <2> QED BY <2>5, <2>6
  <1>11. CASE ReceiverOnFrame
    <2> DEFINE f == data[1]
    <2>1. /\ data # <<>> /\ data' = Tail(data) /\ Head(data) = f
          /\ UNCHANGED <<pending_seq, inflight, desired>> /\ Back' = Back
          /\ acks' = acks \/ acks' = Append(acks, f.seq)
          /\ reached' = (reached \/ f.seq = pending_seq)
      BY <1>11, HeadOfLine DEF ReceiverOnFrame, Put, Back
    <2>2. /\ 1 \in 1..Len(data) /\ f.seq \in SeqNo
          /\ \A i \in 1..Len(data') : i + 1 \in 1..Len(data) /\ data'[i] = data[i + 1]
      BY <2>1, HeadOfLine
    <2>3. has_last_seq' /\ last_seq' = f.seq
      BY <1>11, <2>1 DEF ReceiverOnFrame, IsNew, TypeOK
    <2>4. Age(pending_seq, f.seq) <= Back
      BY <2>2 DEF LinesInv, Lines, InAge
    <2>5. \A i \in 1..Len(data) : Age(pending_seq, data[i].seq) <= Age(pending_seq, f.seq)
      BY <1>0, <2>2, LinesTyped DEF LinesInv, Lines, InOrder
    <2>6. f.seq = pending_seq => \A i \in 1..Len(data) : data[i].seq = pending_seq
      <3> SUFFICES ASSUME f.seq = pending_seq, NEW i \in 1..Len(data)
                   PROVE  data[i].seq = pending_seq
        OBVIOUS
      <3>1. Age(pending_seq, f.seq) = 0
        BY <1>0, AgeRange
      <3>2. /\ Age(pending_seq, data[i].seq) \in Nat
            /\ Age(pending_seq, data[i].seq) = 0 <=> data[i].seq = pending_seq
        BY <1>0, LinesTyped
      <3> QED BY <2>5, <3>1, <3>2
    <2>7. ~reached' => \A i \in 1..Len(acks') : acks'[i] # pending_seq
      <3>1. CASE acks' = acks
        BY <2>1, <3>1
      <3>2. CASE acks' = Append(acks, f.seq)
        <4>1. /\ Len(acks') = Len(acks) + 1 /\ acks'[Len(acks) + 1] = f.seq
              /\ \A i \in 1..Len(acks) : acks'[i] = acks[i]
              /\ Len(acks) \in Nat
          BY <1>0, <2>2, <3>2, Given
        <4>2. ASSUME NEW i \in 1..Len(acks') PROVE i \in 1..Len(acks) \/ i = Len(acks) + 1
          BY <4>1
        <4> HIDE DEF f
        <4> QED BY <2>1, <4>1, <4>2
      <3> QED BY <2>1, <3>1, <3>2
    <2>8. \A i \in 1..Len(data') :
            Age(pending_seq, data'[i].seq) = Back => data'[i].seq = f.seq
      <3> SUFFICES ASSUME NEW i \in 1..Len(data'), Age(pending_seq, data[i + 1].seq) = Back
                   PROVE  data[i + 1].seq = f.seq
        BY <2>2
      <3>1. Age(pending_seq, f.seq) = Back
        <4>1. Age(pending_seq, f.seq) \in 0..(SeqMod - 1)
          BY <1>0, <2>2, AgeRange
        <4>2. Back <= Age(pending_seq, f.seq)
          BY <2>2, <2>5
        <4> QED BY <1>0, <2>4, <4>1, <4>2, UartAssumption
      <3> QED BY <2>2, <3>1
    <2> QED BY <2>1, <2>2, <2>3, <2>4, <2>6, <2>7, <2>8
  <1> QED
    BY <1>1, <1>2, <1>3, <1>4, <1>5, <1>6, <1>7, <1>8, <1>9, <1>10, <1>11, <1>12
       DEF Next, TxPoll

LEMMA InitStep == Init => IInv
  <1> SUFFICES ASSUME Init PROVE IInv
    OBVIOUS
  <1> USE UartAssumption DEF Init
  <1>1. /\ 0 \in SeqNo /\ 0 \in 0..RetryLimit /\ 0 \in 0..MaxGiveUps
        /\ data \in Seq(Frame) /\ acks \in Seq(SeqNo)
        /\ Len(data) = 0 /\ Len(acks) = 0 /\ 0 <= LineFrames
    BY DEF SeqNo
  <1>2. last_seq \in SeqNo /\ has_last_seq \in BOOLEAN
    BY <1>1
  <1>3. TypeOK
    <2>1. /\ phase \in {"rx", "retry", "send", "client"} /\ ramp \in {"OPEN", "CLOSE"}
          /\ waiting_ack \in BOOLEAN /\ reached \in BOOLEAN
          /\ desired \in Cmd /\ lastQueued \in Cmd \cup {"FORCE"}
          /\ inflight \in Cmd /\ txSuccess \in Cmd \cup {"EMPTY"}
      BY DEF Cmd
    <2>2. /\ pending_seq \in SeqNo /\ next_seq \in SeqNo /\ retry_count \in 0..RetryLimit
          /\ giveUps \in 0..MaxGiveUps /\ Len(data) <= LineFrames /\ Len(acks) <= LineFrames
      BY <1>1
    <2> QED BY ONLY <1>1, <1>2, <2>1, <2>2 DEF TypeOK
  <1>4. SenderInv
    BY DEF SenderInv, Fresh
  <1>5. LinesInv /\ ReceiverInv
    BY <1>1 DEF LinesInv, Lines, InAge, InOrder, OneCommand, ReceiverInv
  <1> QED BY <1>3, <1>4, <1>5 DEF IInv

LEMMA Inductive == Spec => []IInv
  <1>1. IInv /\ [Next]_vars => IInv'
    BY TypeStep, SenderStep, LinesStep, ReceiverStep DEF IInv
  <1> QED BY InitStep, <1>1, PTL DEF Spec

-----------------------------------------------------------------------------
(* Every variable of the link keeps its type, and its lines their bound.   *)
THEOREM TypeCorrect == Spec => []TypeOK
  BY Inductive, PTL DEF IInv

\* What IInv says of the frame that the slope ECU reads next.
LEMMA NextFrame ==
  ASSUME IInv, data # <<>>, IsNew(Head(data))
  PROVE  /\ ~reached /\ Head(data).cmd = inflight
         /\ waiting_ack \/ lastQueued = "FORCE"
  <1> DEFINE f == data[1]
  <1>1. 1 \in 1..Len(data) /\ Head(data) = f /\ f.seq \in SeqNo
    BY HeadOfLine DEF IInv
  <1>2. ~has_last_seq \/ last_seq # f.seq
    BY <1>1 DEF IsNew
  <1>3. ~reached
    BY <1>1, <1>2 DEF IInv, ReceiverInv
  <1>4. Age(pending_seq, f.seq) # Back /\ Age(pending_seq, f.seq) <= Back
    BY <1>1, <1>2 DEF IInv, ReceiverInv, LinesInv, Lines, InAge
  <1>5. Age(pending_seq, f.seq) < Back
    <2>1. Age(pending_seq, f.seq) \in 0..(SeqMod - 1)
      BY <1>1, AgeRange DEF IInv, TypeOK
    <2>2. Back \in Nat
      BY UartAssumption DEF IInv, TypeOK, Back
    <2> QED BY <1>4, <2>1, <2>2, UartAssumption
  <1> QED BY <1>1, <1>3, <1>5 DEF IInv, SenderInv, LinesInv, Lines, OneCommand

(* No retransmission hands its command over a second time, for any number  *)
(* of retries (slope_uart.c, slopeUartReceiverOnFrame).                    *)
THEOREM DuplicatesTheorem == Spec => DuplicatesSuppressed
  <1>1. IInv /\ [Next]_vars => [ReceiverOnFrame /\ IsNew(Head(data)) => ~reached]_vars
    BY NextFrame DEF ReceiverOnFrame
  <1> QED BY <1>1, Inductive, PTL DEF Spec, DuplicatesSuppressed

LEMMA RefinesInit == Init => Link!TxInit
  BY DEF Init, Link!TxInit

LEMMA RefinesStep == IInv /\ [Next]_vars => [Link!TxNext]_(Link!txVars)
  <1> SUFFICES ASSUME IInv, [Next]_vars PROVE [Link!TxNext]_(Link!txVars)
    OBVIOUS
  <1> USE DEF senderVars, adapterVars, receiverVars, Link!txVars
  <1>1. CASE ProcessAck
    <2>1. CASE SenderOnFrame(Head(acks))
      <3>1. reached
        BY <1>1, <2>1, Taken DEF ProcessAck, SenderOnFrame, IInv, ReceiverInv, TypeOK
      <3> QED BY <1>1, <2>1, <3>1 DEF ProcessAck, SenderOnFrame, Link!TxNext, Link!TxAck
    <2>2. CASE ~SenderOnFrame(Head(acks))
      BY <1>1, <2>2 DEF ProcessAck
    <2> QED BY <2>1, <2>2
  <1>2. CASE RxDone
    BY <1>2 DEF RxDone
  <1>3. CASE NoTimeout
    BY <1>3 DEF NoTimeout
  <1>4. CASE Resend
    BY <1>4 DEF Resend
  <1>5. CASE GiveUp
    BY <1>5 DEF GiveUp, Link!TxNext, Link!TxGiveUp
  <1>6. CASE SendDesired
    BY <1>6 DEF SendDesired, Link!TxNext, Link!TxSend, Link!CanSend
  <1>7. CASE NothingToSend
    BY <1>7 DEF NothingToSend
  <1>8. CASE ConsumeTxSuccess
    BY <1>8 DEF ConsumeTxSuccess, Link!TxNext, Link!TxConsume
  <1>9. CASE NoRequest
    BY <1>9 DEF NoRequest
  <1>10. ASSUME NEW c \in {"OPEN", "CLOSE"}, Request(c)
         PROVE  [Link!TxNext]_(Link!txVars)
    BY <1>10 DEF Request, Link!TxNext, Link!TxRequest, Link!RampCmd
  <1>11. CASE ReceiverOnFrame
    <2>1. /\ data # <<>> /\ UNCHANGED <<waiting_ack, desired, lastQueued, inflight, txSuccess>>
          /\ reached' = (reached \/ Head(data).seq = pending_seq)
          /\ reached' \in BOOLEAN
      BY <1>11 DEF ReceiverOnFrame, IInv, TypeOK
    <2>2. CASE IsNew(Head(data))
      <3>1. /\ ~reached /\ Head(data).cmd = inflight
            /\ waiting_ack \/ lastQueued = "FORCE"
        BY <2>1, <2>2, NextFrame
      <3>2. ramp' = IF inflight = "NONE" THEN ramp ELSE inflight
        BY <1>11, <2>2, <3>1 DEF ReceiverOnFrame
      <3> QED BY <2>1, <3>1, <3>2 DEF Link!TxNext, Link!TxDeliver
    <2>3. CASE ~IsNew(Head(data))
      <3>1. ramp' = ramp
        BY <1>11, <2>3 DEF ReceiverOnFrame
      <3>2. CASE reached' = reached
        BY <2>1, <3>1, <3>2
      <3>3. CASE reached' # reached
        <4>1. ~reached /\ Head(data).seq = pending_seq
          BY <2>1, <3>3 DEF IInv, TypeOK
        <4>2. inflight = "NONE"
          BY <2>3, <4>1 DEF IsNew, IInv, ReceiverInv
        <4>3. waiting_ack \/ lastQueued = "FORCE"
          BY <4>1 DEF IInv, SenderInv
        <4> QED BY <2>1, <3>1, <4>1, <4>2, <4>3 DEF Link!TxNext, Link!TxDeliver
      <3> QED BY <3>2, <3>3
    <2> QED BY <2>2, <2>3
  <1>12. CASE UNCHANGED vars
    BY <1>12 DEF vars
  <1> QED
    BY <1>1, <1>2, <1>3, <1>4, <1>5, <1>6, <1>7, <1>8, <1>9, <1>10, <1>11, <1>12
       DEF Next, TxPoll

(* The protocol implements the promise that doorEcuControlPoll relies on:  *)
(* success is reported only of what the slope ECU has processed, and no    *)
(* old attempt reaches it between commands (slope_uart.c,                  *)
(* slope_uart_tc375_lite.c).                                               *)
THEOREM Refinement == Spec => ImplementsSlopeTx
  BY RefinesInit, RefinesStep, Inductive, PTL DEF Spec, ImplementsSlopeTx, Link!TxSpec
=============================================================================
