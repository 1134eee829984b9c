----------------------------- MODULE ActixProofs -----------------------------
(***************************************************************************)
(* Proofs about ActixBatcher for any set of requests, any batch size and   *)
(* every fault of the model.                                               *)
(***************************************************************************)
EXTENDS ActixBatcher, FiniteSetTheorems, TLAPS

Message == [batch : Seq(Requests), result_txs : Seq(Requests)]

\* Rows and senders go side by side, in the batcher and on the way, and what the
\* batcher holds is not a full batch.
SideBySide ==
  /\ batch = result_txs /\ Len(batch) < MaxBatch
  /\ \A k \in DOMAIN worker_mailbox :
       worker_mailbox[k].batch = worker_mailbox[k].result_txs

ActixInv == TypeOK /\ SideBySide /\ LogitsAreOwn /\ DroppedByPanicOnly

\* The actors begin with nothing to do.
LEMMA ActixInitially == Init => ActixInv
<1> SUFFICES ASSUME Init PROVE ActixInv
  OBVIOUS
<1>1. worker_alive \in BOOLEAN
  BY Zenon DEF Init
<1>2. /\ DOMAIN worker_mailbox = {} /\ Len(batch) = 0
      /\ \A r \in Requests : answer[r] = None /\ handler[r] = "idle"
  BY DEF Init
<1>3. TypeOK
  BY <1>1 DEF Init, TypeOK, HandlerStates, Answers
<1>4. SideBySide
  BY <1>2, ActixAssumption DEF Init, SideBySide
<1>5. LogitsAreOwn /\ DroppedByPanicOnly
  BY <1>2 DEF LogitsAreOwn, DroppedByPanicOnly, None, Dropped
<1> QED
  BY <1>3, <1>4, <1>5 DEF ActixInv

\* What answers may become without the worker.
LEMMA Kept ==
  ASSUME ActixInv,
         answer' \in [Requests -> Answers],
         \A r \in Requests : \/ answer'[r] = answer[r] \/ answer'[r] = Open
                             \/ answer'[r] = Dropped /\ ~worker_alive,
         worker_alive' = worker_alive
  PROVE  LogitsAreOwn' /\ DroppedByPanicOnly'
<1>1. LogitsAreOwn'
  BY DEF ActixInv, LogitsAreOwn, Open, Dropped
<1>2. DroppedByPanicOnly'
  BY DEF ActixInv, DroppedByPanicOnly, Open, Dropped
<1> QED
  BY <1>1, <1>2

\* The handlers only read their answers (lines 272-302 of main.rs).
LEMMA HandlersPreserve ==
  ASSUME ActixInv, NEW r \in Requests,
         Submit(r) \/ PreprocessPanics(r) \/ Answered(r) \/ Disconnect(r)
  PROVE  ActixInv'
<1>1. /\ UNCHANGED <<answer, batch, result_txs, timers, worker_mailbox, worker_alive>>
      /\ handler' \in [Requests -> HandlerStates] /\ mailbox' \in Seq(Requests)
  <2>1. /\ UNCHANGED <<answer, batch, result_txs, timers, worker_mailbox, worker_alive>>
        /\ mailbox' \in {mailbox, Append(mailbox, r)}
        /\ \E h \in HandlerStates : handler' = [handler EXCEPT ![r] = h]
    <3>1. CASE Submit(r)
      BY <3>1 DEF Submit, batcherState, workerState, HandlerStates
    <3>2. CASE PreprocessPanics(r)
      BY <3>2 DEF PreprocessPanics, batcherState, workerState, HandlerStates
    <3>3. CASE Answered(r)
      <4> DEFINE h == IF answer[r].tag = "logits" THEN "replied" ELSE "panicked"
      <4>1. h \in HandlerStates
        BY DEF HandlerStates
      <4>2. handler' = [handler EXCEPT ![r] = h]
        BY <3>3 DEF Answered
      <4>3. UNCHANGED <<answer, mailbox, batch, result_txs, timers, worker_mailbox, worker_alive>>
        BY <3>3 DEF Answered, batcherState, workerState
      <4> QED
        BY <4>1, <4>2, <4>3
    <3>4. CASE Disconnect(r)
      BY <3>4 DEF Disconnect, batcherState, workerState, HandlerStates
    <3> QED
      BY <3>1, <3>2, <3>3, <3>4
  <2>2. mailbox \in Seq(Requests) /\ handler \in [Requests -> HandlerStates]
    BY DEF ActixInv, TypeOK
  <2> QED
    BY <2>1, <2>2
<1>2. TypeOK'
  BY <1>1 DEF ActixInv, TypeOK
<1> QED
  BY <1>1, <1>2 DEF ActixInv, SideBySide, LogitsAreOwn, DroppedByPanicOnly

\* A flush of rows that stand beside their senders (lines 205-219).
LEMMA DispatchPreserves ==
  ASSUME ActixInv, NEW rows \in Seq(Requests), Len(rows) \in 1 .. MaxBatch,
         Dispatch(rows, rows)
  PROVE  /\ batch' = << >> /\ result_txs' = << >> /\ worker_alive' = worker_alive
         /\ worker_mailbox' \in Seq(Message)
         /\ SideBySide'
<1>1. /\ batch' = << >> /\ result_txs' = << >> /\ worker_alive' = worker_alive
      /\ \/ worker_mailbox' = worker_mailbox
         \/ worker_mailbox' = Append(worker_mailbox, [batch |-> rows, result_txs |-> rows])
  BY DEF Dispatch
<1>2. worker_mailbox \in Seq(Message) /\ [batch |-> rows, result_txs |-> rows] \in Message
  BY DEF ActixInv, TypeOK, Message
<1>3. worker_mailbox' \in Seq(Message)
  BY <1>1, <1>2
<1>4. \A k \in DOMAIN worker_mailbox' :
        \/ k \in DOMAIN worker_mailbox /\ worker_mailbox'[k] = worker_mailbox[k]
        \/ worker_mailbox'[k] = [batch |-> rows, result_txs |-> rows]
  BY <1>1, <1>2
<1>5. SideBySide'
  BY <1>1, <1>4, ActixAssumption DEF ActixInv, SideBySide
<1> QED
  BY <1>1, <1>3, <1>5

\* The batcher takes a request: it joins the batch, which may be full then
\* (lines 181-202).
LEMMA HandlePreserves == ASSUME ActixInv, Handle PROVE ActixInv'
<1> DEFINE r == Head(mailbox)
           rows == Append(batch, r)
<1>1. /\ mailbox # << >> /\ mailbox' = Tail(mailbox) /\ handler' = handler
      /\ IF IsFull(rows)
           THEN /\ Dispatch(rows, Append(result_txs, r))
                /\ answer' = [q \in Requests |->
                                IF q \in Lost(Append(result_txs, r)) THEN Dropped
                                ELSE IF q = r THEN Open ELSE answer[q]]
                /\ UNCHANGED timers
           ELSE /\ batch' = rows /\ result_txs' = Append(result_txs, r)
                /\ timers' = Arms(r, rows)
                /\ answer' = [answer EXCEPT ![r] = Open]
                /\ UNCHANGED workerState
  BY DEF Handle
<1>2. /\ r \in Requests /\ mailbox' \in Seq(Requests) /\ Append(result_txs, r) = rows
      /\ rows \in Seq(Requests) /\ Len(rows) \in 1 .. MaxBatch
  BY <1>1, ActixAssumption DEF ActixInv, TypeOK, SideBySide
<1> HIDE DEF r, rows
<1>3. CASE IsFull(rows)
  <2>1. /\ batch' = << >> /\ result_txs' = << >> /\ worker_alive' = worker_alive
        /\ worker_mailbox' \in Seq(Message) /\ SideBySide'
    BY <1>1, <1>2, <1>3, DispatchPreserves
  <2>2. answer' \in [Requests -> Answers]
    BY <1>1, <1>3 DEF ActixInv, TypeOK, Answers
  <2>3. LogitsAreOwn' /\ DroppedByPanicOnly'
    BY <1>1, <1>3, <2>1, <2>2, Kept DEF Lost
  <2>4. TypeOK'
    BY <1>1, <1>2, <1>3, <2>1, <2>2 DEF ActixInv, TypeOK, Message
  <2> QED
    BY <2>1, <2>3, <2>4 DEF ActixInv
<1>4. CASE ~IsFull(rows)
  <2>1. /\ batch' = rows /\ result_txs' = rows /\ timers' = timers \cup {r}
        /\ answer' = [answer EXCEPT ![r] = Open]
        /\ worker_mailbox' = worker_mailbox /\ worker_alive' = worker_alive
    BY <1>1, <1>2, <1>4 DEF Arms, workerState
  <2>2. answer' \in [Requests -> Answers]
    BY <2>1 DEF ActixInv, TypeOK, Answers
  <2>3. LogitsAreOwn' /\ DroppedByPanicOnly'
    BY <2>1, <2>2, Kept DEF ActixInv, TypeOK
  <2>4. SideBySide'
    BY <1>2, <1>4, <2>1, ActixAssumption DEF ActixInv, SideBySide, IsFull
  <2>5. TypeOK'
    BY <1>1, <1>2, <2>1, <2>2 DEF ActixInv, TypeOK
  <2> QED
    BY <2>3, <2>4, <2>5 DEF ActixInv
<1> QED
  BY <1>3, <1>4

\* A timer flushes what is there (lines 193-195).
LEMMA TimerPreserves ==
  ASSUME ActixInv, NEW r \in Requests, TimerFires(r)
  PROVE  ActixInv'
<1>1. timers' = timers \ {r} /\ UNCHANGED <<handler, mailbox>>
  BY DEF TimerFires
<1>2. CASE batch = << >>
  <2>1. UNCHANGED <<batch, result_txs, answer, worker_mailbox, worker_alive>>
    BY <1>2 DEF TimerFires, workerState
  <2>2. TypeOK'
    BY <1>1, <2>1 DEF ActixInv, TypeOK
  <2> QED
    BY <1>1, <2>1, <2>2 DEF ActixInv, SideBySide, LogitsAreOwn,
                            DroppedByPanicOnly
<1>3. CASE batch # << >>
  <2>1. /\ Dispatch(batch, batch)
        /\ answer' = [q \in Requests |-> IF q \in Lost(batch) THEN Dropped ELSE answer[q]]
    BY <1>3 DEF TimerFires, ActixInv, SideBySide
  <2>2. batch \in Seq(Requests) /\ Len(batch) \in 1 .. MaxBatch
    BY <1>3, ActixAssumption DEF ActixInv, TypeOK, SideBySide
  <2>3. /\ batch' = << >> /\ result_txs' = << >> /\ worker_alive' = worker_alive
        /\ worker_mailbox' \in Seq(Message) /\ SideBySide'
    BY <2>1, <2>2, DispatchPreserves
  <2>4. answer' \in [Requests -> Answers]
    BY <2>1 DEF ActixInv, TypeOK, Answers
  <2>5. LogitsAreOwn' /\ DroppedByPanicOnly'
    BY <2>1, <2>3, <2>4, Kept DEF Lost
  <2>6. TypeOK'
    BY <1>1, <2>3, <2>4 DEF ActixInv, TypeOK, Message
  <2> QED
    BY <2>3, <2>5, <2>6 DEF ActixInv
<1> QED
  BY <1>2, <1>3

\* The slices of a message go to the senders of their own rows (lines 144-150).
LEMMA SlicesAreOwn ==
  ASSUME ActixInv, NEW msg \in Message, msg.batch = msg.result_txs, NEW n \in Int,
         NEW rest \in {Empty, Dropped}, NEW r \in Requests
  PROVE  \/ SendSlices(msg, n, rest)[r] = Logits({r})
         \/ SendSlices(msg, n, rest)[r] = rest
         \/ SendSlices(msg, n, rest)[r] = answer[r]
<1>1. CASE \E i \in DOMAIN msg.result_txs : msg.result_txs[i] = r
  <2> DEFINE i == CHOOSE i \in DOMAIN msg.result_txs : msg.result_txs[i] = r
  <2>1. i \in DOMAIN msg.result_txs /\ msg.result_txs[i] = r
    BY <1>1
  <2>2. SendSlices(msg, n, rest)[r] = IF i <= n THEN Logits(Slice(msg, i)) ELSE rest
    BY <1>1 DEF SendSlices
  <2> HIDE DEF i
  <2> QED
    BY <2>1, <2>2 DEF Slice
<1>2. CASE ~\E i \in DOMAIN msg.result_txs : msg.result_txs[i] = r
  BY <1>2 DEF SendSlices
<1> QED
  BY <1>1, <1>2

\* The worker answers the senders of one message, or takes the others with it.
LEMMA WorkerPreserves == ASSUME ActixInv, Works PROVE ActixInv'
<1>1. /\ UNCHANGED <<handler, mailbox, batch, result_txs, timers>>
      /\ worker_mailbox # << >> /\ worker_alive
  BY DEF Works, Infers, InferFails, OutputTooShort, batcherState
<1>2. /\ worker_mailbox \in Seq(Message) /\ Head(worker_mailbox) \in Message
      /\ Head(worker_mailbox).batch = Head(worker_mailbox).result_txs
      /\ Tail(worker_mailbox) \in Seq(Message)
      /\ \A k \in DOMAIN Tail(worker_mailbox) :
           k + 1 \in DOMAIN worker_mailbox /\ Tail(worker_mailbox)[k] = worker_mailbox[k + 1]
  <2>1. worker_mailbox \in Seq(Message)
    BY DEF ActixInv, TypeOK, Message
  <2>2. \A k \in DOMAIN worker_mailbox :
          worker_mailbox[k].batch = worker_mailbox[k].result_txs
    BY DEF ActixInv, SideBySide
  <2>3. /\ 1 \in DOMAIN worker_mailbox /\ Head(worker_mailbox) = worker_mailbox[1]
        /\ Head(worker_mailbox) \in Message /\ Tail(worker_mailbox) \in Seq(Message)
        /\ \A k \in DOMAIN Tail(worker_mailbox) :
             k + 1 \in DOMAIN worker_mailbox /\ Tail(worker_mailbox)[k] = worker_mailbox[k + 1]
    <3> HIDE DEF Message
    <3> QED
      BY <1>1, <2>1
  <2> QED
    BY <2>1, <2>2, <2>3
<1> DEFINE msg == Head(worker_mailbox)
<1>3. /\ worker_mailbox' \in {Tail(worker_mailbox), << >>}
      /\ \A r \in Requests :
           \/ answer'[r] \in {Logits({r}), Empty, answer[r]}
           \/ answer'[r] = Dropped /\ worker_alive' = FALSE
      /\ answer' \in [Requests -> Answers] /\ worker_alive' \in BOOLEAN
  <2> SUFFICES /\ worker_mailbox' \in {Tail(worker_mailbox), << >>}
               /\ \A r \in Requests :
                    \/ answer'[r] \in {Logits({r}), Empty, answer[r]}
                    \/ answer'[r] = Dropped /\ worker_alive' = FALSE
               /\ DOMAIN answer' = Requests /\ answer' = [r \in Requests |-> answer'[r]]
               /\ worker_alive' \in BOOLEAN
    <3>1. \A r \in Requests : answer'[r] \in Answers
      BY DEF ActixInv, TypeOK, Answers
    <3> QED
      BY <3>1
  <2>1. CASE Infers
    <3>1. /\ answer' = SendSlices(msg, Len(msg.result_txs), Empty)
          /\ worker_mailbox' = Tail(worker_mailbox) /\ worker_alive' = worker_alive
      BY <2>1 DEF Infers
    <3>2. Len(msg.result_txs) \in Int /\ DOMAIN answer' = Requests
          /\ answer' = [r \in Requests |-> answer'[r]]
      BY <1>2, <3>1 DEF Message, SendSlices
    <3>3. \A r \in Requests : answer'[r] \in {Logits({r}), Empty, answer[r]}
      <4> HIDE DEF msg
      <4> QED
        BY <1>2, <3>1, <3>2, SlicesAreOwn DEF msg
    <3>4. worker_alive' \in BOOLEAN
      BY <3>1 DEF ActixInv, TypeOK
    <3> QED
      BY <3>1, <3>2, <3>3, <3>4
  <2>2. CASE InferFails
    <3>1. /\ answer' = SendSlices(msg, 0, Empty)
          /\ worker_mailbox' = Tail(worker_mailbox) /\ worker_alive' = worker_alive
      BY <2>2 DEF InferFails, FailureAnswer
    <3>2. DOMAIN answer' = Requests /\ answer' = [r \in Requests |-> answer'[r]]
      BY <3>1 DEF SendSlices
    <3>3. \A r \in Requests : answer'[r] \in {Logits({r}), Empty, answer[r]}
      <4>1. 0 \in Int /\ msg \in Message /\ msg.batch = msg.result_txs
        BY <1>2
      <4> HIDE DEF msg
      <4>2. \A r \in Requests : \/ SendSlices(msg, 0, Empty)[r] = Logits({r})
                               \/ SendSlices(msg, 0, Empty)[r] = Empty
                               \/ SendSlices(msg, 0, Empty)[r] = answer[r]
        BY <4>1, SlicesAreOwn
      <4> QED
        BY <3>1, <4>2
    <3>4. worker_alive' \in BOOLEAN
      BY <3>1 DEF ActixInv, TypeOK
    <3> QED
      BY <3>1, <3>2, <3>3, <3>4
  <2>3. ASSUME NEW n \in 0 .. MaxBatch - 1, OutputTooShort(n)
        PROVE  /\ worker_mailbox' \in {Tail(worker_mailbox), << >>}
               /\ \A r \in Requests :
                    \/ answer'[r] \in {Logits({r}), Empty, answer[r]}
                    \/ answer'[r] = Dropped /\ worker_alive' = FALSE
               /\ DOMAIN answer' = Requests /\ answer' = [r \in Requests |-> answer'[r]]
               /\ worker_alive' \in BOOLEAN
    <3>1. PICK behind : answer' = [r \in Requests |->
                                     IF r \in behind THEN Dropped
                                     ELSE SendSlices(msg, n, Dropped)[r]]
      BY <2>3 DEF OutputTooShort
    <3>2. worker_mailbox' = << >> /\ worker_alive' = FALSE
      BY <2>3 DEF OutputTooShort
    <3>3. \A r \in Requests : SendSlices(msg, n, Dropped)[r] \in {Logits({r}), Dropped, answer[r]}
      <4>1. n \in Int /\ msg \in Message /\ msg.batch = msg.result_txs
        BY <1>2, ActixAssumption
      <4> HIDE DEF msg
      <4>2. \A r \in Requests : \/ SendSlices(msg, n, Dropped)[r] = Logits({r})
                               \/ SendSlices(msg, n, Dropped)[r] = Dropped
                               \/ SendSlices(msg, n, Dropped)[r] = answer[r]
        BY <4>1, SlicesAreOwn
      <4> QED
        BY <4>2
    <3>4. worker_alive' \in BOOLEAN
      BY <3>2, Zenon
    <3>5. \A r \in Requests : \/ answer'[r] \in {Logits({r}), Empty, answer[r]}
                              \/ answer'[r] = Dropped /\ worker_alive' = FALSE
      BY <3>1, <3>2, <3>3
    <3> QED
      BY <3>1, <3>2, <3>4, <3>5
  <2> QED
    BY <2>1, <2>2, <2>3 DEF Works
<1>4. TypeOK'
  <2>1. worker_mailbox' \in Seq(Message)
    <3>1. worker_mailbox' = Tail(worker_mailbox) \/ worker_mailbox' = << >>
      BY <1>3
    <3>2. << >> \in Seq(Message)
      OBVIOUS
    <3> QED
      BY <1>2, <3>1, <3>2, Zenon
  <2>2. worker_alive' \in BOOLEAN
    BY <1>3
  <2>3. /\ handler' \in [Requests -> HandlerStates] /\ mailbox' \in Seq(Requests)
        /\ batch' \in Seq(Requests) /\ result_txs' \in Seq(Requests)
        /\ timers' \subseteq Requests
    BY <1>1 DEF ActixInv, TypeOK
  <2>4. answer' \in [Requests -> Answers]
    BY <1>3
  <2> HIDE DEF msg
  <2> QED
    BY <2>1, <2>2, <2>3, <2>4, Zenon DEF TypeOK, Message
<1>5. \A k \in DOMAIN worker_mailbox' :
        k + 1 \in DOMAIN worker_mailbox /\ worker_mailbox'[k] = worker_mailbox[k + 1]
  BY <1>2, <1>3
<1>6. SideBySide'
  BY <1>1, <1>5 DEF ActixInv, SideBySide
<1>7. LogitsAreOwn'
  BY <1>3 DEF ActixInv, LogitsAreOwn, Logits, Empty, Dropped
<1>8. DroppedByPanicOnly'
  <2>1. \A r \in Requests : answer[r] # Dropped
    BY <1>1 DEF ActixInv, DroppedByPanicOnly
  <2>2. \A r \in Requests : answer'[r] = Dropped => worker_alive' = FALSE
    <3>1. \A r \in Requests : Logits({r}) # Dropped /\ Empty # Dropped
      BY DEF Logits, Empty, Dropped
    <3> HIDE DEF msg
    <3> QED
      BY <1>3, <2>1, <3>1
  <2>3. worker_alive' = FALSE => ~worker_alive'
    OBVIOUS
  <2> QED
    BY <2>2, <2>3, Zenon DEF DroppedByPanicOnly
<1> QED
  BY <1>4, <1>6, <1>7, <1>8 DEF ActixInv

\* Every step of the handlers, the timers and the two actors preserves the invariant.
LEMMA ActixStep == ActixInv /\ [Next]_vars => ActixInv'
<1> SUFFICES ASSUME ActixInv, [Next]_vars PROVE ActixInv'
  OBVIOUS
<1>1. ASSUME NEW r \in Requests,
             Submit(r) \/ PreprocessPanics(r) \/ Answered(r) \/ Disconnect(r)
      PROVE  ActixInv'
  BY <1>1, HandlersPreserve
<1>2. ASSUME NEW r \in Requests, TimerFires(r) PROVE ActixInv'
  BY <1>2, TimerPreserves
<1>3. CASE Handle
  BY <1>3, HandlePreserves
<1>4. CASE SkipAbandoned
  <2>1. /\ mailbox' = Tail(mailbox) /\ mailbox # << >>
        /\ UNCHANGED <<handler, answer, batch, result_txs, timers, worker_mailbox, worker_alive>>
    BY <1>4 DEF SkipAbandoned, batcherState, workerState
  <2>2. TypeOK'
    BY <2>1 DEF ActixInv, TypeOK
  <2> QED
    BY <2>1, <2>2 DEF ActixInv, SideBySide, LogitsAreOwn, DroppedByPanicOnly
<1>5. CASE Works
  BY <1>5, WorkerPreserves
<1>6. CASE UNCHANGED vars
  BY <1>6 DEF vars, batcherState, workerState, ActixInv, TypeOK, SideBySide, LogitsAreOwn,
              DroppedByPanicOnly
<1> QED
  BY <1>1, <1>2, <1>3, <1>4, <1>5, <1>6 DEF Next

\* Rows and senders stay side by side in every message, whatever timers fire and
\* whatever fails (BatcherActor and WorkerActor).
THEOREM ActixInvariance == Spec => []ActixInv
  BY ActixInitially, ActixStep, PTL DEF Spec

\* Type correctness of the actors' state.
THEOREM ActixTypeOK == Spec => []TypeOK
<1>1. ActixInv => TypeOK
  BY DEF ActixInv
<1> QED
  BY <1>1, ActixInvariance, PTL

\* Slicing by position gives a handler the logits of its own image.
THEOREM LogitsAreOwnHolds == Spec => []LogitsAreOwn
<1>1. ActixInv => LogitsAreOwn
  BY DEF ActixInv
<1> QED
  BY <1>1, ActixInvariance, PTL

\* While the worker lives no sender is dropped unanswered.
THEOREM DroppedByPanicOnlyHolds == Spec => []DroppedByPanicOnly
<1>1. ActixInv => DroppedByPanicOnly
  BY DEF ActixInv
<1> QED
  BY <1>1, ActixInvariance, PTL
-----------------------------------------------------------------------------
(***************************************************************************)
(* Where the senders are.                                                  *)
(***************************************************************************)
Collected(r) == \E i \in DOMAIN result_txs : result_txs[i] = r
SentIn(m, r) == \E i \in DOMAIN m.result_txs : m.result_txs[i] = r
Sent(r) == \E k \in DOMAIN worker_mailbox : SentIn(worker_mailbox[k], r)

NoTwice(s) == \A i, j \in DOMAIN s : s[i] = s[j] => i = j

\* No message holds a sender twice, and no two messages hold the same one.
SentOnce(ms) ==
  /\ \A k \in DOMAIN ms : NoTwice(ms[k].result_txs)
  /\ \A k, l \in DOMAIN ms : \A r \in Requests :
       SentIn(ms[k], r) /\ SentIn(ms[l], r) => k = l

\* A request is on its way to the batcher, then in the batch or a message while
\* its oneshot is open, and nowhere afterwards.
SenderInv ==
  /\ NoTwice(result_txs) /\ SentOnce(worker_mailbox)
  /\ \A r \in Requests :
       /\ ~(Collected(r) /\ Sent(r))
       /\ answer[r] = Open <=> Collected(r) \/ Sent(r)
  /\ NoTwice(mailbox)
  /\ \A i \in DOMAIN mailbox : answer[mailbox[i]] = None
  /\ \A r \in Requests : handler[r] = "idle" =>
       answer[r] = None /\ \A i \in DOMAIN mailbox : mailbox[i] # r

\* The contents of a oneshot are told apart.
LEMMA AnswerTags ==
  /\ Open # None /\ Open # Dropped /\ Open # Empty /\ None # Dropped /\ None # Empty
  /\ \A rows : Logits(rows) # Open /\ Logits(rows) # None
BY DEF Open, None, Dropped, Empty, Logits

\* Nobody has sent anything yet.
LEMMA SendersInitially == Init => SenderInv
BY DEF Init, SenderInv, NoTwice, SentOnce, Collected, Sent, Open, None

\* The handlers touch no sender, and a request is submitted once.
LEMMA HandlersKeepSenders ==
  ASSUME ActixInv, SenderInv, NEW r \in Requests,
         Submit(r) \/ PreprocessPanics(r) \/ Answered(r) \/ Disconnect(r)
  PROVE  SenderInv'
<1>1. UNCHANGED <<answer, result_txs, worker_mailbox>>
  BY DEF Submit, PreprocessPanics, Answered, Disconnect, batcherState, workerState
<1>2. /\ NoTwice(result_txs)' /\ SentOnce(worker_mailbox)'
      /\ \A q \in Requests :
           /\ ~(Collected(q)' /\ Sent(q)')
           /\ answer'[q] = Open <=> Collected(q)' \/ Sent(q)'
  BY <1>1 DEF SenderInv, NoTwice, SentOnce, SentIn, Collected, Sent
<1>3. /\ mailbox \in Seq(Requests) /\ handler \in [Requests -> HandlerStates]
      /\ NoTwice(mailbox) /\ \A i \in DOMAIN mailbox : answer[mailbox[i]] = None
      /\ \A q \in Requests : handler[q] = "idle" =>
           answer[q] = None /\ \A i \in DOMAIN mailbox : mailbox[i] # q
  BY DEF ActixInv, TypeOK, SenderInv
<1>4. CASE Submit(r)
  <2>1. /\ mailbox' = Append(mailbox, r) /\ handler[r] = "idle"
        /\ handler' = [handler EXCEPT ![r] = "waiting"]
    BY <1>4 DEF Submit
  <2>2. \A i \in DOMAIN mailbox' :
          \/ i \in DOMAIN mailbox /\ mailbox'[i] = mailbox[i]
          \/ i = Len(mailbox) + 1 /\ mailbox'[i] = r
    BY <1>3, <2>1
  <2>3. NoTwice(mailbox)'
    BY <1>3, <2>1, <2>2 DEF NoTwice
  <2>4. \A i \in DOMAIN mailbox' : answer'[mailbox'[i]] = None
    BY <1>1, <1>3, <2>1, <2>2
  <2>5. \A q \in Requests : handler'[q] = "idle" =>
          answer'[q] = None /\ \A i \in DOMAIN mailbox' : mailbox'[i] # q
    BY <1>1, <1>3, <2>1, <2>2
  <2> QED
    BY <1>2, <2>3, <2>4, <2>5 DEF SenderInv
<1>5. CASE PreprocessPanics(r) \/ Answered(r) \/ Disconnect(r)
  <2>1. mailbox' = mailbox /\ \A q \in Requests : handler'[q] = "idle" => handler[q] = "idle"
    BY <1>3, <1>5 DEF PreprocessPanics, Answered, Disconnect
  <2> QED
    BY <1>1, <1>2, <1>3, <2>1 DEF SenderInv, NoTwice
<1> QED
  BY <1>4, <1>5

\* What a flush does to the senders, of which none is already on its way.
LEMMA DispatchKeepsSenders ==
  ASSUME ActixInv, NEW rows \in Seq(Requests), Dispatch(rows, rows),
         NoTwice(rows), SentOnce(worker_mailbox),
         \A i \in DOMAIN rows : ~Sent(rows[i]),
         \A r \in Requests :
           IF r \in Lost(rows) THEN answer'[r] = Dropped
           ELSE answer'[r] = Open <=> (\E i \in DOMAIN rows : rows[i] = r) \/ Sent(r)
  PROVE  /\ NoTwice(result_txs)' /\ SentOnce(worker_mailbox)'
         /\ \A r \in Requests :
              /\ ~(Collected(r)' /\ Sent(r)')
              /\ answer'[r] = Open <=> Collected(r)' \/ Sent(r)'
<1> DEFINE msg == [batch |-> rows, result_txs |-> rows]
<1>1. /\ result_txs' = << >> /\ worker_mailbox \in Seq(Message) /\ msg \in Message
      /\ msg.result_txs = rows
  BY DEF Dispatch, ActixInv, TypeOK, Message
<1>2. NoTwice(result_txs)' /\ \A r \in Requests : ~Collected(r)'
  BY <1>1 DEF NoTwice, Collected
<1>3. CASE worker_alive
  <2>1. worker_mailbox' = Append(worker_mailbox, msg) /\ Lost(rows) = {}
    BY <1>3 DEF Dispatch, Lost
  <2>2. /\ \A k \in DOMAIN worker_mailbox' :
             \/ k \in DOMAIN worker_mailbox /\ worker_mailbox'[k] = worker_mailbox[k]
             \/ k = Len(worker_mailbox) + 1 /\ worker_mailbox'[k] = msg
        /\ \A k \in DOMAIN worker_mailbox :
             k \in DOMAIN worker_mailbox' /\ worker_mailbox'[k] = worker_mailbox[k]
        /\ Len(worker_mailbox) + 1 \in DOMAIN worker_mailbox'
        /\ worker_mailbox'[Len(worker_mailbox) + 1] = msg
    <3> HIDE DEF msg, Message
    <3> QED
      BY <1>1, <2>1
  <2>3. \A r \in Requests : SentIn(msg, r) <=> \E i \in DOMAIN rows : rows[i] = r
    BY <1>1 DEF SentIn
  <2> HIDE DEF msg
  <2>4. \A r \in Requests : Sent(r)' <=> SentIn(msg, r) \/ Sent(r)
    BY <2>2 DEF Sent, SentIn
  <2>5. SentOnce(worker_mailbox)'
    <3>1. \A k \in DOMAIN worker_mailbox' : NoTwice(worker_mailbox'[k].result_txs)
      BY <1>1, <2>2 DEF SentOnce, NoTwice
    <3>2. \A r \in Requests : SentIn(msg, r) => ~Sent(r)
      BY <2>3
    <3>3. ASSUME NEW k \in DOMAIN worker_mailbox', NEW l \in DOMAIN worker_mailbox',
                 NEW r \in Requests,
                 SentIn(worker_mailbox'[k], r), SentIn(worker_mailbox'[l], r)
          PROVE  k = l
      BY <2>2, <3>2, <3>3 DEF SentOnce, Sent
    <3> QED
      BY <3>1, <3>3 DEF SentOnce, SentIn, NoTwice
  <2> QED
    BY <1>2, <2>1, <2>3, <2>4, <2>5
<1>4. CASE ~worker_alive
  <2>1. worker_mailbox' = worker_mailbox /\ Lost(rows) = Range(rows)
    BY <1>4 DEF Dispatch, Lost
  <2>2. \A r \in Requests : r \in Range(rows) <=> \E i \in DOMAIN rows : rows[i] = r
    BY DEF Range
  <2>3. SentOnce(worker_mailbox)' /\ \A r \in Requests : Sent(r)' <=> Sent(r)
    BY <2>1 DEF SentOnce, NoTwice, Sent, SentIn
  <2>4. \A r \in Requests : r \in Range(rows) => ~Sent(r)
    BY <2>2
  <2>5. \A r \in Requests : answer'[r] = Open <=> Sent(r)
    BY <2>1, <2>2, <2>4, AnswerTags
  <2> QED
    BY <1>2, <2>3, <2>5
<1> QED
  BY <1>3, <1>4

\* A request joins the batch: its oneshot is made, and it leaves the mailbox.
LEMMA HandleKeepsSenders ==
  ASSUME ActixInv, SenderInv, Handle
  PROVE  SenderInv'
<1> DEFINE r == Head(mailbox)
           rows == Append(batch, r)
           a == [answer EXCEPT ![r] = Open]
<1>1. /\ mailbox # << >> /\ mailbox' = Tail(mailbox) /\ handler' = handler
      /\ IF IsFull(rows)
           THEN /\ Dispatch(rows, Append(result_txs, r))
                /\ answer' = [q \in Requests |->
                                IF q \in Lost(Append(result_txs, r)) THEN Dropped
                                ELSE IF q = r THEN Open ELSE answer[q]]
                /\ UNCHANGED timers
           ELSE /\ batch' = rows /\ result_txs' = Append(result_txs, r)
                /\ timers' = Arms(r, rows)
                /\ answer' = [answer EXCEPT ![r] = Open]
                /\ UNCHANGED workerState
  BY DEF Handle
<1>2. /\ r \in Requests /\ Append(result_txs, r) = rows /\ rows \in Seq(Requests)
      /\ mailbox \in Seq(Requests) /\ answer \in [Requests -> Answers]
      /\ 1 \in DOMAIN mailbox /\ mailbox[1] = r /\ result_txs \in Seq(Requests)
  BY <1>1 DEF ActixInv, TypeOK, SideBySide
<1>3. answer[r] = None /\ ~Collected(r) /\ ~Sent(r)
  BY <1>2, AnswerTags DEF SenderInv
<1>4. \A i \in DOMAIN rows :
        \/ i \in DOMAIN result_txs /\ rows[i] = result_txs[i]
        \/ i = Len(result_txs) + 1 /\ rows[i] = r
  BY <1>2
<1>5. \A q \in Requests : (\E i \in DOMAIN rows : rows[i] = q) <=> q = r \/ Collected(q)
  <2>1. /\ \A i \in DOMAIN result_txs : i \in DOMAIN rows /\ rows[i] = result_txs[i]
        /\ Len(result_txs) + 1 \in DOMAIN rows /\ rows[Len(result_txs) + 1] = r
    BY <1>2
  <2> HIDE DEF r, rows
  <2> QED
    BY <1>4, <2>1 DEF Collected
<1> HIDE DEF r, rows
<1>6. NoTwice(rows)
  BY <1>3, <1>4 DEF SenderInv, NoTwice, Collected
<1>7. \A i \in DOMAIN rows : ~Sent(rows[i])
  BY <1>2, <1>3, <1>4, <1>5 DEF SenderInv
<1>8. \A q \in Requests : a[q] = Open <=> (\E i \in DOMAIN rows : rows[i] = q) \/ Sent(q)
  BY <1>2, <1>5 DEF SenderInv
<1>9. /\ NoTwice(result_txs)' /\ SentOnce(worker_mailbox)'
      /\ \A q \in Requests :
           /\ ~(Collected(q)' /\ Sent(q)')
           /\ answer'[q] = Open <=> Collected(q)' \/ Sent(q)'
  <2>1. CASE IsFull(rows)
    <3>1. /\ Dispatch(rows, rows)
          /\ \A q \in Requests : answer'[q] = IF q \in Lost(rows) THEN Dropped ELSE a[q]
      BY <1>1, <1>2, <2>1
    <3>2. SentOnce(worker_mailbox)
      BY DEF SenderInv
    <3> HIDE DEF a
    <3>3. \A q \in Requests :
            IF q \in Lost(rows) THEN answer'[q] = Dropped
            ELSE answer'[q] = Open <=> (\E i \in DOMAIN rows : rows[i] = q) \/ Sent(q)
      BY <1>8, <3>1
    <3> QED
      BY <1>2, <1>6, <1>7, <3>1, <3>2, <3>3, DispatchKeepsSenders
  <2>2. CASE ~IsFull(rows)
    <3>1. /\ result_txs' = rows /\ worker_mailbox' = worker_mailbox /\ answer' = a
      BY <1>1, <1>2, <2>2 DEF workerState
    <3>2. \A q \in Requests : /\ Collected(q)' <=> \E i \in DOMAIN rows : rows[i] = q
                              /\ Sent(q)' <=> Sent(q)
      BY <3>1 DEF Collected, Sent, SentIn
    <3>3. NoTwice(result_txs)' /\ SentOnce(worker_mailbox)'
      BY <1>6, <3>1 DEF SenderInv, NoTwice, SentOnce, SentIn
    <3>4. \A q \in Requests : ~((\E i \in DOMAIN rows : rows[i] = q) /\ Sent(q))
      BY <1>7
    <3> QED
      BY <1>8, <3>1, <3>2, <3>3, <3>4
  <2> QED
    BY <2>1, <2>2
<1>10. \A q \in Requests : q # r => answer'[q] \in {answer[q], Dropped}
                                 /\ (answer'[q] = Dropped => answer[q] = Open \/ answer'[q] = answer[q])
  <2>1. \A q \in Requests : q # r /\ q \in Lost(rows) => answer[q] = Open
    BY <1>2, <1>5 DEF Lost, Range, SenderInv
  <2> QED
    BY <1>1, <1>2, <2>1
<1>11. \A q \in Requests : q # r /\ answer[q] = None => answer'[q] = None
  BY <1>10, AnswerTags
<1>12. \A i \in DOMAIN mailbox' :
         i + 1 \in DOMAIN mailbox /\ mailbox'[i] = mailbox[i + 1] /\ mailbox'[i] # r
         /\ mailbox'[i] \in Requests /\ i \in Nat
  <2>1. \A i \in DOMAIN mailbox' :
          i \in Nat \ {0} /\ i + 1 \in DOMAIN mailbox /\ mailbox'[i] = mailbox[i + 1]
          /\ mailbox'[i] \in Requests
    BY <1>1, <1>2
  <2>2. \A i \in DOMAIN mailbox' : mailbox[i + 1] # mailbox[1]
    BY <1>2, <2>1 DEF SenderInv, NoTwice
  <2> QED
    BY <1>2, <2>1, <2>2
<1>13. /\ NoTwice(mailbox)' /\ \A i \in DOMAIN mailbox' : answer'[mailbox'[i]] = None
  BY <1>11, <1>12 DEF SenderInv, NoTwice
<1>14. \A q \in Requests : handler'[q] = "idle" =>
         answer'[q] = None /\ \A i \in DOMAIN mailbox' : mailbox'[i] # q
  <2>1. handler[r] # "idle"
    BY <1>2 DEF SenderInv
  <2> QED
    BY <1>1, <1>11, <1>12, <2>1 DEF SenderInv
<1> QED
  BY <1>9, <1>13, <1>14 DEF SenderInv

\* A timer flushes the batch, or finds none.
LEMMA TimerKeepsSenders ==
  ASSUME ActixInv, SenderInv, NEW r \in Requests, TimerFires(r)
  PROVE  SenderInv'
<1>1. mailbox' = mailbox /\ handler' = handler
  BY DEF TimerFires
<1>2. CASE batch = << >>
  <2>1. UNCHANGED <<result_txs, answer, worker_mailbox>>
    BY <1>2 DEF TimerFires, workerState
  <2> QED
    BY <1>1, <2>1 DEF SenderInv, NoTwice, SentOnce, SentIn, Collected, Sent
<1>3. CASE batch # << >>
  <2>1. /\ Dispatch(batch, batch) /\ batch = result_txs /\ batch \in Seq(Requests)
        /\ answer' = [q \in Requests |-> IF q \in Lost(batch) THEN Dropped ELSE answer[q]]
    BY <1>3 DEF TimerFires, ActixInv, SideBySide, TypeOK
  <2>2. /\ NoTwice(batch) /\ SentOnce(worker_mailbox)
        /\ \A i \in DOMAIN batch : ~Sent(batch[i])
        /\ \A q \in Requests :
             answer[q] = Open <=> (\E i \in DOMAIN batch : batch[i] = q) \/ Sent(q)
    <3>1. \A q \in Requests : Collected(q) <=> \E i \in DOMAIN batch : batch[i] = q
      BY <2>1 DEF Collected
    <3>2. \A i \in DOMAIN batch : batch[i] \in Requests
      BY <2>1
    <3> QED
      BY <2>1, <3>1, <3>2 DEF SenderInv
  <2>3. /\ NoTwice(result_txs)' /\ SentOnce(worker_mailbox)'
        /\ \A q \in Requests :
             /\ ~(Collected(q)' /\ Sent(q)')
             /\ answer'[q] = Open <=> Collected(q)' \/ Sent(q)'
    BY <2>1, <2>2, DispatchKeepsSenders
  <2>4. \A q \in Requests : answer[q] = None => answer'[q] = None
    <3>1. \A q \in Requests : q \in Lost(batch) => answer[q] = Open
      BY <2>2 DEF Lost, Range
    <3> QED
      BY <2>1, <3>1, AnswerTags
  <2>5. mailbox \in Seq(Requests)
    BY DEF ActixInv, TypeOK
  <2>6. \A i \in DOMAIN mailbox : mailbox[i] \in Requests
    BY <2>5
  <2> QED
    BY <1>1, <2>3, <2>4, <2>6 DEF SenderInv, NoTwice
<1> QED
  BY <1>2, <1>3

\* Every sender of the message gets something, and nobody else does.
LEMMA SlicesGoToSenders ==
  ASSUME NEW msg \in Message, NEW n \in Int, NEW rest \in {Empty, Dropped},
         NEW r \in Requests
  PROVE  IF SentIn(msg, r) THEN SendSlices(msg, n, rest)[r] # Open
                           ELSE SendSlices(msg, n, rest)[r] = answer[r]
<1>1. CASE SentIn(msg, r)
  <2> DEFINE i == CHOOSE i \in DOMAIN msg.result_txs : msg.result_txs[i] = r
  <2>1. SendSlices(msg, n, rest)[r] = IF i <= n THEN Logits(Slice(msg, i)) ELSE rest
    BY <1>1 DEF SendSlices, SentIn
  <2> HIDE DEF i
  <2> QED
    BY <1>1, <2>1, AnswerTags
<1>2. CASE ~SentIn(msg, r)
  BY <1>2 DEF SendSlices, SentIn
<1> QED
  BY <1>1, <1>2

\* The worker answers all senders of one message, or those of every message.
LEMMA WorkerKeepsSenders ==
  ASSUME ActixInv, SenderInv, Works
  PROVE  SenderInv'
<1>1. /\ UNCHANGED <<handler, mailbox, result_txs>> /\ worker_mailbox # << >>
  BY DEF Works, Infers, InferFails, OutputTooShort, batcherState
<1> DEFINE msg == Head(worker_mailbox)
           Settled(r) == /\ Sent(r)' => Sent(r) /\ answer'[r] = answer[r]
                         /\ Sent(r) /\ ~Sent(r)' => answer'[r] # Open
                         /\ ~Sent(r) => answer'[r] = answer[r]
<1>2. /\ worker_mailbox \in Seq(Message) /\ msg \in Message
      /\ 1 \in DOMAIN worker_mailbox /\ worker_mailbox[1] = msg
      /\ DOMAIN worker_mailbox = 1 .. Len(worker_mailbox)
      /\ Len(worker_mailbox) \in Nat
  <2>1. worker_mailbox \in Seq(Message)
    BY DEF ActixInv, TypeOK, Message
  <2> HIDE DEF Message
  <2> QED
    BY <1>1, <2>1
<1> HIDE DEF msg, Message
<1>3. ASSUME Infers \/ InferFails
      PROVE  SentOnce(worker_mailbox)' /\ \A r \in Requests : Settled(r)
  <2>0. worker_mailbox' = Tail(worker_mailbox)
    BY <1>3 DEF Infers, InferFails
  <2>1. /\ \A k \in DOMAIN worker_mailbox' : k \in Nat \ {0}
             /\ k + 1 \in DOMAIN worker_mailbox /\ worker_mailbox'[k] = worker_mailbox[k + 1]
        /\ \A k \in DOMAIN worker_mailbox : k # 1 =>
             k - 1 \in DOMAIN worker_mailbox' /\ worker_mailbox'[k - 1] = worker_mailbox[k]
    BY <1>1, <1>2, <2>0
  <2>2. SentOnce(worker_mailbox)'
    <3>1. \A k \in DOMAIN worker_mailbox' : NoTwice(worker_mailbox'[k].result_txs)
      BY <2>1 DEF SenderInv, SentOnce
    <3>2. ASSUME NEW k \in DOMAIN worker_mailbox', NEW l \in DOMAIN worker_mailbox',
                 NEW r \in Requests,
                 SentIn(worker_mailbox'[k], r), SentIn(worker_mailbox'[l], r)
          PROVE  k = l
      <4>1. k + 1 = l + 1
        BY <2>1, <3>2 DEF SenderInv, SentOnce
      <4> QED
        BY <2>1, <4>1
    <3> QED
      BY <3>1, <3>2 DEF SentOnce, SentIn, NoTwice
  <2>3. \A r \in Requests : /\ Sent(r)' => Sent(r) /\ ~SentIn(msg, r)
                            /\ Sent(r) /\ ~Sent(r)' => SentIn(msg, r)
    <3>1. ASSUME NEW r \in Requests, NEW k \in DOMAIN worker_mailbox',
                 SentIn(worker_mailbox'[k], r)
          PROVE  Sent(r) /\ ~SentIn(msg, r)
      <4>1. k + 1 \in DOMAIN worker_mailbox /\ SentIn(worker_mailbox[k + 1], r) /\ k + 1 # 1
        BY <2>1, <3>1
      <4> QED
        BY <1>2, <4>1 DEF Sent, SenderInv, SentOnce
    <3>2. ASSUME NEW r \in Requests, NEW k \in DOMAIN worker_mailbox,
                 SentIn(worker_mailbox[k], r), ~SentIn(msg, r)
          PROVE  \E l \in DOMAIN worker_mailbox' : SentIn(worker_mailbox'[l], r)
      BY <1>2, <2>1, <3>2
    <3>3. \A r \in Requests :
            Sent(r)' <=> \E l \in DOMAIN worker_mailbox' : SentIn(worker_mailbox'[l], r)
      BY DEF Sent, SentIn
    <3> QED
      BY <3>1, <3>2, <3>3 DEF Sent
  <2>4. \A r \in Requests : IF SentIn(msg, r) THEN answer'[r] # Open
                                              ELSE answer'[r] = answer[r]
    <3>1. PICK n \in Int : answer' = SendSlices(msg, n, Empty)
      <4>1. CASE Infers
        <5>1. Len(msg.result_txs) \in Int
          BY <1>2 DEF Message
        <5> QED
          BY <4>1, <5>1 DEF Infers, msg
      <4>2. CASE InferFails
        BY <4>2 DEF InferFails, FailureAnswer, msg
      <4> QED
        BY <1>3, <4>1, <4>2
    <3> QED
      BY <1>2, <3>1, SlicesGoToSenders
  <2>5. \A r \in Requests : SentIn(msg, r) => Sent(r)
    BY <1>2 DEF Sent
  <2> QED
    BY <2>2, <2>3, <2>4, <2>5 DEF Settled
<1>4. ASSUME \E n \in 0 .. MaxBatch - 1 : OutputTooShort(n)
      PROVE  SentOnce(worker_mailbox)' /\ \A r \in Requests : Settled(r)
  <2> DEFINE behind == UNION {Range(worker_mailbox[k].result_txs) :
                                k \in 2 .. Len(worker_mailbox)}
  <2>1. PICK n \in 0 .. MaxBatch - 1 : OutputTooShort(n)
    BY <1>4
  <2>2. /\ worker_mailbox' = << >>
        /\ answer' = [r \in Requests |-> IF r \in behind THEN Dropped
                                         ELSE SendSlices(msg, n, Dropped)[r]]
    BY <2>1 DEF OutputTooShort, msg
  <2>3. \A r \in Requests : r \in behind <=>
          \E k \in 2 .. Len(worker_mailbox) : SentIn(worker_mailbox[k], r)
    BY DEF Range, SentIn
  <2>4. \A r \in Requests : Sent(r) <=> SentIn(msg, r) \/ r \in behind
    <3>1. DOMAIN worker_mailbox = {1} \cup (2 .. Len(worker_mailbox))
      BY <1>2
    <3> HIDE DEF behind
    <3> QED
      BY <1>2, <2>3, <3>1 DEF Sent
  <2>5. n \in Int
    BY ActixAssumption
  <2> HIDE DEF behind
  <2>6. \A r \in Requests : IF Sent(r) THEN answer'[r] # Open
                                       ELSE answer'[r] = answer[r]
    BY <1>2, <2>2, <2>4, <2>5, SlicesGoToSenders, AnswerTags
  <2>7. SentOnce(worker_mailbox)' /\ \A r \in Requests : ~Sent(r)'
    BY <2>2 DEF SentOnce, Sent
  <2> QED
    BY <2>6, <2>7 DEF Settled
<1>5. SentOnce(worker_mailbox)' /\ \A r \in Requests : Settled(r)
  BY <1>3, <1>4 DEF Works
<1> HIDE DEF Settled
<1>6. \A r \in Requests : Collected(r)' <=> Collected(r)
  BY <1>1 DEF Collected
<1>7. \A r \in Requests : /\ ~(Collected(r)' /\ Sent(r)')
                          /\ answer'[r] = Open <=> Collected(r)' \/ Sent(r)'
  BY <1>5, <1>6 DEF Settled, SenderInv
<1>8. \A r \in Requests : answer[r] = None => answer'[r] = None
  BY <1>5, AnswerTags DEF Settled, SenderInv
<1>9. \A i \in DOMAIN mailbox : mailbox[i] \in Requests
  BY DEF ActixInv, TypeOK
<1> QED
  BY <1>1, <1>5, <1>7, <1>8, <1>9 DEF SenderInv, NoTwice

\* Every step leaves the sender of an open request in one place.
LEMMA SendersStep == ActixInv /\ SenderInv /\ [Next]_vars => SenderInv'
<1> SUFFICES ASSUME ActixInv, SenderInv, [Next]_vars PROVE SenderInv'
  OBVIOUS
<1>1. ASSUME NEW r \in Requests,
             Submit(r) \/ PreprocessPanics(r) \/ Answered(r) \/ Disconnect(r)
      PROVE  SenderInv'
  BY <1>1, HandlersKeepSenders
<1>2. ASSUME NEW r \in Requests, TimerFires(r) PROVE SenderInv'
  BY <1>2, TimerKeepsSenders
<1>3. CASE Handle
  BY <1>3, HandleKeepsSenders
<1>4. CASE SkipAbandoned
  <2>1. /\ mailbox' = Tail(mailbox) /\ mailbox # << >> /\ mailbox \in Seq(Requests)
        /\ UNCHANGED <<handler, answer, result_txs, worker_mailbox>>
    BY <1>4 DEF SkipAbandoned, batcherState, workerState, ActixInv, TypeOK
  <2>2. \A i \in DOMAIN mailbox' :
          i \in Nat /\ i + 1 \in DOMAIN mailbox /\ mailbox'[i] = mailbox[i + 1]
    BY <2>1
  <2> QED
    BY <2>1, <2>2 DEF SenderInv, NoTwice, SentOnce, SentIn, Collected, Sent
<1>5. CASE Works
  BY <1>5, WorkerKeepsSenders
<1>6. CASE UNCHANGED vars
  BY <1>6 DEF vars, batcherState, workerState, SenderInv, NoTwice, SentOnce, SentIn,
              Collected, Sent
<1> QED
  BY <1>1, <1>2, <1>3, <1>4, <1>5, <1>6 DEF Next

\* Whatever flushes and whatever fails, the sender of an unanswered request is in
\* exactly one place, and that of an answered one in none.
THEOREM OneSenderEachHolds == Spec => []OneSenderEach
<1>1. ActixInv /\ SenderInv => OneSenderEach
  <2> SUFFICES ASSUME ActixInv, SenderInv, NEW r \in Requests
               PROVE  Cardinality(Places(r)) = IF answer[r] = Open THEN 1 ELSE 0
    BY DEF OneSenderEach
  <2>1. Places(r) =
          {<< 0, i >> : i \in {j \in DOMAIN result_txs : result_txs[j] = r}}
            \cup UNION {{<< k, i >> : i \in {j \in DOMAIN worker_mailbox[k].result_txs :
                                            worker_mailbox[k].result_txs[j] = r}} :
                          k \in DOMAIN worker_mailbox}
    BY DEF Places
  <2>2. CASE Collected(r)
    <3>1. PICK i \in DOMAIN result_txs : result_txs[i] = r
      BY <2>2 DEF Collected
    <3>2. /\ \A j \in DOMAIN result_txs : result_txs[j] = r => j = i
          /\ \A k \in DOMAIN worker_mailbox :
               \A j \in DOMAIN worker_mailbox[k].result_txs :
                 worker_mailbox[k].result_txs[j] # r
      BY <2>2, <3>1 DEF SenderInv, NoTwice, Sent, SentIn
    <3>3. Places(r) = {<< 0, i >>}
      BY <2>1, <3>1, <3>2
    <3>4. answer[r] = Open
      BY <2>2 DEF SenderInv
    <3> QED
      BY <3>3, <3>4, FS_Singleton
  <2>3. CASE Sent(r)
    <3>1. PICK k \in DOMAIN worker_mailbox : SentIn(worker_mailbox[k], r)
      BY <2>3 DEF Sent
    <3>2. PICK i \in DOMAIN worker_mailbox[k].result_txs :
            worker_mailbox[k].result_txs[i] = r
      BY <3>1 DEF SentIn
    <3>3. \A j \in DOMAIN result_txs : result_txs[j] # r
      BY <2>3 DEF SenderInv, Collected
    <3>4. \A l \in DOMAIN worker_mailbox :
            \A j \in DOMAIN worker_mailbox[l].result_txs :
              worker_mailbox[l].result_txs[j] = r => l = k /\ j = i
      BY <3>1, <3>2 DEF SenderInv, SentOnce, SentIn, NoTwice
    <3>5. Places(r) = {<< k, i >>}
      BY <2>1, <3>2, <3>3, <3>4
    <3>6. answer[r] = Open
      BY <2>3 DEF SenderInv
    <3> QED
      BY <3>5, <3>6, FS_Singleton
  <2>4. CASE ~Collected(r) /\ ~Sent(r)
    <3>1. Places(r) = {}
      BY <2>1, <2>4 DEF Collected, Sent, SentIn
    <3>2. answer[r] # Open
      BY <2>4 DEF SenderInv
    <3> QED
      BY <3>1, <3>2, FS_EmptySet
  <2> QED
    BY <2>2, <2>3, <2>4
<1> QED
  BY <1>1, ActixInvariance, SendersInitially, SendersStep, PTL DEF Spec
=============================================================================
