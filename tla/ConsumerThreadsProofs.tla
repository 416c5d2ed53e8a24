------------------------ MODULE ConsumerThreadsProofs ------------------------
(***************************************************************************)
(* Safety of the two brokers for any number of threads and requests: types,*)
(* what the flag tells, and that no request is handled twice or forgotten. *)
(***************************************************************************)
EXTENDS ConsumerThreads, FiniteSetTheorems, SequenceTheorems, TLAPS

(* Threads that were made and have not begun.                                *)
Waiting == {t \in Threads : tpc[t] = "started"}

(* A thread registers one consumer, when it begins.                          *)
ConsumersOfBegun == consumers + Cardinality(Waiting) <= consumer_thread

ThreadsInv == ThreadsTypeOK /\ ConsumersOfBegun

States == {"none", "started", "loop", "get", "handle", "returned", "raised", "ended"}

LEMMA WaitingIsFinite == IsFiniteSet(Waiting) /\ Cardinality(Waiting) \in Nat
  <1>1. IsFiniteSet(Threads)
    BY FS_Interval, ThreadsAssumption DEF Threads
  <1>2. IsFiniteSet(Waiting)
    BY <1>1, FS_Subset DEF Waiting
  <1> QED
    BY <1>2, FS_CardinalityType

LEMMA ThreadsInit == Init => ThreadsInv
  <1> SUFFICES ASSUME Init PROVE ThreadsInv
    OBVIOUS
  <1>1. ThreadsTypeOK
    <2>1. /\ kind \in Kinds /\ consumer_thread = 0 /\ published = 0 /\ consumers = 0
          /\ stops = 0 /\ source = << >> /\ sent = << >> /\ responses = << >> /\ lost = {}
          /\ is_consuming = FALSE /\ open = TRUE /\ cpc = "idle"
          /\ tpc = [t \in Threads |-> "none"] /\ held = [t \in Threads |-> 0]
      BY DEF Init
    <2>2. \A t \in Threads : ~(t <= 0)
      BY ThreadsAssumption DEF Threads
    <2>3. source \in Seq(Requests) /\ sent \in Seq(Requests) /\ responses \in Seq(Requests)
      BY <2>1
    <2>4. published \in 0 .. MaxRequests /\ consumers \in 0 .. MaxStarts /\ stops \in 0 .. MaxStops
      BY <2>1, ThreadsAssumption
    <2> QED
      BY <2>1, <2>2, <2>3, <2>4 DEF ThreadsTypeOK
  <1>2. Waiting = {}
    BY DEF Init, Waiting
  <1>3. ConsumersOfBegun
    BY <1>2, FS_EmptySet DEF Init, ConsumersOfBegun
  <1> QED
    BY <1>1, <1>3 DEF ThreadsInv

-----------------------------------------------------------------------------
(* The steps of the caller and of the broker.                                *)

LEMMA StartStep ==
  ASSUME ThreadsInv, start_consuming
  PROVE  ThreadsInv'
  <1> DEFINE n == consumer_thread + 1
  <1>1. /\ n \in Threads /\ n # 0 /\ consumer_thread' = n
        /\ tpc[n] = "none"
        /\ tpc' = [tpc EXCEPT ![n] = "started"]
        /\ UNCHANGED <<kind, is_consuming, source, sent, held, responses, lost, consumers,
                       published, open, cpc, stops>>
    BY ThreadsAssumption
    DEF ThreadsInv, ThreadsTypeOK, start_consuming, MakeThread, Threads
  <1>2. \A t \in Threads : (t <= n <=> t <= consumer_thread \/ t = n)
    BY <1>1 DEF ThreadsInv, ThreadsTypeOK, Threads
  <1>3. ThreadsTypeOK'
    BY <1>1, <1>2 DEF ThreadsInv, ThreadsTypeOK
  <1>4. Waiting' = Waiting \cup {n} /\ n \notin Waiting
    BY <1>1 DEF Waiting, ThreadsInv, ThreadsTypeOK
  <1>5. Cardinality(Waiting') = Cardinality(Waiting) + 1
    BY <1>4, WaitingIsFinite, FS_AddElement
  <1>6. ConsumersOfBegun'
    BY <1>1, <1>5, WaitingIsFinite, ThreadsAssumption
    DEF ThreadsInv, ThreadsTypeOK, ConsumersOfBegun, Threads
  <1> QED
    BY <1>3, <1>6 DEF ThreadsInv

(* A step that makes no thread and registers no consumer.                    *)
LEMMA NoMore ==
  ASSUME ThreadsInv, consumers' \in {consumers, 0}, Waiting' = Waiting,
         consumer_thread' = consumer_thread
  PROVE  ConsumersOfBegun'
  BY WaitingIsFinite, ThreadsAssumption DEF ThreadsInv, ThreadsTypeOK, ConsumersOfBegun, Threads

(* A step of the caller or of RabbitMQ that is not the making of a thread.   *)
Outside == \/ Stop \/ Joined \/ Close \/ publish_request
           \/ Send \/ Cancel \/ LoseConnection

LEMMA CallerStep ==
  ASSUME ThreadsInv, Outside
  PROVE  ThreadsInv'
  <1> USE DEF Outside
  <1>0. ThreadsTypeOK
    BY DEF ThreadsInv
  <1>1. /\ UNCHANGED <<kind, tpc, held, responses, consumer_thread>>
        /\ consumers' \in {consumers, 0}
        /\ kind = "mock" => open' = open /\ consumers' = consumers /\ sent' = sent
    BY <1>0
    DEF Stop, Stops, stop_consuming, Joined, Close, Disconnect, DropConsumers, publish_request,
        Send, Cancel, LoseConnection, threadVars, callerVars, ThreadsTypeOK
  <1>2. /\ is_consuming' \in BOOLEAN /\ open' \in BOOLEAN /\ cpc' \in {"idle", "joining"}
        /\ ~open' => sent' = << >>
    BY <1>0
    DEF Stop, Stops, stop_consuming, Joined, Close, Disconnect, DropConsumers, publish_request,
        Send, Cancel, LoseConnection, threadVars, callerVars, ThreadsTypeOK
  <1>3. stops' \in 0 .. MaxStops
    <2>1. stops' = stops \/ (stops < MaxStops /\ stops' = stops + 1)
      BY DEF Stop, Stops, Joined, Close, publish_request, Send, Cancel, LoseConnection, callerVars
    <2> QED
      BY <1>0, <2>1, ThreadsAssumption DEF ThreadsTypeOK
  <1>4. /\ published' \in 0 .. MaxRequests /\ source' \in Seq(Requests)
        /\ sent' \in Seq(Requests) /\ lost' \subseteq Requests
    <2>1. CASE publish_request
      <3>1. published + 1 \in Requests /\ published' = published + 1
        BY <1>0, <2>1, ThreadsAssumption DEF publish_request, ThreadsTypeOK, Requests
      <3> QED
        BY <1>0, <2>1, <3>1 DEF publish_request, threadVars, ThreadsTypeOK, Requests
    <2>2. CASE Send
      <3>1. Head(source) \in Requests /\ Tail(source) \in Seq(Requests)
        BY <1>0, <2>2 DEF Send, ThreadsTypeOK
      <3> QED
        BY <1>0, <2>2, <3>1 DEF Send, threadVars, callerVars, ThreadsTypeOK
    <2>3. CASE Stop \/ Joined \/ Close \/ Cancel \/ LoseConnection
      <3>1. \A i \in DOMAIN sent : sent[i] \in Requests
        BY <1>0 DEF ThreadsTypeOK
      <3>2. /\ published' = published /\ source' = source
            /\ sent' = sent \/ sent' = << >>
            /\ lost' = lost \/ lost' = lost \cup {sent[i] : i \in DOMAIN sent}
        BY <2>3
        DEF Stop, Stops, stop_consuming, Joined, Close, Disconnect, DropConsumers, Cancel,
            LoseConnection, threadVars, callerVars
      <3>3. sent' \in Seq(Requests)
        <4>1. sent \in Seq(Requests) /\ << >> \in Seq(Requests)
          BY <1>0 DEF ThreadsTypeOK
        <4> QED
          BY <3>2, <4>1
      <3>4. lost' \subseteq Requests
        BY <1>0, <3>1, <3>2 DEF ThreadsTypeOK
      <3> QED
        BY <1>0, <3>2, <3>3, <3>4 DEF ThreadsTypeOK
    <2> QED
      BY <2>1, <2>2, <2>3
  <1>5. consumers' \in 0 .. MaxStarts
    BY <1>0, <1>1, ThreadsAssumption DEF ThreadsTypeOK
  <1>6. ThreadsTypeOK'
    BY <1>0, <1>1, <1>2, <1>3, <1>4, <1>5 DEF ThreadsTypeOK
  <1>7. Waiting' = Waiting
    BY <1>1 DEF Waiting
  <1> QED
    BY <1>1, <1>6, <1>7, NoMore DEF ThreadsInv

-----------------------------------------------------------------------------
(* The steps of a thread.                                                    *)

LEMMA BeginStep ==
  ASSUME ThreadsInv, NEW t \in Threads, Begin(t)
  PROVE  ThreadsInv'
  <1>1. /\ tpc[t] = "started"
        /\ UNCHANGED <<kind, source, sent, held, responses, lost, callerVars>>
    BY DEF Begin
  <1>2. PICK to \in {"loop", "get", "raised"} : tpc' = [tpc EXCEPT ![t] = to]
    BY DEF Begin, BeginMock, BeginRabbit, Raises, Goes
  <1>3. /\ is_consuming' \in BOOLEAN
        /\ consumers' = consumers \/ (kind = "rabbit" /\ consumers' = consumers + 1)
    BY DEF Begin, BeginMock, BeginRabbit, Raises, Goes, ThreadsInv, ThreadsTypeOK
  <1>4. Waiting' = Waiting \ {t} /\ t \in Waiting
    BY <1>1, <1>2 DEF Waiting, ThreadsInv, ThreadsTypeOK
  <1>5. Cardinality(Waiting') = Cardinality(Waiting) - 1 /\ Cardinality(Waiting') \in Nat
    <2>1. IsFiniteSet(Waiting \ {t})
      BY WaitingIsFinite, FS_RemoveElement
    <2> QED
      BY <1>4, <2>1, WaitingIsFinite, FS_RemoveElement, FS_CardinalityType
  <1>6. ConsumersOfBegun'
    BY <1>1, <1>3, <1>5, WaitingIsFinite, ThreadsAssumption
    DEF ThreadsInv, ThreadsTypeOK, ConsumersOfBegun, Threads, callerVars
  <1>7. consumers' \in 0 .. MaxStarts
    BY <1>1, <1>3, <1>5, <1>6, ThreadsAssumption
    DEF ThreadsInv, ThreadsTypeOK, ConsumersOfBegun, Threads, callerVars
  <1>8. ThreadsTypeOK'
    BY <1>1, <1>2, <1>3, <1>7 DEF ThreadsInv, ThreadsTypeOK, callerVars
  <1> QED
    BY <1>6, <1>8 DEF ThreadsInv

(* A thread that has begun goes on, with no more consumers than there were.  *)
LEMMA GoesOn ==
  ASSUME ThreadsInv, NEW t \in Threads, tpc[t] \notin {"none", "started"},
         NEW to \in States \ {"none", "started", "handle"}, Goes(t, to),
         held' = [held EXCEPT ![t] = 0] \/ (held' = held /\ tpc[t] # "handle"),
         is_consuming' \in BOOLEAN, UNCHANGED <<kind, source, sent, consumers, callerVars>>,
         responses' \in Seq(Requests), lost' \subseteq Requests
  PROVE  ThreadsInv'
  <1>1. tpc' = [tpc EXCEPT ![t] = to]
    BY DEF Goes
  <1>2. Waiting' = Waiting
    BY <1>1 DEF Waiting, ThreadsInv, ThreadsTypeOK
  <1>3. held' \in [Threads -> {0} \cup Requests]
    BY DEF ThreadsInv, ThreadsTypeOK
  <1>4. \A u \in Threads : held'[u] # 0 <=> tpc'[u] = "handle"
    BY <1>1 DEF ThreadsInv, ThreadsTypeOK, States
  <1>5. \A u \in Threads : tpc'[u] # "none" <=> u <= consumer_thread'
    BY <1>1 DEF ThreadsInv, ThreadsTypeOK, callerVars, States
  <1>6. ThreadsTypeOK'
    BY <1>1, <1>3, <1>4, <1>5 DEF ThreadsInv, ThreadsTypeOK, callerVars, States
  <1> QED
    BY <1>2, <1>6, NoMore DEF ThreadsInv, callerVars

LEMMA TestStep ==
  ASSUME ThreadsInv, NEW t \in Threads, Test(t) \/ Empty(t)
  PROVE  ThreadsInv'
  <1>1. PICK to \in {"get", "ended", "loop"} : Goes(t, to)
    BY DEF Test, Empty
  <1>2. to \in States \ {"none", "started", "handle"}
    BY DEF States
  <1>3. /\ tpc[t] \notin {"none", "started", "handle"} /\ held' = held
        /\ UNCHANGED <<kind, source, sent, consumers, callerVars>>
        /\ is_consuming' = is_consuming /\ responses' = responses /\ lost' = lost
    BY DEF Test, Empty
  <1> QED
    BY <1>1, <1>2, <1>3, GoesOn DEF ThreadsInv, ThreadsTypeOK

LEMMA ReturnStep ==
  ASSUME ThreadsInv, NEW t \in Threads, Return(t) \/ Finally(t)
  PROVE  ThreadsInv'
  <1>1. PICK to \in {"returned", "raised", "ended"} : Goes(t, to)
    BY DEF Return, Finally, Raises
  <1>2. to \in States \ {"none", "started", "handle"}
    BY DEF States
  <1>3. /\ tpc[t] \notin {"none", "started", "handle"} /\ held' = held
        /\ UNCHANGED <<kind, source, sent, consumers, callerVars>>
        /\ is_consuming' \in BOOLEAN /\ responses' = responses /\ lost' = lost
    BY DEF Return, Finally, Raises, ThreadsInv, ThreadsTypeOK
  <1> QED
    BY <1>1, <1>2, <1>3, GoesOn DEF ThreadsInv, ThreadsTypeOK

LEMMA HandleStep ==
  ASSUME ThreadsInv, NEW t \in Threads, on_request(t)
  PROVE  ThreadsInv'
  <1>1. PICK to \in {"get", "loop", "raised"} : Goes(t, to)
    BY DEF on_request, Raises
  <1>2. to \in States \ {"none", "started", "handle"}
    BY DEF States
  <1>3. tpc[t] = "handle" /\ held[t] \in Requests
    BY DEF on_request, ThreadsInv, ThreadsTypeOK
  <1>4. responses' \in Seq(Requests) /\ lost' \subseteq Requests
    <2>1. responses \in Seq(Requests) /\ lost \subseteq Requests
      BY DEF ThreadsInv, ThreadsTypeOK
    <2>2. \/ responses' = Append(responses, held[t]) /\ lost' = lost
          \/ responses' = responses /\ lost' = lost \cup {held[t]}
      BY DEF on_request
    <2> QED
      BY <1>3, <2>1, <2>2
  <1>5. /\ held' = [held EXCEPT ![t] = 0] /\ is_consuming' \in BOOLEAN
        /\ UNCHANGED <<kind, source, sent, consumers, callerVars>>
    BY DEF on_request, Raises, ThreadsInv, ThreadsTypeOK
  <1> QED
    BY <1>1, <1>2, <1>3, <1>4, <1>5, GoesOn

LEMMA GetStep ==
  ASSUME ThreadsInv, NEW t \in Threads, Get(t)
  PROVE  ThreadsInv'
  <1>0. ThreadsTypeOK
    BY DEF ThreadsInv
  <1>1. PICK line \in {source, sent} :
          /\ line # << >> /\ held' = [held EXCEPT ![t] = Head(line)]
          /\ \/ kind = "mock" /\ source' = Tail(line) /\ sent' = sent
             \/ kind = "rabbit" /\ sent' = Tail(line) /\ source' = source /\ open' = open
                /\ sent # << >>
    BY DEF Get, GetRequest, callerVars
  <1>2. /\ tpc[t] = "get"
        /\ tpc' = [tpc EXCEPT ![t] = "handle"]
        /\ UNCHANGED <<kind, is_consuming, responses, lost, consumers, callerVars>>
    BY DEF Get, Goes
  <1>3. Head(line) \in Requests /\ Head(line) # 0 /\ Tail(line) \in Seq(Requests)
    <2>1. line \in Seq(Requests)
      BY <1>0 DEF ThreadsTypeOK
    <2>2. Head(line) \in Requests /\ Tail(line) \in Seq(Requests)
      BY <1>1, <2>1
    <2>3. \A r \in Requests : r # 0
      BY ThreadsAssumption DEF Requests
    <2> QED
      BY <2>2, <2>3
  <1>4. ThreadsTypeOK'
    BY <1>0, <1>1, <1>2, <1>3 DEF ThreadsTypeOK, callerVars
  <1>5. Waiting' = Waiting
    BY <1>0, <1>2 DEF Waiting, ThreadsTypeOK
  <1> QED
    BY <1>2, <1>4, <1>5, NoMore DEF ThreadsInv, callerVars

LEMMA ThreadsStep == ThreadsInv /\ [Next]_allVars => ThreadsInv'
  <1> SUFFICES ASSUME ThreadsInv, [Next]_allVars PROVE ThreadsInv'
    OBVIOUS
  <1>1. CASE start_consuming
    BY <1>1, StartStep
  <1>2. CASE Outside
    BY <1>2, CallerStep
  <1>3. CASE \E t \in Threads : Thread(t)
    BY <1>3, BeginStep, TestStep, ReturnStep, HandleStep, GetStep DEF Thread
  <1>4. CASE UNCHANGED allVars
    BY <1>4 DEF allVars, threadVars, callerVars, ThreadsInv, ThreadsTypeOK,
                ConsumersOfBegun, Waiting
  <1> QED
    BY <1>1, <1>2, <1>3, <1>4 DEF Next, Outside

LEMMA ThreadsInvariance == Spec => []ThreadsInv
  BY ThreadsInit, ThreadsStep, PTL DEF Spec

(* Types: a thread handles a request exactly while it holds one, and a       *)
(* channel never has more consumers than threads were made, whoever starts,  *)
(* stops and closes when (rabbitmq_broker.py:40-58, mock_broker.py:38-58).   *)
THEOREM ThreadsTyped == Spec => []ThreadsTypeOK
  <1>1. ThreadsInv => ThreadsTypeOK
    BY DEF ThreadsInv
  <1> QED
    BY <1>1, ThreadsInvariance, PTL

-----------------------------------------------------------------------------
(* What the flag tells.                                                      *)

LEMMA FlagOfMock ==
  ASSUME ThreadsInv, FlagTellsOfThread, [Next]_allVars, kind = "mock", is_consuming'
  PROVE  \E t \in Threads : Began(t)' \/ tpc'[t] = "raised"
  <1> USE DEF Began
  <1>1. tpc \in [Threads -> States]
    BY DEF ThreadsInv, ThreadsTypeOK, States
  <1>2. CASE is_consuming
    <2>1. PICK t \in Threads : Began(t) \/ tpc[t] = "raised"
      BY <1>2 DEF FlagTellsOfThread
    <2>2. CASE start_consuming
      BY <1>2, <2>2 DEF start_consuming
    <2>3. CASE Outside
      BY <2>1, <2>3 DEF Outside, Stop, stop_consuming, Joined, Close, Disconnect, publish_request,
                        Send, Cancel, LoseConnection, threadVars
    <2>4. ASSUME NEW u \in Threads, Thread(u) PROVE tpc'[t] \in {"loop", "get", "handle", "raised", "returned"}
      <3>1. PICK to \in States \ {"none", "started"} :
              /\ tpc' = [tpc EXCEPT ![u] = to]
              /\ to = "ended" => ~is_consuming \/ ~is_consuming'
        BY <2>4 DEF Thread, Begin, BeginMock, BeginRabbit, Test, Get, Empty, Return, Finally,
                    on_request, Raises, Goes, States
      <3> QED
        BY <1>1, <1>2, <2>1, <3>1 DEF States
    <2>5. CASE UNCHANGED allVars
      BY <2>1, <2>5 DEF allVars, threadVars
    <2> QED
      BY <2>2, <2>3, <2>4, <2>5 DEF Next, Outside
  <1>3. CASE ~is_consuming
    <2>1. PICK u \in Threads : Thread(u)
      BY <1>3 DEF Next, start_consuming, Stop, stop_consuming, Joined, Close, Disconnect,
                  publish_request, Send, Cancel, LoseConnection, allVars
    <2>2. Begin(u) /\ BeginMock(u)
      BY <1>3, <2>1 DEF Thread, Begin, Test, Get, Empty, Return, on_request, Raises, Finally
    <2> QED
      BY <1>1, <2>2 DEF BeginMock, Goes
  <1> QED
    BY <1>2, <1>3

LEMMA FlagOfRabbit ==
  ASSUME ThreadsInv, FlagTellsOfThread, [Next]_allVars, kind = "rabbit", is_consuming'
  PROVE  /\ \E t \in Threads : tpc'[t] = "returned"
         /\ consumer_thread' = 1 => consumers' = 0
  <1>1. tpc \in [Threads -> States]
    BY DEF ThreadsInv, ThreadsTypeOK, States
  <1>2. CASE is_consuming
    <2>1. PICK t \in Threads : tpc[t] = "returned"
      BY <1>2 DEF FlagTellsOfThread
    <2>2. consumer_thread = 1 => consumers = 0
      BY <1>2 DEF FlagTellsOfThread
    <2>3. CASE start_consuming
      BY <1>2, <2>3 DEF start_consuming
    <2>4. CASE Outside
      BY <2>1, <2>2, <2>4
      DEF Outside, Stop, stop_consuming, Joined, Close, Disconnect, DropConsumers,
          publish_request, Send, Cancel, LoseConnection, threadVars, callerVars
    <2>5. ASSUME NEW u \in Threads, Thread(u)
          PROVE  tpc'[t] = "returned" /\ (consumer_thread' = 1 => consumers' = 0)
      <3>1. u # t
        BY <1>2, <2>1, <2>5 DEF Thread, Begin, Test, Get, Empty, Return, Finally, on_request
      <3>2. PICK to : tpc' = [tpc EXCEPT ![u] = to]
        BY <2>5 DEF Thread, Begin, BeginMock, BeginRabbit, Test, Get, Empty, Return, Finally,
                    on_request, Raises, Goes
      <3>3. consumer_thread' = consumer_thread
        BY <2>5 DEF Thread, Begin, Test, Get, Empty, Return, Finally, on_request, callerVars
      <3>4. CASE Begin(u)
        <4>1. consumer_thread # 1
          BY <2>1, <3>1, <3>4 DEF Begin, ThreadsInv, ThreadsTypeOK, Threads
        <4> QED
          BY <1>1, <2>1, <3>1, <3>2, <3>3, <4>1
      <3>5. CASE ~Begin(u)
        <4>1. consumers' = consumers
          BY <2>5, <3>5 DEF Thread, Test, Get, Empty, Return, Finally, on_request
        <4> QED
          BY <1>1, <2>1, <2>2, <3>1, <3>2, <3>3, <4>1
      <3> QED
        BY <3>4, <3>5
    <2>6. CASE UNCHANGED allVars
      BY <2>1, <2>2, <2>6 DEF allVars, threadVars, callerVars
    <2> QED
      BY <2>3, <2>4, <2>5, <2>6 DEF Next, Outside
  <1>3. CASE ~is_consuming
    <2>1. PICK u \in Threads : Thread(u)
      BY <1>3 DEF Next, start_consuming, Stop, stop_consuming, Joined, Close, Disconnect,
                  publish_request, Send, Cancel, LoseConnection, allVars
    <2>2. Return(u) /\ tpc' = [tpc EXCEPT ![u] = "returned"]
      BY <1>3, <2>1 DEF Thread, Begin, BeginRabbit, Test, Get, Empty, Return, on_request, Raises,
                        Finally, Goes
    <2> QED
      BY <1>1, <2>2 DEF Return
  <1> QED
    BY <1>2, <1>3

(* The flag of the mock says that a thread has begun and goes on, or that    *)
(* one has raised; the flag of the other says that a thread has stopped      *)
(* consuming, whatever the number of threads (mock_broker.py:40,             *)
(* rabbitmq_broker.py:48).                                                   *)
THEOREM FlagTells == Spec => []FlagTellsOfThread
  <1>1. Init => FlagTellsOfThread
    BY DEF Init, FlagTellsOfThread
  <1>2. ThreadsInv /\ FlagTellsOfThread /\ [Next]_allVars => FlagTellsOfThread'
    <2> SUFFICES ASSUME ThreadsInv, FlagTellsOfThread, [Next]_allVars, is_consuming'
                 PROVE  CASE kind' = "mock"   -> \E t \in Threads : Began(t)' \/ tpc'[t] = "raised"
                          [] kind' = "rabbit" ->
                               /\ \E t \in Threads : tpc'[t] = "returned"
                               /\ consumer_thread' = 1 => consumers' = 0
      BY DEF FlagTellsOfThread
    <2>1. kind' = kind
      BY DEF Next, start_consuming, Stop, stop_consuming, Joined, Close, Disconnect,
             publish_request, Send, Cancel, LoseConnection, Thread, Begin, Test, Get, Empty, Return, Finally, on_request, allVars
    <2>2. kind = "mock" \/ kind = "rabbit"
      BY ThreadsAssumption DEF ThreadsInv, ThreadsTypeOK
    <2>3. CASE kind = "mock"
      BY <2>1, <2>3, FlagOfMock
    <2>4. CASE kind = "rabbit"
      BY <2>1, <2>4, FlagOfRabbit
    <2> QED
      BY <2>2, <2>3, <2>4
  <1> QED
    BY <1>1, <1>2, ThreadsInvariance, PTL DEF Spec

-----------------------------------------------------------------------------
(* Where a request is.                                                       *)

Queued(r)   == \E i \in DOMAIN Unhandled : Unhandled[i] = r
Answered(r) == \E i \in DOMAIN responses : responses[i] = r
InHand(r)   == \E t \in Threads : held[t] = r

QueueAscends == \A i, j \in DOMAIN Unhandled : i < j => Unhandled[i] < Unhandled[j]
AnsweredOnce == \A i, j \in DOMAIN responses : responses[i] = responses[j] => i = j
HeldOnce     == \A t, u \in Threads : held[t] = held[u] /\ held[t] # 0 => t = u
Apart        == \A r \in Requests :
                  /\ Queued(r) => ~Answered(r) /\ ~InHand(r) /\ r \notin lost
                  /\ Answered(r) => ~InHand(r) /\ r \notin lost
                  /\ InHand(r) => r \notin lost
Published    == \A r \in Requests :
                  (Queued(r) \/ Answered(r) \/ InHand(r) \/ r \in lost) <=> r <= published

(* With one thread, what was answered was published before what it handles,  *)
(* and that before what waits.                                               *)
InTurn == consumer_thread <= 1 =>
            /\ \A i, j \in DOMAIN responses : i < j => responses[i] < responses[j]
            /\ \A i \in DOMAIN responses, j \in DOMAIN Unhandled : responses[i] < Unhandled[j]
            /\ \A t \in Threads : held[t] # 0 =>
                 /\ \A i \in DOMAIN responses : responses[i] < held[t]
                 /\ \A j \in DOMAIN Unhandled : held[t] < Unhandled[j]

PlacesInv == QueueAscends /\ AnsweredOnce /\ HeldOnce /\ Apart /\ Published /\ InTurn

LEMMA AppendElements ==
  ASSUME NEW S, NEW s \in Seq(S), NEW x \in S
  PROVE  /\ Len(s) \in Nat /\ DOMAIN s = 1 .. Len(s)
         /\ DOMAIN Append(s, x) = 1 .. Len(s) + 1
         /\ \A i \in DOMAIN s : Append(s, x)[i] = s[i]
         /\ Append(s, x)[Len(s) + 1] = x
  OBVIOUS

LEMMA TailElements ==
  ASSUME NEW S, NEW s \in Seq(S), s # << >>
  PROVE  /\ Len(s) \in Nat \ {0} /\ DOMAIN s = 1 .. Len(s)
         /\ DOMAIN Tail(s) = 1 .. Len(s) - 1
         /\ \A i \in DOMAIN Tail(s) : Tail(s)[i] = s[i + 1]
         /\ Head(s) = s[1]
  OBVIOUS

(* What waits in the buffer of the channel comes before what waits in the    *)
(* queue: only publishing adds to the line, only a thread takes from it, and *)
(* sending changes nothing in it.                                            *)
LEMMA LineMoves ==
  ASSUME NEW S, NEW s \in Seq(S), NEW q \in Seq(S)
  PROVE  /\ s \o q \in Seq(S) /\ << >> \o q = q
         /\ \A x \in S : s \o Append(q, x) = Append(s \o q, x)
         /\ q # << >> => Append(s, Head(q)) \o Tail(q) = s \o q
         /\ s # << >> => /\ s \o q # << >>
                         /\ Head(s \o q) = Head(s)
                         /\ Tail(s \o q) = Tail(s) \o q
  <1>1. s \o q \in Seq(S) /\ << >> \o q = q
    BY ConcatProperties, ConcatEmptySeq
  <1>2. ASSUME NEW x \in S PROVE s \o Append(q, x) = Append(s \o q, x)
    <2>1. <<x>> \in Seq(S)
      OBVIOUS
    <2> QED
      BY <1>1, <2>1, AppendIsConcat, ConcatAssociative
  <1>3. ASSUME NEW r \in Seq(S), r # << >>
        PROVE  /\ Head(r) \in S /\ Tail(r) \in Seq(S) /\ <<Head(r)>> \in Seq(S)
               /\ r = <<Head(r)>> \o Tail(r)
    <2>1. Head(r) \in S /\ Tail(r) \in Seq(S) /\ <<Head(r)>> \in Seq(S) /\ Len(r) \in Nat \ {0}
      BY <1>3
    <2>2. /\ Len(<<Head(r)>> \o Tail(r)) = Len(r) /\ <<Head(r)>> \o Tail(r) \in Seq(S)
          /\ \A i \in 1 .. Len(r) : (<<Head(r)>> \o Tail(r))[i] = r[i]
      BY <1>3, <2>1
    <2> QED
      BY <1>3, <2>1, <2>2, SeqEqual
  <1>4. ASSUME q # << >> PROVE Append(s, Head(q)) \o Tail(q) = s \o q
    BY <1>3, <1>4, AppendIsConcat, ConcatAssociative
  <1>5. ASSUME s # << >>
        PROVE  s \o q # << >> /\ Head(s \o q) = Head(s) /\ Tail(s \o q) = Tail(s) \o q
    <2>1. s \o q = <<Head(s)>> \o (Tail(s) \o q)
      BY <1>3, <1>5, ConcatAssociative
    <2>2. Head(s) \in S /\ Tail(s) \o q \in Seq(S)
      BY <1>3, <1>5, ConcatProperties
    <2>3. ASSUME NEW h \in S, NEW r \in Seq(S)
          PROVE  <<h>> \o r # << >> /\ Head(<<h>> \o r) = h /\ Tail(<<h>> \o r) = r
      <3>1. /\ Len(<<h>> \o r) = Len(r) + 1 /\ Len(r) \in Nat /\ <<h>> \o r \in Seq(S)
            /\ (<<h>> \o r)[1] = h
            /\ \A i \in 1 .. Len(r) : (<<h>> \o r)[i + 1] = r[i]
        BY <2>3
      <3>2. /\ <<h>> \o r # << >> /\ Head(<<h>> \o r) = h
            /\ Tail(<<h>> \o r) \in Seq(S) /\ Len(Tail(<<h>> \o r)) = Len(r)
            /\ \A i \in 1 .. Len(r) : Tail(<<h>> \o r)[i] = r[i]
        BY <3>1
      <3> QED
        BY <3>2, SeqEqual
    <2> QED
      BY <2>1, <2>2, <2>3
  <1> QED
    BY <1>1, <1>2, <1>4, <1>5

LEMMA InRequests ==
  ASSUME ThreadsTypeOK
  PROVE  /\ \A i \in DOMAIN Unhandled : Unhandled[i] \in Requests
         /\ \A i \in DOMAIN responses : responses[i] \in Requests
         /\ \A t \in Threads : held[t] \in {0} \cup Requests
         /\ DOMAIN Unhandled = 1 .. Len(Unhandled) /\ Len(Unhandled) \in Nat
         /\ DOMAIN responses = 1 .. Len(responses) /\ Len(responses) \in Nat
  <1>1. Unhandled \in Seq(Requests) /\ responses \in Seq(Requests)
        /\ held \in [Threads -> {0} \cup Requests]
    BY LineMoves DEF ThreadsTypeOK, Unhandled
  <1> HIDE DEF Unhandled
  <1> QED
    BY <1>1

LEMMA PlacesInit == Init => PlacesInv
  <1> SUFFICES ASSUME Init PROVE PlacesInv
    OBVIOUS
  <1>0. Unhandled = << >>
    BY LineMoves DEF Init, Unhandled
  <1>1. /\ DOMAIN Unhandled = {} /\ DOMAIN responses = {} /\ lost = {} /\ published = 0
        /\ \A t \in Threads : held[t] = 0
    BY <1>0 DEF Init
  <1>2. \A r \in Requests : r > 0
    BY ThreadsAssumption DEF Requests
  <1>3. \A r \in Requests : ~Queued(r) /\ ~Answered(r) /\ ~InHand(r) /\ r \notin lost /\ ~(r <= published)
    BY <1>1, <1>2 DEF Queued, Answered, InHand, Requests
  <1> QED
    BY <1>1, <1>3 DEF PlacesInv, QueueAscends, AnsweredOnce, HeldOnce, Apart, Published, InTurn

(* Making a second thread is the end of the order; nothing moves.            *)
LEMMA PlacesStill ==
  ASSUME ThreadsInv, PlacesInv, UNCHANGED <<Unhandled, responses, held, lost, published>>,
         consumer_thread' = consumer_thread \/ consumer_thread' = consumer_thread + 1
  PROVE  PlacesInv'
  <1>1. consumer_thread' <= 1 => consumer_thread <= 1
    BY ThreadsAssumption DEF ThreadsInv, ThreadsTypeOK, Threads
  <1> QED
    BY <1>1 DEF PlacesInv, QueueAscends, AnsweredOnce, HeldOnce, Apart, Published, InTurn,
                Queued, Answered, InHand

LEMMA PlacesPublish ==
  ASSUME ThreadsInv, PlacesInv, publish_request
  PROVE  PlacesInv'
  <1> DEFINE n == published + 1
  <1>0. /\ n \in Requests /\ published' = n /\ source' = Append(source, n) /\ sent' = sent
        /\ UNCHANGED <<responses, held, lost, consumer_thread>>
    BY ThreadsAssumption
    DEF publish_request, threadVars, ThreadsInv, ThreadsTypeOK, Requests
  <1>1. /\ n \in Requests /\ published' = n /\ Unhandled' = Append(Unhandled, n)
        /\ UNCHANGED <<responses, held, lost, consumer_thread>>
    BY <1>0, LineMoves DEF Unhandled, ThreadsInv, ThreadsTypeOK
  <1>2. published \in Nat /\ Requests \subseteq Nat /\ 0 \notin Requests
    BY ThreadsAssumption DEF ThreadsInv, ThreadsTypeOK, Requests
  <1>3. Unhandled \in Seq(Requests) /\ ThreadsTypeOK
    BY LineMoves DEF ThreadsInv, ThreadsTypeOK, Unhandled
  <1>4. /\ Len(Unhandled) \in Nat /\ DOMAIN Unhandled = 1 .. Len(Unhandled)
        /\ DOMAIN Unhandled' = 1 .. Len(Unhandled) + 1
        /\ \A i \in DOMAIN Unhandled : Unhandled'[i] = Unhandled[i]
        /\ Unhandled'[Len(Unhandled) + 1] = n
    BY <1>1, <1>3, AppendElements
  <1>5. \A r \in Requests : /\ Queued(r)' <=> Queued(r) \/ r = n
                            /\ Answered(r)' <=> Answered(r)
                            /\ InHand(r)' <=> InHand(r)
                            /\ Queued(r) \/ Answered(r) \/ InHand(r) \/ r \in lost => r < n
    BY <1>1, <1>2, <1>4 DEF Queued, Answered, InHand, PlacesInv, Published
  <1>6. Apart' /\ Published'
    BY <1>1, <1>2, <1>5 DEF PlacesInv, Apart, Published
  <1>7. /\ \A i \in DOMAIN Unhandled : Unhandled[i] < n
        /\ \A i \in DOMAIN responses : responses[i] < n
        /\ \A t \in Threads : held[t] # 0 => held[t] < n
    BY <1>3, <1>5, InRequests DEF Queued, Answered, InHand
  <1>8. QueueAscends'
    BY <1>4, <1>7 DEF PlacesInv, QueueAscends
  <1>9. AnsweredOnce' /\ HeldOnce'
    BY <1>1 DEF PlacesInv, AnsweredOnce, HeldOnce
  <1>10. InTurn'
    BY <1>1, <1>4, <1>7 DEF PlacesInv, InTurn
  <1> QED
    BY <1>6, <1>8, <1>9, <1>10 DEF PlacesInv

LEMMA PlacesGet ==
  ASSUME ThreadsInv, PlacesInv, NEW t \in Threads, Get(t)
  PROVE  PlacesInv'
  <1> DEFINE r0 == Head(Unhandled)
  <1>1. /\ Unhandled # << >> /\ Unhandled' = Tail(Unhandled) /\ held' = [held EXCEPT ![t] = r0]
        /\ tpc[t] = "get"
        /\ UNCHANGED <<responses, lost, published, consumer_thread>>
    <2>1. /\ source \in Seq(Requests) /\ sent \in Seq(Requests)
          /\ kind = "mock" => sent = << >>
      BY DEF Get, GetRequest, ThreadsInv, ThreadsTypeOK
    <2>2. Unhandled # << >> /\ Unhandled' = Tail(Unhandled) /\ held' = [held EXCEPT ![t] = r0]
      <3>1. CASE kind = "mock"
        <4>1. Unhandled = source /\ Unhandled' = source'
          BY <2>1, <3>1, LineMoves DEF Get, GetRequest, Unhandled
        <4> QED
          BY <3>1, <4>1 DEF Get, GetRequest
      <3>2. CASE kind = "rabbit"
        <4>1. /\ sent # << >> /\ sent' = Tail(sent) /\ source' = source
              /\ held' = [held EXCEPT ![t] = Head(sent)]
          BY <3>2 DEF Get, GetRequest
        <4>2. /\ sent \o source # << >> /\ Head(sent \o source) = Head(sent)
              /\ Tail(sent \o source) = Tail(sent) \o source
          BY <2>1, <4>1, LineMoves
        <4>3. sent' \o source' = Tail(sent) \o source
          BY <4>1
        <4> QED
          BY <4>1, <4>2, <4>3 DEF Unhandled
      <3> QED
        BY <3>1, <3>2 DEF Get, GetRequest
    <2> QED
      BY <2>2 DEF Get, callerVars
  <1>2. /\ Unhandled \in Seq(Requests) /\ held \in [Threads -> {0} \cup Requests]
        /\ held[t] = 0 /\ ThreadsTypeOK
    BY <1>1, LineMoves DEF ThreadsInv, ThreadsTypeOK, Unhandled
  <1>3. /\ Len(Unhandled) \in Nat \ {0} /\ DOMAIN Unhandled = 1 .. Len(Unhandled)
        /\ DOMAIN Unhandled' = 1 .. Len(Unhandled) - 1
        /\ \A i \in DOMAIN Unhandled' : Unhandled'[i] = Unhandled[i + 1]
        /\ r0 = Unhandled[1]
    BY <1>1, <1>2, TailElements
  <1>4. 1 \in DOMAIN Unhandled /\ r0 \in Requests
    BY <1>2, <1>3, InRequests
  <1>5. Requests \subseteq Nat /\ 0 \notin Requests
    BY ThreadsAssumption DEF Requests
  <1>6. \A i \in DOMAIN Unhandled' : i + 1 \in DOMAIN Unhandled /\ r0 < Unhandled'[i]
    BY <1>3, <1>4 DEF PlacesInv, QueueAscends
  <1>7. \A r \in Requests : Queued(r)' <=> Queued(r) /\ r # r0
    <2>1. ASSUME NEW r \in Requests, Queued(r)' PROVE Queued(r) /\ r # r0
      BY <2>1, <1>3, <1>4, <1>5, <1>6 DEF Queued
    <2>2. ASSUME NEW r \in Requests, Queued(r), r # r0 PROVE Queued(r)'
      <3>1. PICK i \in DOMAIN Unhandled : Unhandled[i] = r
        BY <2>2 DEF Queued
      <3>2. i - 1 \in DOMAIN Unhandled' /\ (i - 1) + 1 = i
        BY <2>2, <3>1, <1>3
      <3>3. Unhandled'[i - 1] = r
        BY <3>1, <3>2, <1>3
      <3> QED
        BY <3>2, <3>3 DEF Queued
    <2> QED
      BY <2>1, <2>2
  <1>8. Queued(r0) /\ ~InHand(r0) /\ ~Answered(r0) /\ r0 \notin lost
    BY <1>3, <1>4 DEF Queued, PlacesInv, Apart
  <1>9. \A r \in Requests : /\ InHand(r)' <=> InHand(r) \/ r = r0
                            /\ Answered(r)' <=> Answered(r)
    BY <1>1, <1>2, <1>5 DEF InHand, Answered
  <1>10. Apart' /\ Published'
    BY <1>1, <1>7, <1>8, <1>9 DEF PlacesInv, Apart, Published
  <1>11. QueueAscends'
    BY <1>3, <1>6 DEF PlacesInv, QueueAscends
  <1>12. HeldOnce' /\ AnsweredOnce'
    BY <1>1, <1>2, <1>8 DEF PlacesInv, HeldOnce, AnsweredOnce, InHand
  <1>13. InTurn'
    <2> SUFFICES ASSUME consumer_thread <= 1
                 PROVE  /\ \A i, j \in DOMAIN responses : i < j => responses[i] < responses[j]
                        /\ \A i \in DOMAIN responses, j \in DOMAIN Unhandled' : responses[i] < Unhandled'[j]
                        /\ \A u \in Threads : held'[u] # 0 =>
                             /\ \A i \in DOMAIN responses : responses[i] < held'[u]
                             /\ \A j \in DOMAIN Unhandled' : held'[u] < Unhandled'[j]
      BY <1>1 DEF InTurn
    <2>1. InTurn
      BY DEF PlacesInv
    <2>2. \A i \in DOMAIN responses, j \in DOMAIN Unhandled' : responses[i] < Unhandled'[j]
      BY <2>1, <1>3, <1>6 DEF InTurn
    <2>3. ASSUME NEW u \in Threads, held'[u] # 0 PROVE held'[u] = r0 \/ held'[u] = held[u]
      BY <1>1, <1>2
    <2>4. \A i \in DOMAIN responses : responses[i] < r0
      BY <2>1, <1>3, <1>4 DEF InTurn
    <2> QED
      BY <2>1, <2>2, <2>3, <2>4, <1>3, <1>6 DEF InTurn
  <1> QED
    BY <1>10, <1>11, <1>12, <1>13 DEF PlacesInv

LEMMA PlacesHandle ==
  ASSUME ThreadsInv, PlacesInv, NEW t \in Threads, on_request(t)
  PROVE  PlacesInv'
  <1> DEFINE r0 == held[t]
  <1>1. /\ held' = [held EXCEPT ![t] = 0] /\ tpc[t] = "handle"
        /\ UNCHANGED <<Unhandled, published, consumer_thread>>
        /\ \/ responses' = Append(responses, r0) /\ lost' = lost
           \/ responses' = responses /\ lost' = lost \cup {r0}
    BY DEF on_request, callerVars, Unhandled
  <1>2. /\ responses \in Seq(Requests) /\ held \in [Threads -> {0} \cup Requests]
        /\ r0 \in Requests /\ r0 # 0 /\ ThreadsTypeOK
    BY <1>1 DEF ThreadsInv, ThreadsTypeOK
  <1>3. Requests \subseteq Nat /\ 0 \notin Requests
    BY ThreadsAssumption DEF Requests
  <1>4. InHand(r0) /\ ~Queued(r0) /\ ~Answered(r0) /\ r0 \notin lost
    BY <1>2 DEF InHand, PlacesInv, Apart
  <1>5. \A r \in Requests : /\ Queued(r)' <=> Queued(r)
                            /\ InHand(r)' <=> InHand(r) /\ r # r0
    <2>1. \A u \in Threads : held'[u] = IF u = t THEN 0 ELSE held[u]
      BY <1>1, <1>2
    <2> QED
      BY <1>1, <1>3, <2>1 DEF Queued, InHand, PlacesInv, HeldOnce
  <1>6. HeldOnce' /\ QueueAscends'
    BY <1>1, <1>2 DEF PlacesInv, HeldOnce, QueueAscends
  <1>7. consumer_thread <= 1 => \A u \in Threads : held'[u] = 0
    BY <1>1, <1>2 DEF ThreadsTypeOK, Threads
  <1>8. CASE responses' = Append(responses, r0) /\ lost' = lost
    <2>1. /\ Len(responses) \in Nat /\ DOMAIN responses = 1 .. Len(responses)
          /\ DOMAIN responses' = 1 .. Len(responses) + 1
          /\ \A i \in DOMAIN responses : responses'[i] = responses[i]
          /\ responses'[Len(responses) + 1] = r0
      BY <1>2, <1>8, AppendElements
    <2>2. \A r \in Requests : Answered(r)' <=> Answered(r) \/ r = r0
      BY <2>1 DEF Answered
    <2>3. Apart' /\ Published'
      BY <1>1, <1>4, <1>5, <1>8, <2>2 DEF PlacesInv, Apart, Published
    <2>4. AnsweredOnce'
      BY <1>4, <2>1 DEF PlacesInv, AnsweredOnce, Answered
    <2>5. InTurn'
      <3> SUFFICES ASSUME consumer_thread <= 1
                   PROVE  /\ \A i, j \in DOMAIN responses' : i < j => responses'[i] < responses'[j]
                          /\ \A i \in DOMAIN responses', j \in DOMAIN Unhandled :
                               responses'[i] < Unhandled[j]
        BY <1>1, <1>7 DEF InTurn
      <3>1. InTurn
        BY DEF PlacesInv
      <3>2. /\ \A i \in DOMAIN responses : responses[i] < r0
            /\ \A j \in DOMAIN Unhandled : r0 < Unhandled[j]
        BY <1>2, <3>1 DEF InTurn
      <3> QED
        BY <2>1, <3>1, <3>2 DEF InTurn
    <2> QED
      BY <1>6, <2>3, <2>4, <2>5 DEF PlacesInv
  <1>9. CASE responses' = responses /\ lost' = lost \cup {r0}
    <2>1. \A r \in Requests : Answered(r)' <=> Answered(r)
      BY <1>9 DEF Answered
    <2>2. Apart' /\ Published'
      BY <1>1, <1>4, <1>5, <1>9, <2>1 DEF PlacesInv, Apart, Published
    <2>3. AnsweredOnce' /\ InTurn'
      BY <1>1, <1>7, <1>9 DEF PlacesInv, AnsweredOnce, InTurn
    <2> QED
      BY <1>6, <2>2, <2>3 DEF PlacesInv
  <1> QED
    BY <1>1, <1>8, <1>9

(* What the channel had been sent is lost, and the queue is what waits.      *)
LEMMA PlacesDrop ==
  ASSUME ThreadsInv, PlacesInv, DropConsumers,
         UNCHANGED <<source, responses, held, published, consumer_thread>>
  PROVE  PlacesInv'
  <1> DEFINE n == Len(sent)
             Dropped(r) == \E i \in DOMAIN sent : sent[i] = r
  <1>1. source \in Seq(Requests) /\ sent \in Seq(Requests) /\ ThreadsTypeOK
    BY DEF ThreadsInv, ThreadsTypeOK
  <1>2. Unhandled' = source
    BY <1>1, LineMoves DEF DropConsumers, Unhandled
  <1>3. /\ n \in Nat /\ Len(source) \in Nat
        /\ DOMAIN sent = 1 .. n /\ DOMAIN source = 1 .. Len(source)
        /\ DOMAIN Unhandled = 1 .. n + Len(source)
        /\ \A i \in 1 .. n : Unhandled[i] = sent[i]
        /\ \A i \in DOMAIN source : Unhandled[n + i] = source[i]
    BY <1>1, LenProperties, ConcatProperties DEF Unhandled
  <1>4. \A i \in DOMAIN source : n + i \in DOMAIN Unhandled /\ Unhandled[n + i] = source[i]
    BY <1>3
  <1>5. \A i \in DOMAIN sent : i \in DOMAIN Unhandled /\ Unhandled[i] = sent[i]
    BY <1>3
  <1>6. \A r \in Requests : /\ Queued(r)' <=> \E i \in DOMAIN source : source[i] = r
                            /\ Answered(r)' <=> Answered(r)
                            /\ InHand(r)' <=> InHand(r)
                            /\ r \in lost' <=> r \in lost \/ Dropped(r)
    BY <1>2 DEF Queued, Answered, InHand, DropConsumers
  <1>7. \A r \in Requests : Queued(r) <=> Dropped(r) \/ Queued(r)'
    <2>1. ASSUME NEW r \in Requests, NEW i \in DOMAIN Unhandled, Unhandled[i] = r
          PROVE  Dropped(r) \/ \E j \in DOMAIN source : source[j] = r
      <3>1. CASE i <= n
        BY <2>1, <3>1, <1>3
      <3>2. CASE ~(i <= n)
        <4>1. i - n \in DOMAIN source /\ n + (i - n) = i
          BY <3>2, <1>3
        <4> QED
          BY <2>1, <4>1, <1>4
      <3> QED
        BY <3>1, <3>2
    <2> QED
      BY <2>1, <1>4, <1>5, <1>6 DEF Queued
  <1>8. \A r \in Requests : ~(Dropped(r) /\ Queued(r)')
    <2>1. ASSUME NEW i \in DOMAIN sent, NEW j \in DOMAIN source PROVE sent[i] # source[j]
      <3>1. i < n + j
        BY <1>3
      <3>2. Unhandled[i] < Unhandled[n + j]
        BY <3>1, <1>4, <1>5 DEF PlacesInv, QueueAscends
      <3>3. sent[i] \in Nat /\ source[j] \in Nat
        BY <1>1, ThreadsAssumption DEF Requests
      <3> QED
        BY <3>2, <3>3, <1>4, <1>5
    <2> QED
      BY <2>1, <1>6
  <1>9. Apart' /\ Published'
    BY <1>6, <1>7, <1>8 DEF PlacesInv, Apart, Published
  <1>10. QueueAscends'
    <2>1. \A i, j \in DOMAIN source : i < j => n + i < n + j
      BY <1>3
    <2> QED
      BY <2>1, <1>2, <1>4 DEF PlacesInv, QueueAscends
  <1>11. AnsweredOnce' /\ HeldOnce'
    BY DEF PlacesInv, AnsweredOnce, HeldOnce
  <1>12. InTurn'
    BY <1>2, <1>4 DEF PlacesInv, InTurn
  <1> QED
    BY <1>9, <1>10, <1>11, <1>12 DEF PlacesInv

LEMMA PlacesStep == ThreadsInv /\ PlacesInv /\ [Next]_allVars => PlacesInv'
  <1> SUFFICES ASSUME ThreadsInv, PlacesInv, [Next]_allVars PROVE PlacesInv'
    OBVIOUS
  <1>1. CASE publish_request
    BY <1>1, PlacesPublish
  <1>2. CASE start_consuming
    BY <1>2, PlacesStill DEF start_consuming, MakeThread, Unhandled
  <1>3. CASE Stop \/ Close \/ LoseConnection
    <2>1. UNCHANGED <<source, responses, held, published, consumer_thread>>
      BY <1>3 DEF Stop, stop_consuming, Close, Disconnect, LoseConnection
    <2>2. DropConsumers \/ UNCHANGED <<sent, lost>>
      BY <1>3 DEF Stop, stop_consuming, Close, Disconnect, LoseConnection
    <2> QED
      BY <2>1, <2>2, PlacesDrop, PlacesStill DEF Unhandled
  <1>4. CASE Send
    <2>1. Unhandled' = Unhandled
      BY <1>4, LineMoves DEF Send, Unhandled, ThreadsInv, ThreadsTypeOK
    <2> QED
      BY <1>4, <2>1, PlacesStill DEF Send, threadVars, callerVars
  <1>5. CASE Joined \/ Cancel \/ UNCHANGED allVars
    <2>1. UNCHANGED <<Unhandled, responses, held, lost, published, consumer_thread>>
      BY <1>5 DEF Joined, Cancel, allVars, threadVars, callerVars, Unhandled
    <2> QED
      BY <2>1, PlacesStill
  <1>6. ASSUME NEW t \in Threads, Thread(t) PROVE PlacesInv'
    <2>1. CASE Get(t)
      BY <2>1, PlacesGet
    <2>2. CASE on_request(t)
      BY <2>2, PlacesHandle
    <2>3. CASE Begin(t) \/ Test(t) \/ Empty(t) \/ Return(t) \/ Finally(t)
      <3>1. UNCHANGED <<Unhandled, responses, held, lost, published, consumer_thread>>
        BY <2>3 DEF Begin, Test, Empty, Return, Finally, callerVars, Unhandled
      <3> QED
        BY <3>1, PlacesStill
    <2> QED
      BY <1>6, <2>1, <2>2, <2>3 DEF Thread
  <1> QED
    BY <1>1, <1>2, <1>3, <1>4, <1>5, <1>6 DEF Next

(* Nothing is lost but what a thread held that raised, while the channel's   *)
(* buffer was never dropped.                                                 *)
Undropped == kind = "mock" \/ (open /\ stops = 0)
LossInv   == Undropped => Cardinality(lost) <= Cardinality(Raised)

LEMMA LossFinite ==
  ASSUME ThreadsTypeOK
  PROVE  /\ IsFiniteSet(lost) /\ Cardinality(lost) \in Nat
         /\ IsFiniteSet(Raised) /\ Cardinality(Raised) \in Nat
  <1>1. IsFiniteSet(Threads) /\ IsFiniteSet(Requests)
    BY FS_Interval, ThreadsAssumption DEF Threads, Requests
  <1>2. lost \subseteq Requests /\ Raised \subseteq Threads
    BY DEF ThreadsTypeOK, Raised
  <1> QED
    BY <1>1, <1>2, FS_Subset, FS_CardinalityType

LEMMA LossInit == Init => LossInv
  <1> SUFFICES ASSUME Init PROVE LossInv
    OBVIOUS
  <1>1. lost = {} /\ Raised = {}
    BY DEF Init, Raised
  <1> QED
    BY <1>1, FS_EmptySet DEF LossInv

LEMMA LossStep == ThreadsInv /\ ThreadsInv' /\ LossInv /\ [Next]_allVars => LossInv'
  <1> SUFFICES ASSUME ThreadsInv, ThreadsInv', LossInv, [Next]_allVars, Undropped'
               PROVE  Cardinality(lost') <= Cardinality(Raised')
    BY DEF LossInv
  <1>0. /\ ThreadsTypeOK /\ ThreadsTypeOK' /\ tpc \in [Threads -> States]
        /\ IsFiniteSet(lost) /\ Cardinality(lost) \in Nat
        /\ IsFiniteSet(Raised) /\ Cardinality(Raised) \in Nat
        /\ IsFiniteSet(Raised') /\ Cardinality(Raised') \in Nat
    <2>1. ThreadsTypeOK /\ ThreadsTypeOK'
      BY DEF ThreadsInv
    <2>2. IsFiniteSet(Raised') /\ Cardinality(Raised') \in Nat
      <3>1. Raised' \subseteq Threads
        BY DEF Raised
      <3>2. IsFiniteSet(Threads)
        BY FS_Interval, ThreadsAssumption DEF Threads
      <3> QED
        BY <3>1, <3>2, FS_Subset, FS_CardinalityType
    <2> QED
      BY <2>1, <2>2, LossFinite DEF ThreadsTypeOK, States
  <1>1. Undropped /\ Cardinality(lost) <= Cardinality(Raised)
    <2>1. kind' = kind /\ (open' => open)
      BY <1>0
      DEF Next, start_consuming, Stop, stop_consuming, Joined, Close, Disconnect, publish_request,
          Send, Cancel, LoseConnection, Thread, Begin, Test, Get, Empty, Return, Finally,
          on_request, allVars, callerVars, ThreadsTypeOK
    <2>2. stops' = stops \/ stops' = stops + 1
      BY DEF Next, start_consuming, Stop, Stops, Joined, Close, publish_request,
             Send, Cancel, LoseConnection, Thread, Begin, Test, Get, Empty, Return, Finally,
             on_request, allVars, callerVars
    <2>3. stops \in Nat
      BY <1>0, ThreadsAssumption DEF ThreadsTypeOK
    <2> QED
      BY <2>1, <2>2, <2>3 DEF Undropped, LossInv
  <1>2. CASE lost' = lost
    <2>1. Raised \subseteq Raised'
      <3>1. CASE \E t \in Threads : Thread(t)
        <4>1. PICK t \in Threads : Thread(t)
          BY <3>1
        <4>2. tpc[t] # "raised" /\ \E to : tpc' = [tpc EXCEPT ![t] = to]
          BY <4>1 DEF Thread, Begin, BeginMock, BeginRabbit, Test, Get, Empty, Return, Finally,
                      on_request, Raises, Goes
        <4> QED
          BY <1>0, <4>2 DEF Raised
      <3>2. CASE start_consuming
        <4>1. consumer_thread + 1 \in Threads /\ tpc[consumer_thread + 1] = "none"
          BY <1>0, <3>2, ThreadsAssumption DEF start_consuming, ThreadsTypeOK, Threads
        <4> QED
          BY <1>0, <3>2, <4>1 DEF start_consuming, MakeThread, Raised
      <3>3. CASE Outside \/ UNCHANGED allVars
        <4>1. tpc' = tpc
          BY <3>3 DEF Outside, Stop, stop_consuming, Joined, Close, Disconnect, publish_request,
                      Send, Cancel, LoseConnection, allVars, threadVars
        <4> QED
          BY <4>1 DEF Raised
      <3> QED
        BY <3>1, <3>2, <3>3 DEF Next, Outside
    <2>2. Cardinality(Raised) <= Cardinality(Raised')
      BY <1>0, <2>1, FS_Subset
    <2> QED
      BY <1>0, <1>1, <1>2, <2>2
  <1>3. CASE lost' # lost
    <2>1. PICK t \in Threads : on_request(t)
      <3>1. ~(Outside \/ start_consuming \/ UNCHANGED allVars)
        <4>1. ASSUME DropConsumers PROVE kind = "rabbit" => ~Stop /\ ~Disconnect
          <5>1. ASSUME kind = "rabbit", Stop PROVE FALSE
            BY <1>0, <5>1, ThreadsAssumption
            DEF Stop, Stops, stop_consuming, Undropped, ThreadsTypeOK
          <5>2. ASSUME Disconnect PROVE FALSE
            BY <5>2 DEF Disconnect, Undropped
          <5> QED
            BY <5>1, <5>2
        <4> QED
          BY <1>3, <4>1
          DEF Outside, Stop, stop_consuming, Joined, Close, Disconnect, publish_request,
              Send, Cancel, LoseConnection, start_consuming, allVars, threadVars
      <3>2. PICK t \in Threads : Thread(t)
        BY <3>1 DEF Next, Outside
      <3> QED
        BY <1>3, <3>2 DEF Thread, Begin, Test, Get, Empty, Return, Finally
    <2>2. lost' = lost \cup {held[t]} /\ tpc' = [tpc EXCEPT ![t] = "raised"] /\ tpc[t] = "handle"
      BY <1>3, <2>1 DEF on_request, Raises, Goes
    <2>3. Raised' = Raised \cup {t} /\ t \notin Raised
      BY <1>0, <2>2 DEF Raised, States
    <2>4. Cardinality(Raised') = Cardinality(Raised) + 1
      BY <1>0, <2>3, FS_AddElement
    <2>5. Cardinality(lost') \in {Cardinality(lost), Cardinality(lost) + 1}
      BY <1>0, <2>2, FS_AddElement
    <2> QED
      BY <1>0, <1>1, <2>4, <2>5
  <1> QED
    BY <1>2, <1>3

LEMMA UniqueCount ==
  ASSUME NEW S, \A x, y \in S : x = y
  PROVE  Cardinality(S) = IF S = {} THEN 0 ELSE 1
  <1>1. CASE S = {}
    BY <1>1, FS_EmptySet
  <1>2. CASE S # {}
    <2>1. PICK x \in S : TRUE
      BY <1>2
    <2>2. S = {x}
      BY <2>1
    <2> QED
      BY <1>2, <2>2, FS_Singleton
  <1> QED
    BY <1>1, <1>2

LEMMA PlacesCount == ThreadsInv /\ PlacesInv /\ LossInv => EachRequestOnce
  <1> SUFFICES ASSUME ThreadsInv, PlacesInv, LossInv PROVE EachRequestOnce
    OBVIOUS
  <1>1. ThreadsTypeOK
    BY DEF ThreadsInv
  <1>2. ASSUME NEW r \in 1 .. published
        PROVE  Cardinality(Places(r))
                 + Cardinality({i \in DOMAIN Unhandled : Unhandled[i] = r})
                 + Cardinality({i \in DOMAIN responses : responses[i] = r})
                 + Cardinality({r} \cap lost) = 1
    <2> DEFINE Q == {i \in DOMAIN Unhandled : Unhandled[i] = r}
               A == {i \in DOMAIN responses : responses[i] = r}
               L == {r} \cap lost
    <2>1. r \in Requests /\ r # 0 /\ r <= published
      BY <1>1, <1>2, ThreadsAssumption DEF ThreadsTypeOK, Requests
    <2>2. Cardinality(Places(r)) = IF InHand(r) THEN 1 ELSE 0
      <3>1. \A t, u \in Places(r) : t = u
        BY <2>1 DEF Places, PlacesInv, HeldOnce
      <3>2. Places(r) = {} <=> ~InHand(r)
        BY DEF Places, InHand
      <3> QED
        BY <3>1, <3>2, UniqueCount
    <2>3. Cardinality(Q) = IF Queued(r) THEN 1 ELSE 0
      <3>1. ASSUME NEW i \in Q, NEW j \in Q PROVE i = j
        <4>1. i \in Nat /\ j \in Nat /\ Unhandled[i] \in Nat /\ Unhandled[i] = Unhandled[j]
          BY <1>1, <2>1, InRequests, ThreadsAssumption DEF Requests
        <4>2. ~(i < j) /\ ~(j < i)
          BY <4>1 DEF PlacesInv, QueueAscends
        <4> QED
          BY <4>1, <4>2
      <3>2. Q = {} <=> ~Queued(r)
        BY DEF Queued
      <3> HIDE DEF Q
      <3> QED
        BY <3>1, <3>2, UniqueCount
    <2>4. Cardinality(A) = IF Answered(r) THEN 1 ELSE 0
      <3>1. \A i, j \in A : i = j
        BY DEF PlacesInv, AnsweredOnce
      <3>2. A = {} <=> ~Answered(r)
        BY DEF Answered
      <3> HIDE DEF A
      <3> QED
        BY <3>1, <3>2, UniqueCount
    <2>5. Cardinality(L) = IF r \in lost THEN 1 ELSE 0
      <3>1. \A x, y \in L : x = y
        OBVIOUS
      <3>2. L = {} <=> r \notin lost
        OBVIOUS
      <3> HIDE DEF L
      <3> QED
        BY <3>1, <3>2, UniqueCount
    <2>6. /\ Queued(r) \/ Answered(r) \/ InHand(r) \/ r \in lost
          /\ Queued(r) => ~Answered(r) /\ ~InHand(r) /\ r \notin lost
          /\ Answered(r) => ~InHand(r) /\ r \notin lost
          /\ InHand(r) => r \notin lost
      BY <2>1 DEF PlacesInv, Apart, Published
    <2> HIDE DEF Q, A, L
    <2>7. Cardinality(Places(r)) + Cardinality(Q) + Cardinality(A) + Cardinality(L) = 1
      BY <2>2, <2>3, <2>4, <2>5, <2>6
    <2> QED
      BY <2>7 DEF Q, A, L
  <1> QED
    BY <1>2 DEF EachRequestOnce, PlacesInv, InTurn, LossInv, Undropped

(* However many threads share the queue, and whatever ends them, each        *)
(* published request is in one place only and in some place always; a single *)
(* thread answers in the order of publication; and a thread that raises      *)
(* loses one request, the channel's buffer only a stop, a close or the end   *)
(* of the connection (mock_broker.py:47-52, rabbitmq_broker.py:45, 61-73).   *)
THEOREM RequestsAreKept == Spec => []EachRequestOnce
  <1>1. Init => PlacesInv /\ LossInv
    BY PlacesInit, LossInit
  <1>2. ThreadsInv /\ PlacesInv /\ [Next]_allVars => PlacesInv'
    BY PlacesStep
  <1>3. ThreadsInv /\ ThreadsInv' /\ LossInv /\ [Next]_allVars => LossInv'
    BY LossStep
  <1>4. ThreadsInv /\ PlacesInv /\ LossInv => EachRequestOnce
    BY PlacesCount
  <1> QED
    BY <1>1, <1>2, <1>3, <1>4, ThreadsInvariance, PTL DEF Spec
=============================================================================
