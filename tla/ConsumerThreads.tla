--------------------------- MODULE ConsumerThreads ---------------------------
(***************************************************************************)
(* The two implementations of IMessageBroker (compute/core/interfaces.py)  *)
(* with the calls of one caller: MockMessageBroker ("mock"), on two queues *)
(* of its own, and RabbitMQBroker ("rabbit"), on a pika channel.           *)
(*                                                                         *)
(* start_consuming makes a thread unless is_consuming is set.  The thread  *)
(* of the first sets the flag itself when it begins; the thread of the     *)
(* second sets it when channel.start_consuming() has returned, that is     *)
(* when nothing is consumed any more, and clears it at once.               *)
(*                                                                         *)
(*   none -> started -> loop -> get -> handle -> loop ... -> ended         *)
(* and of the second: started -> get -> handle -> get ... -> returned ->   *)
(* ended; "raised" once an exception has ended either.                     *)
(*                                                                         *)
(* RabbitMQ sends a consumer with auto_ack all it has: what was sent waits *)
(* in the buffer of the channel, belongs to no thread, and is gone with    *)
(* the connection or with the consumers the channel cancels.               *)
(***************************************************************************)
EXTENDS Naturals, Sequences, FiniteSets

CONSTANTS
  Kinds,        (* which of the two the broker may be                        *)
  MaxStarts,    (* bound: threads made                                       *)
  MaxRequests,  (* bound: requests published                                 *)
  MaxStops      (* bound: stops and closes                                   *)

ASSUME ThreadsAssumption == /\ Kinds \subseteq {"mock", "rabbit"}
                            /\ MaxStarts \in Nat \ {0}
                            /\ MaxRequests \in Nat
                            /\ MaxStops \in Nat

Threads  == 1 .. MaxStarts
Requests == 1 .. MaxRequests

VARIABLES
  kind,            (* the class of the broker                                *)
  is_consuming,
  consumer_thread, (* the last thread made, 0 for None                       *)
  tpc,             (* where a thread stands                                  *)
  held,            (* the request a thread handles, or 0                     *)
  source,          (* the queue of what is to be consumed                    *)
  sent,            (* what RabbitMQ has sent to the channel                  *)
  responses,       (* what was answered                                      *)
  lost,            (* what a thread or the channel's buffer died with        *)
  published,       (* how many requests were published                       *)
  consumers,       (* how many consumers the channel has                     *)
  open,            (* the connection is open                                 *)
  cpc,             (* the caller: idle, or joining consumer_thread           *)
  stops            (* how many stops and closes were called                  *)

threadVars == <<tpc, held, responses, lost, consumers>>
callerVars == <<consumer_thread, published, open, cpc, stops>>
allVars    == <<kind, is_consuming, source, sent, threadVars, callerVars>>

Began(t) == tpc[t] \in {"loop", "get", "handle", "returned"}

ThreadsTypeOK ==
  /\ kind \in Kinds
  /\ is_consuming \in BOOLEAN
  /\ consumer_thread \in {0} \cup Threads
  /\ tpc \in [Threads -> {"none", "started", "loop", "get", "handle",
                          "returned", "raised", "ended"}]
  /\ held \in [Threads -> {0} \cup Requests]
  /\ \A t \in Threads : held[t] # 0 <=> tpc[t] = "handle"
  /\ \A t \in Threads : tpc[t] # "none" <=> t <= consumer_thread
  /\ source \in Seq(Requests) /\ sent \in Seq(Requests) /\ responses \in Seq(Requests)
  /\ lost \subseteq Requests
  /\ published \in 0 .. MaxRequests
  /\ consumers \in 0 .. MaxStarts
  /\ kind = "mock" => open /\ consumers = 0 /\ sent = << >>
  /\ ~open => sent = << >>
  /\ open \in BOOLEAN
  /\ cpc \in {"idle", "joining"}
  /\ stops \in 0 .. MaxStops

(* __init__                                                                  *)
Init == /\ kind \in Kinds
        /\ is_consuming = FALSE
        /\ consumer_thread = 0
        /\ tpc = [t \in Threads |-> "none"]
        /\ held = [t \in Threads |-> 0]
        /\ source = << >> /\ sent = << >> /\ responses = << >>
        /\ lost = {}
        /\ published = 0
        /\ consumers = 0
        /\ open = TRUE
        /\ cpc = "idle"
        /\ stops = 0

-----------------------------------------------------------------------------
(* The caller.                                                               *)

(* Mutant: the thread is not remembered.                                     *)
MakeForgotten == /\ tpc' = [tpc EXCEPT ![consumer_thread + 1] = "started"]
                 /\ UNCHANGED consumer_thread

MakeThread == /\ tpc' = [tpc EXCEPT ![consumer_thread + 1] = "started"]
              /\ consumer_thread' = consumer_thread + 1

start_consuming ==
  /\ cpc = "idle"
  /\ ~is_consuming
  /\ consumer_thread < MaxStarts
  /\ MakeThread
  /\ UNCHANGED <<kind, is_consuming, source, sent, held, responses, lost, consumers,
                 published, open, cpc, stops>>

Stops == cpc = "idle" /\ stops < MaxStops /\ stops' = stops + 1

(* The channel has no consumer left and its buffer is dropped: nothing in it *)
(* goes back to the queue, auto_ack has acknowledged it.                     *)
DropConsumers ==
  /\ consumers' = 0
  /\ sent' = << >>
  /\ lost' = lost \cup {sent[i] : i \in DOMAIN sent}

(* The mock clears the flag and joins; the other cancels the consumers of    *)
(* its channel and joins before it clears the flag.                          *)
stop_consuming ==
  /\ is_consuming
  /\ cpc' = "joining"
  /\ \/ kind = "mock" /\ is_consuming' = FALSE /\ UNCHANGED <<consumers, sent, lost>>
     \/ kind = "rabbit" /\ DropConsumers /\ UNCHANGED is_consuming
  /\ UNCHANGED <<kind, source, tpc, held, responses, consumer_thread, published, open>>

Stop == Stops /\ stop_consuming

Joined ==
  /\ cpc = "joining"
  /\ tpc[consumer_thread] \in {"raised", "ended"}
  /\ cpc' = "idle"
  /\ is_consuming' = IF kind = "rabbit" THEN FALSE ELSE is_consuming
  /\ UNCHANGED <<kind, source, sent, threadVars, consumer_thread, published, open, stops>>

(* The connection is gone, under whatever thread uses it.                    *)
Disconnect ==
  /\ kind = "rabbit" /\ open
  /\ open' = FALSE
  /\ DropConsumers
  /\ UNCHANGED <<kind, is_consuming, source, tpc, held, responses, consumer_thread,
                 published, cpc>>

(* close(): the mock stops, the other closes its connection.                 *)
Close == Stops /\ (Disconnect \/ (kind = "mock" /\ stop_consuming))

(* publish_request of the mock; the core, for the other.                     *)
publish_request ==
  /\ published < MaxRequests
  /\ published' = published + 1
  /\ source' = Append(source, published + 1)
  /\ UNCHANGED <<kind, is_consuming, sent, threadVars, consumer_thread, open, cpc, stops>>

-----------------------------------------------------------------------------
(* A thread in _consume.                                                     *)

Goes(t, to) == tpc' = [tpc EXCEPT ![t] = to]

BeginMock(t) == /\ is_consuming' = TRUE
                /\ Goes(t, "loop")
                /\ UNCHANGED consumers

(* An exception: caught by nobody in the mock's thread, by the except and    *)
(* finally clauses in the other's.                                           *)
Raises(t) ==
  /\ Goes(t, "raised")
  /\ is_consuming' = IF kind = "rabbit" THEN FALSE ELSE is_consuming

(* basic_consume, then channel.start_consuming().  pika may refuse a second  *)
(* thread on the channel, with its consumer registered.                      *)
BeginRabbit(t) ==
  \/ /\ open
     /\ consumers' = consumers + 1
     /\ \/ Goes(t, "get") /\ UNCHANGED is_consuming
        \/ (\E u \in Threads : Began(u)) /\ Raises(t)
  \/ ~open /\ Raises(t) /\ UNCHANGED consumers

Begin(t) ==
  /\ tpc[t] = "started"
  /\ \/ kind = "mock" /\ BeginMock(t)
     \/ kind = "rabbit" /\ BeginRabbit(t)
  /\ UNCHANGED <<kind, source, sent, held, responses, lost, callerVars>>

(* Mutant: while True.                                                       *)
TestForever(t) ==
  /\ tpc[t] = "loop"
  /\ Goes(t, "get")
  /\ UNCHANGED <<kind, is_consuming, source, sent, held, responses, lost, consumers,
                 callerVars>>

(* while self.is_consuming                                                   *)
Test(t) ==
  /\ tpc[t] = "loop"
  /\ Goes(t, IF is_consuming THEN "get" ELSE "ended")
  /\ UNCHANGED <<kind, is_consuming, source, sent, held, responses, lost, consumers,
                 callerVars>>

(* Mutant: the request stays where it was until it is answered.              *)
GetPeeks(t) ==
  /\ \/ /\ kind = "mock" /\ source # << >>
        /\ held' = [held EXCEPT ![t] = Head(source)]
     \/ /\ kind = "rabbit" /\ sent # << >>
        /\ held' = [held EXCEPT ![t] = Head(sent)]
  /\ UNCHANGED <<source, sent>>

(* The next request of the queue, or of what the channel was sent.           *)
GetRequest(t) ==
  \/ /\ kind = "mock" /\ source # << >>
     /\ held' = [held EXCEPT ![t] = Head(source)]
     /\ source' = Tail(source)
     /\ UNCHANGED sent
  \/ /\ kind = "rabbit" /\ sent # << >>
     /\ held' = [held EXCEPT ![t] = Head(sent)]
     /\ sent' = Tail(sent)
     /\ UNCHANGED source

(* source_queue.get(timeout=1), or the next event of the channel, by         *)
(* whichever thread is in channel.start_consuming().                         *)
Get(t) ==
  /\ tpc[t] = "get"
  /\ GetRequest(t)
  /\ Goes(t, "handle")
  /\ UNCHANGED <<kind, is_consuming, responses, lost, consumers, callerVars>>

(* except queue.Empty                                                        *)
Empty(t) ==
  /\ tpc[t] = "get" /\ kind = "mock"
  /\ source = << >>
  /\ Goes(t, "loop")
  /\ UNCHANGED <<kind, is_consuming, source, sent, held, responses, lost, consumers,
                 callerVars>>

(* channel.start_consuming() returns once the channel has no consumer, which *)
(* it learns after what was sent before, and raises on a closed connection.  *)
Return(t) ==
  /\ tpc[t] = "get" /\ kind = "rabbit"
  /\ consumers = 0 /\ sent = << >>
  /\ IF open THEN Goes(t, "returned") /\ is_consuming' = TRUE ELSE Raises(t)
  /\ UNCHANGED <<kind, source, sent, held, responses, lost, consumers, callerVars>>

(* Mutant: no finally clause.                                                *)
FinallyFlagged(t) ==
  /\ tpc[t] = "returned"
  /\ Goes(t, "ended")
  /\ UNCHANGED <<kind, is_consuming, source, sent, held, responses, lost, consumers,
                 callerVars>>

Finally(t) ==
  /\ tpc[t] = "returned"
  /\ Goes(t, "ended")
  /\ is_consuming' = FALSE
  /\ UNCHANGED <<kind, source, sent, held, responses, lost, consumers, callerVars>>

(* on_request: it answers, or raises, as it does on a closed connection.     *)
on_request(t) ==
  /\ tpc[t] = "handle"
  /\ held' = [held EXCEPT ![t] = 0]
  /\ \/ /\ open
        /\ responses' = Append(responses, held[t])
        /\ Goes(t, IF kind = "mock" THEN "loop" ELSE "get")
        /\ UNCHANGED <<is_consuming, lost>>
     \/ /\ lost' = lost \cup {held[t]}
        /\ Raises(t)
        /\ UNCHANGED responses
  /\ UNCHANGED <<kind, source, sent, consumers, callerVars>>

Thread(t) == \/ Begin(t) \/ Test(t) \/ Get(t) \/ Empty(t)
             \/ Return(t) \/ Finally(t) \/ on_request(t)

(* RabbitMQ sends the next request to a consumer of the channel; that the    *)
(* thread which registered it has ended since makes no difference.           *)
Send ==
  /\ kind = "rabbit" /\ open /\ consumers > 0
  /\ source # << >>
  /\ sent' = Append(sent, Head(source))
  /\ source' = Tail(source)
  /\ UNCHANGED <<kind, is_consuming, threadVars, callerVars>>

(* It cancels the channel's consumers, as it does with their queue; what it  *)
(* sent before is still handled.                                             *)
Cancel ==
  /\ kind = "rabbit" /\ consumers > 0
  /\ consumers' = 0
  /\ UNCHANGED <<kind, is_consuming, source, sent, tpc, held, responses, lost, callerVars>>

(* It closes the connection of a peer that is silent, or the network does.   *)
LoseConnection == Disconnect /\ UNCHANGED stops

Next == \/ start_consuming \/ Stop \/ Joined \/ Close \/ publish_request
        \/ \E t \in Threads : Thread(t)
        \/ Send \/ Cancel \/ LoseConnection

Spec == Init /\ [][Next]_allVars

(* Threads are scheduled and a detector returns or raises; a caller that     *)
(* joins goes on when it can.                                                *)
FairSpec == /\ Spec
            /\ \A t \in Threads : WF_allVars(Thread(t))
            /\ WF_allVars(Joined)

-----------------------------------------------------------------------------
Places(r) == {t \in Threads : held[t] = r}

(* What is not handled yet, in the order it will be.                         *)
Unhandled == sent \o source

Raised == {t \in Threads : tpc[t] = "raised"}

(* With any number of threads on one queue, and whatever ends them, a        *)
(* published request waits in the queue or the channel's buffer, is in the   *)
(* hands of one thread, answered or lost, and never two of these; a single   *)
(* thread answers in the order of publication.  Until a stop, a close or the *)
(* end of the connection drops the channel's buffer no more is lost than     *)
(* there are threads that raised, each with the one request it held          *)
(* (mock_broker.py:47-52, rabbitmq_broker.py:45, 61-73).                     *)
EachRequestOnce ==
  /\ \A r \in 1 .. published :
       Cardinality(Places(r))
         + Cardinality({i \in DOMAIN Unhandled : Unhandled[i] = r})
         + Cardinality({i \in DOMAIN responses : responses[i] = r})
         + Cardinality({r} \cap lost) = 1
  /\ consumer_thread <= 1 =>
       \A i, j \in DOMAIN responses : i < j => responses[i] < responses[j]
  /\ kind = "mock" \/ (open /\ stops = 0) => Cardinality(lost) <= Cardinality(Raised)

(* What the flag tells (mock_broker.py:40, rabbitmq_broker.py:48): of the    *)
(* mock, that a thread has begun and has not ended, or that one has raised,  *)
(* after which a start does nothing; of RabbitMQBroker, that a thread has    *)
(* just stopped consuming, so that the stop of a single start finds the flag *)
(* set only when the channel has no consumer left to stop.                   *)
FlagTellsOfThread ==
  is_consuming =>
    CASE kind = "mock"   -> \E t \in Threads : Began(t) \/ tpc[t] = "raised"
      [] kind = "rabbit" ->
           /\ \E t \in Threads : tpc[t] = "returned"
           /\ consumer_thread = 1 => consumers = 0

(* stop_consuming returns if start_consuming made one thread only; with two, *)
(* one that begins late sets the flag again, and the join has no end         *)
(* (mock_broker.py:44, 57).                                                  *)
OneStartStops == (cpc = "joining") ~> (cpc = "idle" \/ consumer_thread > 1)
=============================================================================
