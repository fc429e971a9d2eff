--------------------------- MODULE ConsumerProducer ---------------------------
(***************************************************************************)
(* frl_threads with FRL_THREAD_CONSUMER_PRODUCER: the producer hands each  *)
(* task to an idle consumer through consumer->pointer and a signal.  A     *)
(* consumer waits for the signal without looking at a predicate, and the   *)
(* producer signals without the mutex.                                     *)
(***************************************************************************)
EXTENDS ThreadPool

CONSTANT MaxSpurious   (* bound on the wakeups without a signal             *)

ASSUME SpuriousAssumption == MaxSpurious \in Nat

VARIABLES
  consumerQueue,  (* consumer_queue, an apr_queue of MaxOpen places        *)
  pointer,        (* consumer->pointer                                     *)
  ppc,            (* where the producer stands                             *)
  item,           (* local pointer of the producer                         *)
  chosen,         (* local consumer of the producer                        *)
  spurious        (* how many wakeups had no signal                        *)

producerVars == <<ppc, item, chosen>>
consumerVars == <<threadPoolVars, consumerQueue, pointer, blocked, producerVars, spurious>>

(* spawn has queued each consumer it created.                              *)
ConsumersInit ==
  /\ ThreadPoolInit
  /\ consumerQueue = [i \in 1 .. MinOpen |-> i - 1]
  /\ pointer = [w \in Worker |-> NoTask]
  /\ ppc = "pop" /\ item = NoTask /\ chosen = 0
  /\ spurious = 0

-----------------------------------------------------------------------------

(* Mutant: does not sleep while consumer->pointer is set.                  *)
ConsumerSleep_IfNoPointer(w) ==
  /\ pc[w] = "enter"
  /\ blocked' = IF pointer[w] = NoTask THEN blocked \cup {w} ELSE blocked
  /\ Goto(w, "asleep")
  /\ UNCHANGED <<growVars, queue, todo, cpc, doneVars, consumerQueue, pointer,
                 producerVars, spurious>>

ConsumerSleep(w) ==
  /\ pc[w] = "enter"
  /\ blocked' = blocked \cup {w}
  /\ Goto(w, "asleep")
  /\ UNCHANGED <<growVars, queue, todo, cpc, doneVars, consumerQueue, pointer,
                 producerVars, spurious>>

ConsumerSpuriousWake(w) ==
  /\ w \in blocked /\ spurious < MaxSpurious
  /\ blocked' = blocked \ {w}
  /\ spurious' = spurious + 1
  /\ UNCHANGED <<threadPoolVars, consumerQueue, pointer, producerVars>>

(* A consumer that returns from the wait takes what pointer holds.         *)
ConsumerExecute(w) ==
  /\ pc[w] = "asleep" /\ w \notin blocked
  /\ \/ pointer[w] # NoTask /\ ExecuteTask(pointer[w])
     \/ pointer[w] = NoTask /\ UNCHANGED doneVars
  /\ Goto(w, "requeue")
  /\ UNCHANGED <<growVars, queue, todo, cpc, consumerQueue, pointer, blocked,
                 producerVars, spurious>>

Requeue(w) ==
  /\ pc[w] = "requeue" /\ Len(consumerQueue) < MaxOpen
  /\ consumerQueue' = Append(consumerQueue, w)
  /\ Goto(w, "enter")
  /\ UNCHANGED <<growVars, queue, todo, cpc, doneVars, pointer, blocked,
                 producerVars, spurious>>

(* Mutant: leaves the task in the queue.                                   *)
ProducerPop_Peeks ==
  /\ ppc = "pop" /\ queue # <<>>
  /\ IF Head(queue) = NullTask
     THEN UNCHANGED <<ppc, item>>
     ELSE ppc' = "take" /\ item' = Head(queue)
  /\ UNCHANGED <<growVars, queue, todo, cpc, pc, doneVars, consumerQueue, pointer,
                 blocked, chosen, spurious>>

(* A task without a pointer is dropped.                                    *)
ProducerPop ==
  /\ ppc = "pop" /\ queue # <<>>
  /\ queue' = Tail(queue)
  /\ IF Head(queue) = NullTask
     THEN UNCHANGED <<ppc, item>>
     ELSE ppc' = "take" /\ item' = Head(queue)
  /\ UNCHANGED <<growVars, todo, cpc, pc, doneVars, consumerQueue, pointer, blocked,
                 chosen, spurious>>

(* Mutant: leaves the consumer in consumer_queue.                          *)
ProducerTake_Peeks ==
  /\ ppc = "take" /\ consumerQueue # <<>>
  /\ chosen' = Head(consumerQueue)
  /\ ppc' = "hand"
  /\ UNCHANGED <<threadPoolVars, consumerQueue, pointer, blocked, item, spurious>>

ProducerTake ==
  /\ ppc = "take" /\ consumerQueue # <<>>
  /\ chosen' = Head(consumerQueue)
  /\ consumerQueue' = Tail(consumerQueue)
  /\ ppc' = "hand"
  /\ UNCHANGED <<threadPoolVars, pointer, blocked, item, spurious>>

ProducerHand ==
  /\ ppc = "hand"
  /\ pointer' = [pointer EXCEPT ![chosen] = item]
  /\ ppc' = "signal"
  /\ UNCHANGED <<threadPoolVars, consumerQueue, blocked, item, chosen, spurious>>

(* The signal wakes the consumer if it waits already, and is lost if not.  *)
ProducerSignal ==
  /\ ppc = "signal"
  /\ blocked' = blocked \ {chosen}
  /\ ppc' = "pop" /\ item' = NoTask /\ chosen' = 0
  /\ UNCHANGED <<threadPoolVars, consumerQueue, pointer, spurious>>

(* assign queues the consumer it has created before it counts it.          *)
OfferNew(c) ==
  /\ cpc[c] = "grown" /\ Len(consumerQueue) < MaxOpen
  /\ consumerQueue' = Append(consumerQueue, open)
  /\ ClientGoto(c, "offered")
  /\ UNCHANGED <<growVars, queue, todo, pc, doneVars, pointer, blocked, producerVars,
                 spurious>>

ConsumerStep(w) == ConsumerSleep(w) \/ ConsumerExecute(w) \/ Requeue(w)
ProducerStep == ProducerPop \/ ProducerTake \/ ProducerHand \/ ProducerSignal
GrowLock(c) ==
  LockToGrow(c) /\ UNCHANGED <<consumerQueue, pointer, blocked, producerVars, spurious>>
GrowStep(c) ==
  \/ OfferNew(c)
  \/ /\ LookToGrow(c) \/ CreateWorker(c) \/ CountOpen(c, "offered") \/ LeaveOpen(c)
     /\ UNCHANGED <<consumerQueue, pointer, blocked, producerVars, spurious>>

ConsumersNext ==
  \/ \E w \in Worker : ConsumerStep(w) \/ ConsumerSpuriousWake(w)
  \/ ProducerStep
  \/ \E c \in Client :
       \/ GrowLock(c) \/ GrowStep(c)
       \/ \E k \in Task :
            /\ Assign(c, k)
            /\ UNCHANGED <<consumerQueue, pointer, blocked, producerVars, spurious>>

ConsumersSpec == ConsumersInit /\ [][ConsumersNext]_consumerVars

(* A thread that can go on does, tasks end, and a mutex is handed to       *)
(* whoever keeps asking for it.  Nothing makes a client assign.            *)
ConsumersFairSpec ==
  /\ ConsumersSpec
  /\ \A w \in Worker : WF_consumerVars(ConsumerStep(w))
  /\ WF_consumerVars(ProducerStep)
  /\ \A c \in Client : SF_consumerVars(GrowLock(c)) /\ WF_consumerVars(GrowStep(c))

-----------------------------------------------------------------------------

(* Every variable keeps its type.                                          *)
ConsumersTypeOK ==
  /\ ThreadPoolTypeOK
  /\ consumerQueue \in Seq(Worker)
  /\ pointer \in [Worker -> Task \cup {NoTask}]
  /\ blocked \subseteq Worker
  /\ pc \in [Worker -> {"unborn", "enter", "asleep", "requeue"}]
  /\ ppc \in {"pop", "take", "hand", "signal"}
  /\ item \in Task \cup {NoTask}
  /\ chosen \in Worker
  /\ spurious \in 0 .. MaxSpurious

Awake(w) == pc[w] = "asleep" /\ w \notin blocked
Idle(w) == Cardinality({i \in 1 .. Len(consumerQueue) : consumerQueue[i] = w})
Handing(w) == ppc \in {"hand", "signal"} /\ chosen = w

(* A task is handed to one consumer at most, and never goes back into the  *)
(* queue: whatever wakes the consumers, two of them never have it.         *)
HandedOnce ==
  \A k \in Task \ {NullTask} :
    Queued(k) + (IF item = k /\ ppc # "signal" THEN 1 ELSE 0)
      + Cardinality({w \in Worker : pointer[w] = k}) <= IF k \in todo THEN 0 ELSE 1

(* As long as no wakeup is spurious, each task is executed at most once.   *)
AtMostOnce == spurious = 0 => \A k \in Task : runs[k] <= 1

(* Every variable keeps its type.  As long as no wakeup is spurious, a     *)
(* consumer is offered once at most, and the producer does not overwrite   *)
(* the pointer of a consumer that was woken or has not offered itself      *)
(* again.                                                                  *)
OfferedOnce ==
  /\ ConsumersTypeOK
  /\ spurious = 0 => \A w \in Worker :
       /\ Idle(w) <= 1
       /\ Idle(w) = 1 => ~Handing(w)
       /\ Idle(w) = 1 \/ Handing(w) => ~Awake(w) /\ pc[w] # "requeue"

=============================================================================
