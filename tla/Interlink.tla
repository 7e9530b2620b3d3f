------------------------------- MODULE Interlink -------------------------------
(***************************************************************************)
(* Messages between processors (axon/source_old/system/interlink.c): a queue *)
(* per processor under a lock, an interrupt that announces a message, and    *)
(* handlers that run in the interrupt with the lock of the queue held.  A    *)
(* push, with its lock, is a step; so is a turn of the handler's loop, but   *)
(* for the callback in it, which may send messages of its own.  Contexts    *)
(* that wait for a lock in a circle wait for ever; a callback does not send   *)
(* to its own processor, where it would wait for the lock it runs under.     *)
(***************************************************************************)
EXTENDS Integers, Sequences, FiniteSets, Functions

CONSTANTS
  Last,       \* the last processor; the first is 0
  Unreliable, \* the processors that an interrupt may fail to be sent to
  Listening,  \* bound: the processors whose threads set handlers
  Messages    \* bound: the messages in use at a time

Processors == 0 .. Last

(* An entry of the queue that send has made: the first bytes of a message.   *)
Bytes == "bytes"

ASSUME LinkAssumption ==
  /\ Last \in Nat
  /\ IsFiniteSet(Messages) /\ Bytes \notin Messages

VARIABLES
  queue,      \* g_queues: what each processor is yet to handle
  data_counter, \* of the messages that are allocated
  handlers,   \* the processors that have a callback for the messages' type
  sends,      \* the send or broadcast of each processor's thread and callback
  serving,    \* the processors in handle_interrupt, which hold their lock
  calling,    \* those of them that are in a callback
  pending,    \* the processors with an interrupt sent and not taken
  missed,     \* history: those with an entry that could not be announced
  misread      \* memory that is no message was used as one

linkVars == <<queue, data_counter, handlers, sends, serving, calling, pending, missed, misread>>

(* The processors to push the entry to, and the one to interrupt next.       *)
Sending(entry, targets) == [entry |-> entry, left |-> targets, tell |-> {}]

Quiet == Sending(Bytes, {})

Contexts == {"thread", "callback"}

(* axk_interlink_init. *)
LinkInit ==
  /\ queue = [p \in Processors |-> <<>>]
  /\ data_counter = [m \in {} |-> 0]
  /\ handlers = {}
  /\ sends = [p \in Processors |-> [c \in Contexts |-> Quiet]]
  /\ serving = {} /\ calling = {} /\ pending = {} /\ missed = {}
  /\ misread = FALSE

(* The handler interrupts the thread; a callback is a part of the handler.   *)
Runs(p, c) == IF c = "callback" THEN p \in calling ELSE p \notin serving

Begin(p, c, s) ==
  /\ Runs(p, c) /\ sends[p][c] = Quiet
  /\ sends' = [sends EXCEPT ![p][c] = s]
  /\ UNCHANGED <<queue, handlers, serving, calling, pending, missed, misread>>

Targets(p, self) == IF self THEN Processors ELSE Processors \ {p}

InUse(e) ==
  \E p \in Processors :
    \/ e \in Range(queue[p])
    \/ \E c \in Contexts : sends[p][c] # Quiet /\ sends[p][c].entry = e

(* Bound: no more messages in all, those of send included. *)
RoomForOne ==
  Cardinality(DOMAIN data_counter) + (IF InUse(Bytes) THEN 1 ELSE 0) < Cardinality(Messages)

Broadcast(p, c, self) ==
  LET m == CHOOSE n \in Messages : n \notin DOMAIN data_counter
  IN  /\ RoomForOne
      /\ Begin(p, c, Sending(m, Targets(p, self)))
      /\ data_counter' = [n \in DOMAIN data_counter \union {m} |->
                       IF n = m THEN Cardinality(Targets(p, self)) ELSE data_counter[n]]

(* axk_interlink_send pushes the bytes of the message and not its address.   *)
Send(p, c, target) ==
  /\ RoomForOne /\ ~ InUse(Bytes)
  /\ Begin(p, c, Sending(Bytes, {target}))
  /\ UNCHANGED data_counter

(* What is left of a send after a push, and after its interrupt.             *)
Pushed(s, target) == [s EXCEPT !.left = s.left \ {target}, !.tell = {target}]

Told(s) == IF s.left = {} THEN Quiet ELSE [s EXCEPT !.tell = {}]

(* The loop of a broadcast goes up the processors. *)
Push(p, c) ==
  /\ Runs(p, c) /\ sends[p][c].left # {} /\ sends[p][c].tell = {}
  /\ \E target \in sends[p][c].left \ serving :
       /\ \A q \in sends[p][c].left : target <= q
       /\ queue' = [queue EXCEPT ![target] = Append(@, sends[p][c].entry)]
       /\ sends' = [sends EXCEPT ![p][c] = Pushed(@, target)]
  /\ UNCHANGED <<data_counter, handlers, serving, calling, pending, missed, misread>>

(* After a failure send looks for the message's address among the slots of    *)
(* the queue, where it never is; a broadcast leaves the entry in the queue.   *)
Announce(p, c, sent) ==
  /\ Runs(p, c) /\ sends[p][c].tell # {}
  /\ sent \/ sends[p][c].tell \subseteq Unreliable
  /\ LET told == sends[p][c].tell
     IN  IF sent THEN pending' = pending \union told /\ UNCHANGED missed
         ELSE missed' = missed \union told /\ UNCHANGED pending
  /\ sends' = [sends EXCEPT ![p][c] = Told(@)]
  /\ UNCHANGED <<queue, data_counter, handlers, serving, calling, misread>>

SetHandler(p) ==
  /\ p \in Listening /\ Runs(p, "thread") /\ sends[p]["thread"] = Quiet
  /\ \E h \in {handlers \ {p}, handlers \union {p}} : h # handlers /\ handlers' = h
  /\ UNCHANGED <<queue, data_counter, sends, serving, calling, pending, missed, misread>>

-----------------------------------------------------------------------------
(* axk_interlink_handle_interrupt. *)
Interrupted(p) ==
  /\ p \in pending \ serving
  /\ serving' = serving \union {p} /\ pending' = pending \ {p}
  /\ UNCHANGED <<queue, data_counter, handlers, sends, calling, missed, misread>>

AtMessage(p) == p \in serving \ calling /\ queue[p] # <<>>

Call(p) ==
  /\ AtMessage(p) /\ p \in handlers /\ Head(queue[p]) \in DOMAIN data_counter
  /\ calling' = calling \union {p}
  /\ UNCHANGED <<queue, data_counter, handlers, sends, serving, pending, missed, misread>>

(* Mutant: the first to handle a message deletes it. *)
ConsumeAtOnce(p) ==
  /\ data_counter' = [n \in DOMAIN data_counter \ {Head(queue[p])} |-> data_counter[n]]
  /\ queue' = [queue EXCEPT ![p] = Tail(@)]
  /\ UNCHANGED <<handlers, sends, serving, pending, missed, misread>>

(* Whoever takes the counter to zero deletes the message. *)
Consume(p) ==
  LET m == Head(queue[p])
      rest == IF data_counter[m] = 1 THEN DOMAIN data_counter \ {m} ELSE DOMAIN data_counter
  IN  /\ data_counter' = [n \in rest |-> IF n = m THEN data_counter[n] - 1 ELSE data_counter[n]]
      /\ queue' = [queue EXCEPT ![p] = Tail(@)]
      /\ UNCHANGED <<handlers, sends, serving, pending, missed, misread>>

PassOver(p) ==
  /\ AtMessage(p) /\ p \notin handlers /\ Head(queue[p]) \in DOMAIN data_counter
  /\ Consume(p) /\ UNCHANGED calling

CallbackReturns(p) ==
  /\ p \in calling /\ sends[p]["callback"] = Quiet
  /\ calling' = calling \ {p}
  /\ Consume(p)

(* Bytes that are zero are popped; others are taken for an address.          *)
Misread(p) ==
  /\ AtMessage(p) /\ Head(queue[p]) \notin DOMAIN data_counter
  /\ \/ queue' = [queue EXCEPT ![p] = Tail(@)] /\ UNCHANGED misread
     \/ misread' = TRUE /\ UNCHANGED queue
  /\ UNCHANGED <<data_counter, handlers, sends, serving, calling, pending, missed>>

Leave(p) ==
  /\ p \in serving \ calling /\ queue[p] = <<>>
  /\ serving' = serving \ {p} /\ missed' = missed \ {p}
  /\ UNCHANGED <<queue, data_counter, handlers, sends, calling, pending, misread>>

LinkNext ==
  /\ ~ misread
  /\ \E p \in Processors :
       \/ \E c \in Contexts :
            \/ \E self \in {FALSE, c = "thread"} : Broadcast(p, c, self)
            \/ \E target \in Processors : (c = "callback" => target # p) /\ Send(p, c, target)
            \/ Push(p, c)
            \/ \E sent \in BOOLEAN : Announce(p, c, sent)
       \/ SetHandler(p)
       \/ Interrupted(p) \/ Call(p) \/ PassOver(p) \/ CallbackReturns(p) \/ Misread(p) \/ Leave(p)

LinkSpec == LinkInit /\ [][LinkNext]_linkVars

-----------------------------------------------------------------------------
Entries(m) == UNION {{<<p, i>> : i \in {j \in DOMAIN queue[p] : queue[p][j] = m}} : p \in Processors}

PushesLeft(m) ==
  {s \in Processors \X Contexts \X Processors :
     sends[s[1]][s[2]].entry = m /\ s[3] \in sends[s[1]][s[2]].left}

HoldersCounted ==
  \A m \in DOMAIN data_counter :
    data_counter[m] = Cardinality(Entries(m)) + Cardinality(PushesLeft(m))

EntriesAllocated ==
  \A p \in Processors : \A i \in DOMAIN queue[p] :
    queue[p][i] \in DOMAIN data_counter \union {Bytes}

QueuesAttended ==
  \A p \in Processors :
    queue[p] # <<>> =>
      \/ p \in serving \union pending \union missed
      \/ \E q \in Processors, c \in Contexts : p \in sends[q][c].tell

(* A message is freed by the last processor that handles it and by none       *)
(* before, however pushes, interrupts, callbacks and the messages that these  *)
(* send interleave; and a queue that is not empty is being worked on, or will *)
(* be announced, unless its interrupt could not be sent.                      *)
MessagesHeld == HoldersCounted /\ EntriesAllocated /\ QueuesAttended
=============================================================================
