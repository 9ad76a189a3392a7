-------------------------- MODULE CallbackExecutor --------------------------
(***************************************************************************)
(* The bounded pool that runs deferred callbacks.  A keyed callback waits  *)
(* in the queue as one object: a later fire of its key overwrites what the *)
(* object will run.  A worker skips callbacks whose key is running; a full *)
(* queue drops its oldest callback.                                        *)
(*                                                                         *)
(* Each submission is a numbered fire and an object keeps the number of    *)
(* the fire that created it, which is what the pending table refers to.    *)
(***************************************************************************)
EXTENDS Integers, Sequences, SequencesExt

CONSTANTS
  Keys,       \* coalescing keys
  NoKey,      \* submitted without one
  Workers,
  QueueSize,
  MaxFires    \* bound: submissions

ASSUME CallbackAssumption ==
  NoKey \notin Keys /\ QueueSize \in Nat \ {0} /\ MaxFires \in Nat

VARIABLES
  fires,          \* submissions so far
  callbacks,      \* the objects: the key, and the fire each would run now
  queue,          \* objects in order of their place
  pendingByKey,   \* the object a key's next fire overwrites, 0: none
  running,        \* the object each worker runs, 0: idle
  settled         \* fires started, overwritten or dropped

callbackVars == <<fires, callbacks, queue, pendingByKey, running, settled>>

Fires == 1..MaxFires
NoCallback == 0
Callback == [key: Keys \cup {NoKey}, fire: 0..MaxFires]

CallbackTypeOK ==
  /\ fires \in 0..MaxFires
  /\ callbacks \in [Fires -> Callback]
  /\ queue \in Seq(1..fires)
  /\ pendingByKey \in [Keys -> 0..fires]
  /\ running \in [Workers -> 0..fires]
  /\ settled \subseteq 1..fires

CallbackInit ==
  /\ fires = 0
  /\ callbacks = [c \in Fires |-> [key |-> NoKey, fire |-> 0]]
  /\ queue = <<>>
  /\ pendingByKey = [k \in Keys |-> NoCallback]
  /\ running = [w \in Workers |-> NoCallback]
  /\ settled = {}

-----------------------------------------------------------------------------
\* The key already has a callback in the queue: this fire takes its place.
Coalesce(k) ==
  /\ k \in Keys /\ pendingByKey[k] # NoCallback
  /\ fires < MaxFires
  /\ fires' = fires + 1
  /\ callbacks' = [callbacks EXCEPT ![pendingByKey[k]].fire = fires']
  /\ settled' = settled \cup {callbacks[pendingByKey[k]].fire}
  /\ UNCHANGED <<queue, pendingByKey, running>>

Full == Len(queue) >= QueueSize
Dropped == IF Full THEN {Head(queue)} ELSE {}

\* Slip: the key of a dropped callback keeps its entry.
KeepEntry(k) == FALSE

\* The entry of a key whose callback is dropped goes with it.
LosesEntry(k) == pendingByKey[k] \in Dropped

Enqueue(k) ==
  /\ k \in Keys => pendingByKey[k] = NoCallback
  /\ fires < MaxFires
  /\ fires' = fires + 1
  /\ callbacks' = [callbacks EXCEPT ![fires'] = [key |-> k, fire |-> fires']]
  /\ queue' = Append(IF Full THEN Tail(queue) ELSE queue, fires')
  /\ pendingByKey' = [l \in Keys |->
       IF l = k THEN fires'
       ELSE IF LosesEntry(l) THEN NoCallback
       ELSE pendingByKey[l]]
  /\ settled' = settled \cup {callbacks[c].fire : c \in Dropped}
  /\ UNCHANGED running

ActiveKeys == {callbacks[running[w]].key : w \in {v \in Workers : running[v] # NoCallback}}
                \ {NoKey}

Ready(i) == callbacks[queue[i]].key \notin ActiveKeys

\* A worker takes the first callback whose key is not running.
Take(w) ==
  /\ running[w] = NoCallback
  /\ \E i \in DOMAIN queue :
       LET c == queue[i] IN
       /\ Ready(i) /\ \A j \in 1..(i - 1) : ~Ready(j)
       /\ queue' = RemoveAt(queue, i)
       /\ pendingByKey' = [k \in Keys |->
            IF k = callbacks[c].key THEN NoCallback ELSE pendingByKey[k]]
       /\ running' = [running EXCEPT ![w] = c]
       /\ settled' = settled \cup {callbacks[c].fire}
  /\ UNCHANGED <<fires, callbacks>>

\* The callback returned or raised.
Return(w) ==
  /\ running[w] # NoCallback
  /\ running' = [running EXCEPT ![w] = NoCallback]
  /\ UNCHANGED <<fires, callbacks, queue, pendingByKey, settled>>

CallbackNext ==
  \/ \E k \in Keys \cup {NoKey} : Coalesce(k) \/ Enqueue(k)
  \/ \E w \in Workers : Take(w) \/ Return(w)

CallbackSpec == CallbackInit /\ [][CallbackNext]_callbackVars

-----------------------------------------------------------------------------
\* A submitted callback is started, dropped for lack of room or overtaken by
\* a later one of its key; until then an object in the queue still runs it.
NoFireIsForgotten ==
  \A n \in 1..fires : n \notin settled =>
    \E i \in DOMAIN queue : callbacks[queue[i]].fire = n

\* Callbacks of one key never overlap, and at most one waits.
KeysAreSerial ==
  /\ \A v, w \in Workers :
       v # w /\ running[v] # NoCallback /\ running[w] # NoCallback
         /\ callbacks[running[v]].key \in Keys
       => callbacks[running[v]].key # callbacks[running[w]].key
  /\ \A i, j \in DOMAIN queue :
       i # j /\ callbacks[queue[i]].key \in Keys
       => callbacks[queue[i]].key # callbacks[queue[j]].key
=============================================================================
