------------------------------ MODULE UorbNode ------------------------------
(***************************************************************************)
(* One uORB topic instance: uORB::DeviceNode with the Publication and      *)
(* Subscription objects that use it.  Publishers and subscribers are       *)
(* threads; what the code does inside ATOMIC_ENTER ... ATOMIC_LEAVE is one *)
(* step here, and a call that enters it after an unprotected check is two. *)
(*                                                                         *)
(* A message is the number of its publication, 0 the zeroed buffer.  The   *)
(* generation is an unsigned counter modulo Modulus, 2^32 in the code.     *)
(***************************************************************************)
EXTENDS Integers

CONSTANTS
  Publishers,  \* Publication objects
  Readers,     \* Subscription objects
  QueueSizes,  \* values of o_queue, fixed for a topic
  Modulus,     \* number of generations before the counter wraps
  Required,    \* set_required_updates()
  MaxPubs,     \* bound on the number of publications
  NoData       \* _data is a nullptr

VARIABLES
  queue,       \* o_queue of this topic, never assigned
  exists,      \* the DeviceMaster has created the node
  advertised,  \* _advertised
  data,        \* _data
  dataValid,   \* _data_valid
  generation,  \* _generation
  callbacks,   \* _callbacks
  handle,      \* [Publishers -> _handle is set]
  pub,         \* [Publishers -> step of publish()]
  sub,         \* [Readers -> subscription]
  pending,     \* readers whose work item is scheduled
  published    \* number of publications

nodeVars == <<exists, advertised, data, dataValid, generation, callbacks, published>>
vars == <<queue, nodeVars, handle, pub, sub, pending>>

Slots       == 0..(queue - 1)
Messages    == 0..MaxPubs
Generations == 0..(Modulus - 1)
Zeroed      == [s \in Slots |-> 0]

(* call: the call in progress, "update" or "copy" past its checks;         *)
(* scheduled: _last_scheduled_generation; got: the message returned last.  *)
Subscriptions == [node : BOOLEAN, gen : Generations, scheduled : Generations,
                  call : {"none", "update", "copy"}, got : Messages]
Unsubscribed == [node |-> FALSE, gen |-> 0, scheduled |-> 0, call |-> "none",
                 got |-> 0]

(* Every ORB_QUEUE_LENGTH in msg/ is a power of two.                       *)
ASSUME UorbConstants ==
  /\ QueueSizes \subseteq Nat \ {0} /\ Modulus \in Nat
  /\ \A n \in QueueSizes : n < Modulus /\ Modulus % n = 0
  /\ Required \in 0..(Modulus - 1)
  /\ MaxPubs \in Nat
  /\ \A n \in QueueSizes : NoData \notin [0..(n - 1) -> Messages]

(* Unsigned arithmetic.                                                    *)
Plus(a, b)  == (a + b) % Modulus
Minus(a, b) == (a - b) % Modulus
-----------------------------------------------------------------------------
(* Mutant: no special case for a range that wraps. *)
is_in_range_NoWrap(left, value, right) == left <= value /\ value <= right

is_in_range(left, value, right) ==
  IF right > left THEN left <= value /\ value <= right
                  ELSE left <= value \/ value <= right

(* The generation copy() reads for a subscriber at gen: the latest again   *)
(* if there is nothing new, the oldest if the reader is too far behind.    *)
ReadGeneration(gen) ==
  LET g == IF generation = gen THEN Minus(gen, 1) ELSE gen
  IN  IF is_in_range(Minus(generation, queue), g, Minus(generation, 1))
      THEN g ELSE Minus(generation, queue)

(* Mutant: a new subscriber is always set one message back. *)
get_initial_generation_Always == Minus(generation, 1)

get_initial_generation == Minus(generation, IF dataValid THEN 1 ELSE 0)

updates_available(gen) == Minus(generation, gen)

(* Mutant: the count gate compares without wrap-around. *)
Gate_NoWrap(g, scheduled) == g - scheduled >= Required

(* The count gate of SubscriptionCallbackWorkItem::call().                 *)
Gate(g, scheduled) == Minus(g, scheduled) >= Required
-----------------------------------------------------------------------------
Init ==
  /\ queue \in QueueSizes
  /\ exists = FALSE /\ advertised = FALSE
  /\ data = NoData /\ dataValid = FALSE /\ generation = 0
  /\ callbacks = {}
  /\ handle = [p \in Publishers |-> FALSE]
  /\ pub = [p \in Publishers |-> "idle"]
  /\ sub = [r \in Readers |-> Unsubscribed]
  /\ pending = {}
  /\ published = 0

(* Mutant: write() does not allocate the buffer. *)
Publish_NoAllocation(p) ==
  /\ pub[p] = "idle"
  /\ handle' = [handle EXCEPT ![p] = TRUE]
  /\ exists' = TRUE
  /\ advertised' = (advertised \/ ~handle[p])
  /\ pub' = [pub EXCEPT ![p] = "write"]
  /\ UNCHANGED <<data, dataValid, generation, callbacks, published, sub, pending>>

(* publish(): advertise unless that was done, then write() checks _data.   *)
Publish(p) ==
  /\ pub[p] = "idle"
  /\ handle' = [handle EXCEPT ![p] = TRUE]
  /\ exists' = TRUE
  /\ advertised' = (advertised \/ ~handle[p])
  /\ pub' = [pub EXCEPT ![p] = IF data = NoData THEN "allocate" ELSE "write"]
  /\ UNCHANGED <<data, dataValid, generation, callbacks, published, sub, pending>>

(* Mutant: the pointer is not checked again under the lock. *)
Buffer_NoRecheck == Zeroed

(* The lazily allocated buffer, checked again under the node's lock.       *)
Buffer == IF data = NoData THEN Zeroed ELSE data

Allocate(p) ==
  /\ pub[p] = "allocate"
  /\ data' = Buffer
  /\ pub' = [pub EXCEPT ![p] = "write"]
  /\ UNCHANGED <<exists, advertised, dataValid, generation, callbacks, published,
                 handle, sub, pending>>

(* -ENOMEM.                                                                *)
AllocateFails(p) ==
  /\ pub[p] = "allocate" /\ data = NoData
  /\ pub' = [pub EXCEPT ![p] = "idle"]
  /\ UNCHANGED <<nodeVars, handle, sub, pending>>

(* The atomic part of write(), with the callbacks it runs.                 *)
Write(p) ==
  LET g   == Plus(generation, 1)
      due == {r \in callbacks : Gate(g, sub[r].scheduled)}
  IN  /\ pub[p] = "write" /\ published < MaxPubs
      /\ generation' = g
      /\ data' = [data EXCEPT ![generation % queue] = published + 1]
      /\ published' = published + 1
      /\ dataValid' = TRUE
      /\ sub' = [r \in Readers |->
                  IF r \in due THEN [sub[r] EXCEPT !.scheduled = g] ELSE sub[r]]
      /\ pending' = pending \cup due
      /\ pub' = [pub EXCEPT ![p] = "idle"]
      /\ UNCHANGED <<exists, advertised, callbacks, handle>>

(* ~PublicationBase(), and a new object in its place.  A queued topic is   *)
(* unadvertised only by owners that ask for it.                            *)
DestroyPublication(p) ==
  /\ pub[p] = "idle" /\ handle[p]
  /\ handle' = [handle EXCEPT ![p] = FALSE]
  /\ advertised' \in IF queue = 1 THEN {FALSE} ELSE {FALSE, advertised}
  /\ UNCHANGED <<exists, data, dataValid, generation, callbacks, published, pub,
                 sub, pending>>
-----------------------------------------------------------------------------
Subscribed(s) == [s EXCEPT !.node = TRUE, !.gen = get_initial_generation]

(* subscribe(): succeeds once the node exists.                             *)
Subscribe(r) ==
  /\ ~sub[r].node /\ exists
  /\ sub' = [sub EXCEPT ![r] = Subscribed(@)]
  /\ UNCHANGED <<nodeVars, handle, pub, pending>>

(* ~Subscription(), and a new object in its place.                         *)
DestroySubscription(r) ==
  /\ sub[r].node /\ sub[r].call = "none" /\ r \notin callbacks
  /\ sub' = [sub EXCEPT ![r] = [Unsubscribed EXCEPT !.got = sub[r].got]]
  /\ UNCHANGED <<nodeVars, handle, pub, pending>>

(* registerCallback() creates the node if there is none.                   *)
RegisterCallback(r) ==
  /\ r \notin callbacks
  /\ exists' = TRUE
  /\ sub' = [sub EXCEPT ![r] = IF @.node THEN @ ELSE Subscribed(@)]
  /\ callbacks' = callbacks \cup {r}
  /\ UNCHANGED <<advertised, data, dataValid, generation, published, handle, pub,
                 pending>>

UnregisterCallback(r) ==
  /\ r \in callbacks
  /\ callbacks' = callbacks \ {r}
  /\ UNCHANGED <<exists, advertised, data, dataValid, generation, published,
                 handle, pub, sub, pending>>

(* The work queue runs the scheduled item.                                 *)
RunItem(r) ==
  /\ r \in pending /\ pending' = pending \ {r}
  /\ UNCHANGED <<nodeVars, handle, pub, sub>>

(* orb_data_copy() past its checks, on behalf of update() or copy().       *)
StartUpdate(r) ==
  /\ sub[r].node /\ sub[r].call = "none" /\ advertised
  /\ updates_available(sub[r].gen) # 0
  /\ sub' = [sub EXCEPT ![r].call = "update"]
  /\ UNCHANGED <<nodeVars, handle, pub, pending>>

StartCopy(r) ==
  /\ sub[r].node /\ sub[r].call = "none" /\ advertised
  /\ sub' = [sub EXCEPT ![r].call = "copy"]
  /\ UNCHANGED <<nodeVars, handle, pub, pending>>

(* The atomic part of DeviceNode::copy().                                  *)
Copied(s) ==
  IF queue = 1
  THEN [s EXCEPT !.call = "none", !.got = data[0], !.gen = generation]
  ELSE LET g == ReadGeneration(s.gen)
       IN  [s EXCEPT !.call = "none", !.got = data[g % queue], !.gen = Plus(g, 1)]

Copy(r) ==
  /\ sub[r].call # "none"
  /\ sub' = [sub EXCEPT ![r] =
              IF data = NoData THEN [@ EXCEPT !.call = "none"] ELSE Copied(@)]
  /\ UNCHANGED <<nodeVars, handle, pub, pending>>

PublisherNext(p) ==
  Publish(p) \/ Allocate(p) \/ AllocateFails(p) \/ Write(p) \/ DestroyPublication(p)

ReaderNext(r) ==
  \/ Subscribe(r) \/ DestroySubscription(r)
  \/ RegisterCallback(r) \/ UnregisterCallback(r) \/ RunItem(r)
  \/ StartUpdate(r) \/ StartCopy(r) \/ Copy(r)

Next ==
  /\ (\E p \in Publishers : PublisherNext(p)) \/ (\E r \in Readers : ReaderNext(r))
  /\ UNCHANGED queue

Spec == Init /\ [][Next]_vars
-----------------------------------------------------------------------------
(* Every variable stays in its type; in particular no one writes through a *)
(* null pointer.                                                           *)
TypeOK ==
  /\ queue \in QueueSizes
  /\ exists \in BOOLEAN /\ advertised \in BOOLEAN /\ dataValid \in BOOLEAN
  /\ data \in [Slots -> Messages] \cup {NoData}
  /\ generation \in Generations
  /\ callbacks \subseteq Readers /\ pending \subseteq Readers
  /\ handle \in [Publishers -> BOOLEAN]
  /\ pub \in [Publishers -> {"idle", "allocate", "write"}]
  /\ sub \in [Readers -> Subscriptions]
  /\ published \in Messages
  /\ \A p \in Publishers : pub[p] = "write" => data # NoData
=============================================================================
