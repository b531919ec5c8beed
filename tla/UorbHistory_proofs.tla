------------------------- MODULE UorbHistory_proofs -------------------------
(***************************************************************************)
(* Proofs about a uORB topic instance: for any publishers, readers, queue  *)
(* lengths and any width of the generation counter, the ring buffer with   *)
(* its wrapping counters implements the message log.                       *)
(***************************************************************************)
EXTENDS UorbHistory, TLAPS

(* The ring holds the last messages, each in the slot of its number, and   *)
(* the generation is the number of publications, wrapped.                  *)
Kept == \A m \in 1..published : m + queue > published => data[(m - 1) % queue] = m
Numbers ==
  /\ generation = published % Modulus
  /\ dataValid <=> published > 0
  /\ published > 0 => data # NoData
  /\ data # NoData => Kept /\ (published = 0 => data = Zeroed)

(* A subscription's generation is its cursor, wrapped, less than a wrap    *)
(* behind; a call of update() past its checks has a message to return.     *)
Cursor(r) ==
  /\ sub[r].node => /\ sub[r].gen = seen[r] % Modulus
                    /\ seen[r] <= published /\ published - seen[r] < Modulus
  /\ sub[r].call # "none" => sub[r].node
  /\ sub[r].call = "update" => seen[r] < published

(* The count gate has counted every publication that did not schedule, but *)
(* the first after the registration.                                       *)
Gated(r) ==
  r \in callbacks /\ missed[r] > 0 =>
    /\ Minus(generation, sub[r].scheduled) >= missed[r] - 1
    /\ Minus(generation, sub[r].scheduled) < Required

HistoryType == seen \in [Readers -> Nat] /\ missed \in [Readers -> Nat]

LogInv == TypeOK /\ HistoryType /\ Numbers /\ \A r \in Readers : Cursor(r)
GateInv == CallbackNotStarved /\ \A r \in Readers : Gated(r)
-----------------------------------------------------------------------------

(***************************************************************************)
(* Unsigned arithmetic.                                                    *)
(***************************************************************************)
LEMMA ModFacts ==
  ASSUME NEW a \in Int, NEW m \in Nat \ {0}
  PROVE  a % m \in 0..(m - 1) /\ a \div m \in Int /\ a = m * (a \div m) + (a % m)
  OBVIOUS

(* A remainder is the only one.                                            *)
LEMMA ModUnique ==
  ASSUME NEW m \in Nat \ {0}, NEW k \in Int, NEW r \in 0..(m - 1), NEW a \in Int,
         a = m * k + r
  PROVE  a % m = r
  OBVIOUS

(* Counting on a wrapped counter, or on the number it stands for.          *)
LEMMA ModPlus ==
  ASSUME NEW a \in Int, NEW b \in Int, NEW m \in Nat \ {0}
  PROVE  ((a % m) + b) % m = (a + b) % m
<1> DEFINE k == a \div m
           c == (a % m) + b
           j == c \div m
<1>1. k \in Int /\ a = m * k + (a % m) /\ a % m \in Int
  BY ModFacts
<1>2. c \in Int
  BY <1>1
<1>3. j \in Int /\ c = m * j + (c % m) /\ c % m \in 0..(m - 1)
  BY <1>2, ModFacts
<1>4. a + b = m * (j + k) + (c % m)
  BY <1>1, <1>2, <1>3
<1> HIDE DEF k, c, j
<1>5. j + k \in Int /\ a + b \in Int
  BY <1>1, <1>3
<1>6. (a + b) % m = c % m
  BY <1>3, <1>4, <1>5, ModUnique
<1> QED
  BY <1>6 DEF c

(* The slot of a wrapped counter is the slot of its number, because the    *)
(* queue length divides the number of generations.                         *)
LEMMA ModMod ==
  ASSUME NEW a \in Int, NEW m \in Nat \ {0}, NEW n \in Nat \ {0}, m % n = 0
  PROVE  (a % m) % n = a % n
<1> DEFINE k == a \div m
           c == m \div n
           b == a % m
           j == b \div n
           r == b % n
           i == c * k + j
<1>1. k \in Int /\ a = m * k + b /\ b \in Int
  BY ModFacts
<1>2. c \in Int /\ m = n * c
  BY ModFacts
<1>3. j \in Int /\ b = n * j + r /\ r \in 0..(n - 1)
  BY <1>1, ModFacts
<1> HIDE DEF k, c, b, j, r
<1>4. a = n * i + r /\ i \in Int
  BY <1>1, <1>2, <1>3
<1> HIDE DEF i
<1>5. a % n = r
  BY <1>3, <1>4, ModUnique
<1> QED
  BY <1>5 DEF b, r

(* The distance of two numbers less than a wrap apart, from their          *)
(* remainders.                                                             *)
LEMMA ModCases ==
  ASSUME NEW a \in Int, NEW b \in Int, NEW m \in Nat \ {0}, 0 <= a - b, a - b < m
  PROVE  \/ a % m >= b % m /\ a - b = (a % m) - (b % m)
         \/ a % m < b % m /\ a - b = m + (a % m) - (b % m)
<1> DEFINE k == (a \div m) - (b \div m)
           x == a % m
           y == b % m
<1>1. k \in Int /\ a - b = m * k + x - y /\ x \in 0..(m - 1) /\ y \in 0..(m - 1)
  BY ModFacts
<1> HIDE DEF k, x, y
<1>2. k = 0 \/ k = 1
  BY <1>1
<1>3. CASE k = 0
  BY <1>1, <1>3 DEF x, y
<1>4. CASE k = 1
  BY <1>1, <1>4 DEF x, y
<1> QED
  BY <1>2, <1>3, <1>4

(* Different numbers in a window of the queue's length have different      *)
(* slots.                                                                  *)
LEMMA ModDiffer ==
  ASSUME NEW a \in Int, NEW b \in Int, NEW m \in Nat \ {0}, a < b, b - a < m
  PROVE  a % m # b % m
<1>1. 0 <= b - a
  OBVIOUS
<1> DEFINE x == a % m
           y == b % m
<1>2. x \in Int /\ y \in Int
  BY ModFacts
<1>3. b - a = y - x \/ b - a = m + y - x
  BY <1>1, ModCases
<1> HIDE DEF x, y
<1>4. x # y
  BY <1>2, <1>3
<1> QED
  BY <1>4 DEF x, y
-----------------------------------------------------------------------------
(* The constants of a topic.                                               *)
LEMMA QueueFacts ==
  ASSUME queue \in QueueSizes
  PROVE  /\ queue \in Nat \ {0} /\ Modulus \in Nat \ {0}
         /\ queue < Modulus /\ Modulus % queue = 0
         /\ NoData \notin [Slots -> Messages]
  BY UorbConstants DEF Slots

(* Counters stay counters.                                                 *)
LEMMA CounterType ==
  ASSUME NEW a \in Int, NEW b \in Int, Modulus \in Nat \ {0}
  PROVE  Plus(a, b) \in Generations /\ Minus(a, b) \in Generations
<1>1. a + b \in Int /\ a - b \in Int
  OBVIOUS
<1> QED
  BY <1>1, ModFacts DEF Plus, Minus, Generations

(* What copy() leaves in a subscription has its type.                      *)
LEMMA CopiedType ==
  ASSUME TypeOK, data # NoData, NEW s \in Subscriptions
  PROVE  Copied(s) \in Subscriptions
<1>1. /\ queue \in Nat \ {0} /\ Modulus \in Nat \ {0} /\ data \in [Slots -> Messages]
      /\ generation \in Int /\ s.gen \in Int /\ generation \in Generations
  BY QueueFacts DEF TypeOK, Generations, Subscriptions
<1>2. CASE queue = 1
  <2>1. 0 \in Slots
    BY <1>2 DEF Slots
  <2>2. data[0] \in Messages
    BY <1>1, <2>1
  <2> QED
    BY <1>1, <1>2, <2>2 DEF Copied, Subscriptions
<1>3. CASE queue # 1
  <2> DEFINE g == ReadGeneration(s.gen)
  <2>1. g \in Generations /\ g \in Int
    <3>1. Minus(s.gen, 1) \in Generations /\ Minus(generation, queue) \in Generations
      BY <1>1, CounterType
    <3>2. s.gen \in Generations
      BY DEF Subscriptions
    <3> QED
      BY <3>1, <3>2 DEF ReadGeneration, Generations
  <2> HIDE DEF g
  <2>2. g % queue \in Slots
    BY <1>1, <2>1, ModFacts DEF Slots
  <2>3. data[g % queue] \in Messages /\ Plus(g, 1) \in Generations
    BY <1>1, <2>1, <2>2, CounterType
  <2> QED
    BY <1>3, <2>3 DEF Copied, Subscriptions, g
<1> QED
  BY <1>2, <1>3

(* subscribe() sets a generation that exists.                              *)
LEMMA SubscribedType ==
  ASSUME TypeOK, NEW s \in Subscriptions
  PROVE  Subscribed(s) \in Subscriptions
<1>1. Modulus \in Nat \ {0} /\ generation \in Int
  BY QueueFacts DEF TypeOK, Generations
<1>2. get_initial_generation \in Generations
  BY <1>1, CounterType DEF get_initial_generation
<1> QED
  BY <1>2 DEF Subscribed, Subscriptions
-----------------------------------------------------------------------------
(* Every step of a publisher keeps the types.                              *)
LEMMA PublisherType ==
  ASSUME TypeOK, NEW p \in Publishers, PublisherNext(p), UNCHANGED queue
  PROVE  TypeOK'
<1>1. /\ queue \in Nat \ {0} /\ Modulus \in Nat \ {0} /\ MaxPubs \in Nat
      /\ NoData \notin [Slots -> Messages] /\ Slots' = Slots
  BY QueueFacts, UorbConstants DEF TypeOK, Slots
<1>2. CASE Publish(p)
  BY <1>1, <1>2 DEF TypeOK, Publish
<1>3. CASE Allocate(p)
  <2>1. Zeroed \in [Slots -> Messages]
    BY <1>1 DEF Zeroed, Messages
  <2>2. data' \in [Slots -> Messages]
    BY <1>3, <2>1 DEF TypeOK, Allocate, Buffer
  <2> QED
    BY <1>1, <1>3, <2>2 DEF TypeOK, Allocate
<1>4. CASE AllocateFails(p)
  BY <1>1, <1>4 DEF TypeOK, AllocateFails, nodeVars
<1>5. CASE Write(p)
  <2>1. data \in [Slots -> Messages] /\ published + 1 \in Messages
    BY <1>1, <1>5 DEF TypeOK, Write, Messages
  <2>2. data' \in [Slots -> Messages]
    BY <1>5, <2>1 DEF Write
  <2>3. generation' \in Generations
    BY <1>1, <1>5, CounterType DEF Write, TypeOK, Generations
  <2>4. sub' \in [Readers -> Subscriptions]
    BY <1>5, <2>3 DEF Write, TypeOK, Subscriptions
  <2>5. /\ exists' = exists /\ advertised' = advertised /\ callbacks' = callbacks
        /\ handle' = handle /\ published' = published + 1 /\ dataValid' = TRUE
        /\ pub' = [pub EXCEPT ![p] = "idle"] /\ pending' \subseteq Readers
    BY <1>5 DEF Write, TypeOK
  <2> QED
    BY <1>1, <2>1, <2>2, <2>3, <2>4, <2>5 DEF TypeOK
<1>6. CASE DestroyPublication(p)
  BY <1>1, <1>6 DEF TypeOK, DestroyPublication
<1> QED
  BY <1>2, <1>3, <1>4, <1>5, <1>6 DEF PublisherNext

(* Every step of a reader keeps the types.                                 *)
LEMMA ReaderType ==
  ASSUME TypeOK, NEW r \in Readers, ReaderNext(r), UNCHANGED queue
  PROVE  TypeOK'
<1>1. Slots' = Slots /\ sub[r] \in Subscriptions /\ Subscribed(sub[r]) \in Subscriptions
  BY SubscribedType DEF TypeOK, Slots
<1>2. CASE Subscribe(r)
  BY <1>1, <1>2 DEF TypeOK, Subscribe, nodeVars
<1>3. CASE DestroySubscription(r)
  <2>1. Modulus \in Nat \ {0}
    BY QueueFacts DEF TypeOK
  <2>2. sub[r].got \in Messages /\ 0 \in Generations /\ 0 \in Messages
    BY <1>1, <2>1, UorbConstants DEF Subscriptions, Generations, Messages
  <2>3. Unsubscribed \in Subscriptions
    BY <2>2 DEF Unsubscribed, Subscriptions
  <2>4. [Unsubscribed EXCEPT !.got = sub[r].got] \in Subscriptions
    BY <2>2, <2>3 DEF Subscriptions
  <2> QED
    BY <1>1, <1>3, <2>4 DEF TypeOK, DestroySubscription, nodeVars
<1>4. CASE RegisterCallback(r)
  BY <1>1, <1>4 DEF TypeOK, RegisterCallback
<1>5. CASE UnregisterCallback(r)
  BY <1>1, <1>5 DEF TypeOK, UnregisterCallback
<1>6. CASE RunItem(r)
  BY <1>1, <1>6 DEF TypeOK, RunItem, nodeVars
<1>7. CASE StartUpdate(r) \/ StartCopy(r)
  BY <1>1, <1>7 DEF TypeOK, StartUpdate, StartCopy, nodeVars, Subscriptions
<1>8. CASE Copy(r)
  <2>1. [sub[r] EXCEPT !.call = "none"] \in Subscriptions
    BY <1>1 DEF Subscriptions
  <2>2. data # NoData => Copied(sub[r]) \in Subscriptions
    BY <1>1, CopiedType
  <2>3. sub' \in [Readers -> Subscriptions]
    BY <1>8, <2>1, <2>2 DEF Copy, TypeOK
  <2> QED
    BY <1>1, <1>8, <2>3 DEF TypeOK, Copy, nodeVars
<1> QED
  BY <1>2, <1>3, <1>4, <1>5, <1>6, <1>7, <1>8 DEF ReaderNext

LEMMA InitType == Init => TypeOK
<1> SUFFICES ASSUME Init PROVE TypeOK
  OBVIOUS
<1>1. Modulus \in Nat \ {0} /\ MaxPubs \in Nat
  BY QueueFacts, UorbConstants DEF Init
<1>2. 0 \in Generations /\ 0 \in Messages
  BY <1>1 DEF Generations, Messages
<1>3. Unsubscribed \in Subscriptions
  BY <1>2 DEF Unsubscribed, Subscriptions
<1>4. sub \in [Readers -> Subscriptions]
  BY <1>3 DEF Init
<1>5. /\ handle \in [Publishers -> BOOLEAN]
      /\ pub \in [Publishers -> {"idle", "allocate", "write"}]
      /\ \A p \in Publishers : pub[p] = "write" => data # NoData
  BY DEF Init
<1> QED
  BY <1>2, <1>4, <1>5 DEF Init, TypeOK

LEMMA NextType ==
  ASSUME TypeOK, [Next]_vars
  PROVE  TypeOK'
<1>1. CASE Next
  BY <1>1, PublisherType, ReaderType DEF Next
<1>2. CASE UNCHANGED vars
  BY <1>2 DEF vars, nodeVars, TypeOK, Slots
<1> QED
  BY <1>1, <1>2

(* Every variable of the node, its publishers and its subscriptions stays  *)
(* in its type; in particular no publisher writes through a null pointer,  *)
(* however many of them allocate the buffer at once.                       *)
THEOREM UorbTypeCorrectness == Spec => []TypeOK
<1>1. TypeOK /\ [Next]_vars => TypeOK'
  BY NextType
<1> QED
  BY <1>1, InitType, PTL DEF Spec
-----------------------------------------------------------------------------
(* A step that leaves counters and buffer alone leaves Numbers alone.      *)
LEMMA NumbersKept ==
  ASSUME Numbers, UNCHANGED <<queue, data, dataValid, generation, published>>
  PROVE  Numbers'
  BY DEF Numbers, Kept, Zeroed, Slots

(* A publication goes into the slot of the oldest message.                 *)
LEMMA WriteNumbers ==
  ASSUME TypeOK, Numbers, NEW p \in Publishers, Write(p), UNCHANGED queue
  PROVE  Numbers'
<1> DEFINE P == published
<1>1. /\ queue \in Nat \ {0} /\ Modulus \in Nat \ {0} /\ Modulus % queue = 0 /\ P \in Nat
  BY QueueFacts DEF TypeOK, Messages
<1>2. /\ data \in [Slots -> Messages] /\ Kept /\ generation = P % Modulus
  BY DEF TypeOK, Write, Numbers
<1>3. /\ published' = P + 1 /\ dataValid' = TRUE
      /\ generation' = Plus(generation, 1)
      /\ data' = [data EXCEPT ![generation % queue] = P + 1]
  BY DEF Write
<1>4. generation' = (P + 1) % Modulus
  <2>1. P \in Int /\ 1 \in Int /\ Modulus \in Nat \ {0}
    BY <1>1
  <2>2. ((P % Modulus) + 1) % Modulus = (P + 1) % Modulus
    BY <2>1, ModPlus, Zenon
  <2> QED
    BY <1>2, <1>3, <2>2, Zenon DEF Plus
<1>5. generation % queue = P % queue /\ P % queue \in Slots
  <2>1. P \in Int /\ Modulus \in Nat \ {0} /\ queue \in Nat \ {0} /\ Modulus % queue = 0
    BY <1>1
  <2>2. (P % Modulus) % queue = P % queue
    BY <2>1, ModMod, Zenon
  <2>3. P % queue \in Slots
    BY <2>1, ModFacts, Zenon DEF Slots
  <2> QED
    BY <1>2, <2>2, <2>3, Zenon
<1>6. data' \in [Slots -> Messages \cup {P + 1}] /\ data'[P % queue] = P + 1
  BY <1>2, <1>3, <1>5
<1>7. ASSUME NEW m \in 1..P + 1, m + queue > P + 1
      PROVE  data'[(m - 1) % queue] = m
  <2>1. CASE m = P + 1
    BY <1>1, <1>6, <2>1
  <2>2. CASE m # P + 1
    <3>1. m \in 1..P /\ m + queue > P /\ m - 1 \in Int /\ m - 1 < P /\ P - (m - 1) < queue
      BY <1>1, <1>7, <2>2
    <3>2. data[(m - 1) % queue] = m
      BY <1>2, <3>1 DEF Kept
    <3>3. (m - 1) % queue # P % queue
      <4>1. P \in Int /\ queue \in Nat \ {0}
        BY <1>1
      <4> QED
        BY <3>1, <4>1, ModDiffer, Zenon
    <3>4. (m - 1) % queue \in Slots
      BY <1>1, <3>1, ModFacts DEF Slots
    <3> QED
      BY <1>2, <1>3, <1>5, <3>2, <3>3, <3>4
  <2> QED
    BY <2>1, <2>2
<1>8. data' # NoData
  BY PublisherType, QueueFacts DEF PublisherNext, TypeOK, Write
<1>9. Kept'
  BY <1>3, <1>7 DEF Kept
<1> QED
  BY <1>1, <1>3, <1>4, <1>8, <1>9 DEF Numbers

LEMMA AllocateNumbers ==
  ASSUME TypeOK, Numbers, NEW p \in Publishers, Allocate(p), UNCHANGED queue
  PROVE  Numbers'
<1>1. /\ UNCHANGED <<generation, dataValid, published>>
      /\ data' = IF data = NoData THEN Zeroed ELSE data
  BY DEF Allocate, Buffer
<1>2. CASE data # NoData
  BY <1>1, <1>2, NumbersKept
<1>3. CASE data = NoData
  <2>1. published = 0 /\ Zeroed' = Zeroed
    BY <1>3 DEF Numbers, TypeOK, Messages, Zeroed, Slots
  <2>2. Kept'
    BY <1>1, <2>1 DEF Kept
  <2> QED
    BY <1>1, <1>3, <2>1, <2>2 DEF Numbers
<1> QED
  BY <1>2, <1>3
-----------------------------------------------------------------------------
(* is_in_range() on wrapped counters: less than a wrap below the right end,*)
(* a number is in the range if it is not below the left end.               *)
LEMMA RangeOfRing ==
  ASSUME NEW l \in Int, NEW v \in Int, NEW h \in Int, NEW m \in Nat \ {0},
         l < h, h - l < m, v <= h, h - v < m
  PROVE  is_in_range(l % m, v % m, h % m) <=> v >= l
<1> DEFINE x == l % m
           y == v % m
           z == h % m
<1>1. x \in 0..(m - 1) /\ y \in 0..(m - 1) /\ z \in 0..(m - 1)
  BY ModFacts
<1>2. /\ 0 <= h - l /\ 0 <= h - v
      /\ v >= l => 0 <= v - l /\ v - l < m
      /\ v < l => 0 <= l - v /\ l - v < m
  OBVIOUS
<1>3. (z >= x /\ h - l = z - x) \/ (z < x /\ h - l = m + z - x)
  BY <1>2, ModCases, Zenon
<1>4. (z >= y /\ h - v = z - y) \/ (z < y /\ h - v = m + z - y)
  BY <1>2, ModCases, Zenon
<1>5. CASE v >= l
  <2>1. (y >= x /\ v - l = y - x) \/ (y < x /\ v - l = m + y - x)
    BY <1>2, <1>5, ModCases, Zenon
  <2> HIDE DEF x, y, z
  <2>2. is_in_range(x, y, z)
    BY <1>1, <1>3, <1>4, <1>5, <2>1 DEF is_in_range
  <2> QED
    BY <1>5, <2>2 DEF x, y, z
<1>6. CASE v < l
  <2>1. (x >= y /\ l - v = x - y) \/ (x < y /\ l - v = m + x - y)
    BY <1>2, <1>6, ModCases, Zenon
  <2> HIDE DEF x, y, z
  <2>2. ~is_in_range(x, y, z)
    BY <1>1, <1>3, <1>4, <1>6, <2>1 DEF is_in_range
  <2>3. ~(v >= l)
    BY <1>6
  <2> QED
    BY <2>2, <2>3 DEF x, y, z
<1> QED
  BY <1>5, <1>6

(* The number of the message that copy() returns.                          *)
Reads(r) == IF seen[r] < published THEN Log!Following(seen[r]) ELSE published

(* It is a message the ring still holds, and a new one if there is one.    *)
LEMMA ReadsFacts ==
  ASSUME TypeOK, HistoryType, NEW r \in Readers, Cursor(r), sub[r].node
  PROVE  /\ Reads(r) \in 0..published
         /\ Reads(r) + queue > published
         /\ seen[r] < published => Reads(r) > seen[r]
         /\ published > 0 => Reads(r) > 0
         /\ published - Reads(r) < Modulus
<1>1. /\ queue \in Nat \ {0} /\ Modulus \in Nat \ {0} /\ published \in Nat
      /\ seen[r] \in Nat /\ seen[r] <= published /\ queue < Modulus
  BY QueueFacts DEF TypeOK, Messages, HistoryType, Cursor
<1> QED
  BY <1>1 DEF Reads, Log!Following

(* The slot it is in.                                                      *)
LEMMA KeptMessage ==
  ASSUME TypeOK, Numbers, data # NoData,
         NEW m \in 0..published, m + queue > published, published > 0 => m > 0
  PROVE  data[(m - 1) % queue] = m
<1>1. queue \in Nat \ {0} /\ published \in Nat
  BY QueueFacts DEF TypeOK, Messages
<1>2. CASE published > 0
  <2>1. m \in 1..published
    BY <1>1, <1>2
  <2> QED
    BY <2>1 DEF Numbers, Kept
<1>3. CASE published = 0
  <2>1. m = 0 /\ m - 1 \in Int /\ data = Zeroed
    BY <1>1, <1>3 DEF Numbers
  <2>2. (m - 1) % queue \in Slots
    BY <1>1, <2>1, ModFacts, Zenon DEF Slots
  <2> QED
    BY <2>1, <2>2, Zenon DEF Zeroed
<1> QED
  BY <1>1, <1>2, <1>3

(* The generation copy() reads is the one of that message.                 *)
LEMMA ReadsGeneration ==
  ASSUME TypeOK, HistoryType, Numbers, NEW r \in Readers, Cursor(r), sub[r].node,
         queue # 1
  PROVE  ReadGeneration(sub[r].gen) = (Reads(r) - 1) % Modulus
<1> DEFINE P == published
           c == seen[r]
           M == Modulus
<1>1. /\ queue \in Nat \ {0} /\ M \in Nat \ {0} /\ P \in Int /\ 1 \in Int /\ P \in Nat
      /\ c \in Int /\ c \in Nat /\ c <= P /\ P - c < M /\ queue < M /\ queue \in Int
  BY QueueFacts DEF TypeOK, Messages, HistoryType, Cursor
<1>2. generation = P % M /\ sub[r].gen = c % M
  BY DEF Numbers, Cursor
<1>3. ((P % M) + (-1)) % M = (P + (-1)) % M /\ ((P % M) + (-queue)) % M = (P + (-queue)) % M
  <2>1. -1 \in Int /\ -queue \in Int
    BY <1>1
  <2> QED
    BY <1>1, <2>1, ModPlus, Zenon
<1>4. P % M \in Int
  BY <1>1, ModFacts
<1>5. Minus(generation, 1) = (P - 1) % M /\ Minus(generation, queue) = (P - queue) % M
  BY <1>1, <1>2, <1>3, <1>4 DEF Minus
<1>6. is_in_range((P - queue) % M, (P - 1) % M, (P - 1) % M)
  <2>1. P - queue \in Int /\ P - 1 \in Int /\ M \in Nat \ {0} /\ P - queue < P - 1
        /\ (P - 1) - (P - queue) < M /\ P - 1 <= P - 1 /\ (P - 1) - (P - 1) < M
        /\ P - 1 >= P - queue
    BY <1>1
  <2> QED
    BY <2>1, RangeOfRing, Zenon
<1>7. CASE c = P
  <2>1. ReadGeneration(sub[r].gen) = (P - 1) % M
    BY <1>2, <1>5, <1>6, <1>7, Zenon DEF ReadGeneration
  <2>2. Reads(r) = P
    BY <1>1, <1>7 DEF Reads
  <2> QED
    BY <2>1, <2>2
<1>8. CASE c < P
  <2>1. generation # sub[r].gen
    BY <1>1, <1>2, <1>8, ModDiffer, Zenon
  <2>2. is_in_range((P - queue) % M, c % M, (P - 1) % M) <=> c >= P - queue
    <3>1. P - queue \in Int /\ P - 1 \in Int /\ c \in Int /\ M \in Nat \ {0}
          /\ P - queue < P - 1 /\ (P - 1) - (P - queue) < M /\ c <= P - 1 /\ (P - 1) - c < M
      BY <1>1, <1>8
    <3> QED
      BY <3>1, RangeOfRing, Zenon
  <2>3. CASE c >= P - queue
    <3>1. ReadGeneration(sub[r].gen) = c % M
      BY <1>2, <1>5, <2>1, <2>2, <2>3, Zenon DEF ReadGeneration
    <3>2. Reads(r) - 1 = c
      BY <1>1, <1>8, <2>3 DEF Reads, Log!Following
    <3> QED
      BY <3>1, <3>2
  <2>4. CASE ~(c >= P - queue)
    <3>1. ReadGeneration(sub[r].gen) = (P - queue) % M
      BY <1>2, <1>5, <2>1, <2>2, <2>4, Zenon DEF ReadGeneration
    <3>2. Reads(r) - 1 = P - queue
      BY <1>1, <1>8, <2>4 DEF Reads, Log!Following
    <3> QED
      BY <3>1, <3>2
  <2> QED
    BY <2>3, <2>4
<1> QED
  BY <1>1, <1>7, <1>8

(* copy() returns that message and moves the subscription to it.           *)
LEMMA CopyReads ==
  ASSUME TypeOK, HistoryType, Numbers, NEW r \in Readers, Cursor(r), sub[r].node,
         data # NoData
  PROVE  /\ Copied(sub[r]).got = Reads(r)
         /\ Copied(sub[r]).gen = Reads(r) % Modulus
         /\ Copied(sub[r]).node = TRUE /\ Copied(sub[r]).call = "none"
         /\ Copied(sub[r]).scheduled = sub[r].scheduled
<1> DEFINE m == Reads(r)
<1>1. /\ queue \in Nat \ {0} /\ Modulus \in Nat \ {0} /\ Modulus % queue = 0
      /\ published \in Nat /\ sub[r] \in Subscriptions
      /\ m \in 0..published /\ m + queue > published /\ (published > 0 => m > 0)
  BY QueueFacts, ReadsFacts DEF TypeOK, Messages
<1>2. data[(m - 1) % queue] = m
  BY <1>1, KeptMessage, Zenon
<1>3. CASE queue = 1
  <2>1. m = published
    BY <1>1, <1>3
  <2>2. (m - 1) % queue = 0
    <3>1. m - 1 \in Int
      BY <1>1
    <3>2. (m - 1) % queue \in 0..(queue - 1)
      BY <1>1, <3>1, ModFacts, Zenon
    <3> QED
      BY <1>3, <3>2
  <2>3. data[0] = m /\ generation = m % Modulus
    BY <1>2, <2>1, <2>2, Zenon DEF Numbers
  <2> QED
    BY <1>1, <1>3, <2>3 DEF Copied, Subscriptions
<1>4. CASE queue # 1
  <2> DEFINE g == ReadGeneration(sub[r].gen)
  <2>1. g = (m - 1) % Modulus
    BY <1>4, ReadsGeneration
  <2>2. m - 1 \in Int /\ 1 \in Int
    BY <1>1
  <2>3. g % queue = (m - 1) % queue
    <3>1. ((m - 1) % Modulus) % queue = (m - 1) % queue
      BY <1>1, <2>2, ModMod, Zenon
    <3> QED
      BY <2>1, <3>1, Zenon
  <2>4. (((m - 1) % Modulus) + 1) % Modulus = ((m - 1) + 1) % Modulus
    BY <1>1, <2>2, ModPlus, Zenon
  <2>5. (m - 1) + 1 = m
    BY <1>1
  <2>6. Plus(g, 1) = m % Modulus
    BY <2>1, <2>4, <2>5, Zenon DEF Plus
  <2>7. data[g % queue] = m
    BY <1>2, <2>3, Zenon
  <2> HIDE DEF g, m
  <2>8. Copied(sub[r]) = [sub[r] EXCEPT !.call = "none", !.got = m, !.gen = m % Modulus]
    BY <1>4, <2>6, <2>7, Zenon DEF Copied, g
  <2> QED
    BY <1>1, <2>8 DEF Subscriptions, m
<1> QED
  BY <1>3, <1>4
-----------------------------------------------------------------------------
(***************************************************************************)
(* The inductive invariant of the log.                                     *)
(***************************************************************************)
LEMMA HistoryStep ==
  ASSUME HNext
  PROVE  Next
<1>1. ASSUME NEW p \in Publishers, HPublisher(p) PROVE PublisherNext(p)
  BY <1>1 DEF HPublisher, HWrite, PublisherNext
<1>2. ASSUME NEW r \in Readers, HReader(r) PROVE ReaderNext(r)
  BY <1>2 DEF HReader, HSubscribe, HCopy, HDestroy, ReaderNext
<1> QED
  BY <1>1, <1>2 DEF HNext, Next

(* A step that leaves r's cursor, generation and calls, and the number of  *)
(* publications, alone.                                                    *)
LEMMA CursorKept ==
  ASSUME NEW r \in Readers, Cursor(r), seen'[r] = seen[r], published' = published,
         sub'[r].node = sub[r].node, sub'[r].gen = sub[r].gen,
         sub'[r].call = sub[r].call \/ sub'[r].call = "none"
  PROVE  Cursor(r)'
  BY DEF Cursor

(* get_initial_generation() is the cursor of a new subscription.           *)
LEMMA InitialCursor ==
  ASSUME TypeOK, Numbers
  PROVE  get_initial_generation = (IF published = 0 THEN 0 ELSE published - 1) % Modulus
<1>1. Modulus \in Nat \ {0} /\ published \in Int /\ published \in Nat /\ -1 \in Int
  BY QueueFacts DEF TypeOK, Messages
<1>2. published % Modulus \in Int
  BY <1>1, ModFacts
<1>3. CASE published = 0
  <2>1. generation = 0 % Modulus /\ ~dataValid
    BY <1>3 DEF Numbers
  <2>2. 0 % Modulus = 0
    BY <1>1
  <2> QED
    BY <1>3, <2>1, <2>2 DEF get_initial_generation, Minus
<1>4. CASE published # 0
  <2>1. dataValid /\ generation = published % Modulus
    BY <1>1, <1>4 DEF Numbers
  <2>2. ((published % Modulus) + (-1)) % Modulus = (published + (-1)) % Modulus
    BY <1>1, ModPlus, Zenon
  <2> QED
    BY <1>1, <1>2, <1>4, <2>1, <2>2 DEF get_initial_generation, Minus
<1> QED
  BY <1>3, <1>4

(* subscribe() gives r a cursor: nothing yet, or one message back.         *)
LEMMA SubscribedCursor ==
  ASSUME TypeOK, HistoryType, Numbers, NEW r \in Readers, Cursor(r), ~sub[r].node,
         sub'[r] = Subscribed(sub[r]), published' = published,
         seen'[r] = IF published = 0 THEN 0 ELSE published - 1
  PROVE  Cursor(r)'
<1>1. /\ Modulus \in Nat \ {0} /\ published \in Nat /\ sub[r] \in Subscriptions
      /\ 1 < Modulus
  BY QueueFacts DEF TypeOK, Messages
<1>2. /\ sub'[r].gen = get_initial_generation /\ sub'[r].call = sub[r].call
      /\ sub[r].call = "none"
  BY <1>1 DEF Subscribed, Subscriptions, Cursor
<1>3. sub'[r].gen = seen'[r] % Modulus
  BY <1>2, InitialCursor, Zenon
<1>4. seen'[r] <= published /\ published - seen'[r] < Modulus
  BY <1>1
<1> QED
  BY <1>2, <1>3, <1>4 DEF Cursor

LEMMA InitLog == HInit => LogInv
<1> SUFFICES ASSUME HInit PROVE LogInv
  OBVIOUS
<1>1. Modulus \in Nat \ {0}
  BY QueueFacts DEF HInit, Init
<1>2. 0 % Modulus = 0
  BY <1>1
<1>3. HistoryType
  BY DEF HInit, HistoryType
<1>4. Numbers
  BY <1>2 DEF HInit, Init, Numbers
<1>5. \A r \in Readers : Cursor(r)
  BY DEF HInit, Init, Cursor, Unsubscribed
<1> QED
  BY <1>3, <1>4, <1>5, InitType DEF LogInv, HInit

LEMMA PublisherLog ==
  ASSUME LogInv, NEW p \in Publishers, HPublisher(p), UNCHANGED queue
  PROVE  HistoryType' /\ Numbers' /\ \A r \in Readers : Cursor(r)'
<1>1. TypeOK /\ HistoryType /\ Numbers /\ \A r \in Readers : Cursor(r)
  BY DEF LogInv
<1>2. CASE /\ Publish(p) \/ AllocateFails(p) \/ DestroyPublication(p)
           /\ UNCHANGED <<seen, missed>>
  <2>1. UNCHANGED <<data, dataValid, generation, published, sub, seen, missed>>
    BY <1>2 DEF Publish, AllocateFails, DestroyPublication, nodeVars
  <2> QED
    BY <1>1, <2>1, NumbersKept, CursorKept DEF HistoryType
<1>3. CASE Allocate(p) /\ UNCHANGED <<seen, missed>>
  <2>1. UNCHANGED <<published, sub, seen, missed>>
    BY <1>3 DEF Allocate
  <2> QED
    BY <1>1, <1>3, <2>1, AllocateNumbers, CursorKept DEF HistoryType
<1>4. CASE HWrite(p)
  <2>1. HistoryType'
    BY <1>1, <1>4 DEF HWrite, HistoryType
  <2>2. Numbers'
    BY <1>1, <1>4, WriteNumbers DEF HWrite
  <2>3. ASSUME NEW r \in Readers PROVE Cursor(r)'
    <3>1. /\ seen'[r] = seen[r] /\ published' = published + 1
          /\ sub[r].node => published - seen[r] < Modulus - 1
      BY <1>4 DEF HWrite, Write, NobodyWraps
    <3>2. sub[r] \in Subscriptions
      BY <1>1 DEF TypeOK
    <3>3. sub'[r].node = sub[r].node /\ sub'[r].gen = sub[r].gen /\ sub'[r].call = sub[r].call
      BY <1>4, <3>2 DEF HWrite, Write, Subscriptions
    <3>4. published \in Nat /\ seen[r] \in Nat /\ Modulus \in Nat
      BY <1>1, QueueFacts DEF TypeOK, Messages, HistoryType
    <3>5. Cursor(r)
      BY <1>1
    <3> QED
      BY <3>1, <3>3, <3>4, <3>5 DEF Cursor
  <2> QED
    BY <2>1, <2>2, <2>3
<1> QED
  BY <1>2, <1>3, <1>4 DEF HPublisher

(* Readers leave the ring alone.                                           *)
LEMMA ReaderNumbers ==
  ASSUME Numbers, NEW r \in Readers, ReaderNext(r), UNCHANGED queue
  PROVE  Numbers' /\ UNCHANGED <<data, dataValid, generation, published>>
<1>1. UNCHANGED <<data, dataValid, generation, published>>
  BY DEF ReaderNext, Subscribe, DestroySubscription, RegisterCallback,
         UnregisterCallback, RunItem, StartUpdate, StartCopy, Copy, nodeVars
<1> QED
  BY <1>1, NumbersKept

(* A copy leaves the cursor at the message it returned.                    *)
LEMMA CopyCursor ==
  ASSUME LogInv, NEW r \in Readers, HCopy(r), data # NoData
  PROVE  /\ sub'[r].got = Reads(r) /\ sub'[r].gen = Reads(r) % Modulus
         /\ sub'[r].node = TRUE /\ sub[r].node /\ sub'[r].call = "none"
         /\ seen' = [seen EXCEPT ![r] = Reads(r)]
         /\ Reads(r) \in Nat /\ Reads(r) <= published /\ published - Reads(r) < Modulus
         /\ seen[r] < published => Reads(r) > seen[r]
<1>1. TypeOK /\ HistoryType /\ Numbers /\ Cursor(r) /\ sub[r].node
  BY DEF LogInv, Cursor, HCopy, Copy
<1>2. sub'[r] = Copied(sub[r]) /\ seen' = [seen EXCEPT ![r] = sub'[r].got]
  BY <1>1 DEF HCopy, Copy, TypeOK
<1>3. published \in Nat
  BY <1>1 DEF TypeOK, Messages
<1>4. /\ Copied(sub[r]).got = Reads(r) /\ Copied(sub[r]).gen = Reads(r) % Modulus
      /\ Copied(sub[r]).node = TRUE /\ Copied(sub[r]).call = "none"
  BY <1>1, CopyReads, Zenon
<1>5. /\ Reads(r) \in 0..published /\ published - Reads(r) < Modulus
      /\ seen[r] < published => Reads(r) > seen[r]
  BY <1>1, ReadsFacts, Zenon
<1>6. Reads(r) \in Nat /\ Reads(r) <= published
  BY <1>3, <1>5
<1> QED
  BY <1>1, <1>2, <1>4, <1>5, <1>6, Zenon

LEMMA ReaderLog ==
  ASSUME LogInv, NEW q \in Readers, HReader(q), UNCHANGED queue
  PROVE  HistoryType' /\ Numbers' /\ \A r \in Readers : Cursor(r)'
<1>1. /\ TypeOK /\ HistoryType /\ Numbers /\ \A r \in Readers : Cursor(r)
      /\ published \in Nat /\ sub \in [Readers -> Subscriptions]
  BY DEF LogInv, TypeOK, Messages
<1>2. ReaderNext(q)
  BY DEF HReader, HSubscribe, HCopy, HDestroy, ReaderNext
<1>3. Numbers' /\ UNCHANGED <<data, dataValid, generation, published>>
  BY <1>1, <1>2, ReaderNumbers
<1>4. ASSUME NEW r \in Readers, r # q, seen'[r] = seen[r] PROVE Cursor(r)'
  <2>1. sub'[r] = sub[r]
    BY <1>1, <1>2, <1>4 DEF ReaderNext, Subscribe, DestroySubscription, RegisterCallback,
         UnregisterCallback, RunItem, StartUpdate, StartCopy, Copy
  <2> QED
    BY <1>1, <1>3, <1>4, <2>1, CursorKept
<1>5. CASE /\ UnregisterCallback(q) \/ RunItem(q) \/ StartUpdate(q) \/ StartCopy(q)
           /\ UNCHANGED <<seen, missed>>
  <2>1. CASE UnregisterCallback(q) \/ RunItem(q)
    <3>1. UNCHANGED <<sub, seen, missed>>
      BY <1>5, <2>1 DEF UnregisterCallback, RunItem
    <3> QED
      BY <1>1, <1>3, <3>1, CursorKept DEF HistoryType
  <2>2. CASE StartUpdate(q)
    <3>1. sub[q].node /\ sub[q] \in Subscriptions /\ sub' = [sub EXCEPT ![q].call = "update"]
      BY <1>1, <2>2 DEF StartUpdate
    <3>2. /\ sub'[q].node = sub[q].node /\ sub'[q].gen = sub[q].gen
          /\ sub'[q].call = "update"
      BY <1>1, <3>1 DEF Subscriptions
    <3>3. seen[q] < published
      <4>1. /\ sub[q].gen = seen[q] % Modulus /\ generation = published % Modulus
            /\ seen[q] <= published /\ seen[q] \in Nat /\ Modulus \in Nat \ {0}
        BY <1>1, <3>1, QueueFacts DEF Cursor, Numbers, HistoryType, TypeOK
      <4>2. Minus(generation, sub[q].gen) # 0
        BY <2>2 DEF StartUpdate, updates_available
      <4>3. seen[q] # published
        <5>1. generation \in Int
          BY <1>1 DEF TypeOK, Generations
        <5>2. generation - generation = 0 /\ 0 % Modulus = 0
          BY <4>1, <5>1
        <5> QED
          BY <4>1, <4>2, <5>2 DEF Minus
      <4> QED
        BY <1>1, <4>1, <4>3
    <3>4. Cursor(q)'
      BY <1>1, <1>3, <1>5, <3>1, <3>2, <3>3 DEF Cursor
    <3> QED
      BY <1>1, <1>3, <1>4, <1>5, <3>4 DEF HistoryType
  <2>3. CASE StartCopy(q)
    <3>1. sub[q].node /\ sub[q] \in Subscriptions /\ sub' = [sub EXCEPT ![q].call = "copy"]
      BY <1>1, <2>3 DEF StartCopy
    <3>2. /\ sub'[q].node = sub[q].node /\ sub'[q].gen = sub[q].gen
          /\ sub'[q].call = "copy"
      BY <1>1, <3>1 DEF Subscriptions
    <3>3. Cursor(q)'
      BY <1>1, <1>3, <1>5, <3>1, <3>2 DEF Cursor
    <3> QED
      BY <1>1, <1>3, <1>4, <1>5, <3>3 DEF HistoryType
  <2> QED
    BY <1>5, <2>1, <2>2, <2>3
<1>6. CASE HSubscribe(q)
  <2>1. seen' = [seen EXCEPT ![q] =
          IF sub[q].node THEN @ ELSE IF published = 0 THEN 0 ELSE published - 1]
    BY <1>6 DEF HSubscribe
  <2>2. HistoryType'
    BY <1>1, <1>6, <2>1 DEF HSubscribe, HistoryType
  <2>3. CASE sub[q].node
    <3>1. sub'[q] = sub[q] /\ seen' = seen
      BY <1>1, <1>6, <2>1, <2>3 DEF HSubscribe, Subscribe, RegisterCallback, HistoryType
    <3> QED
      BY <1>1, <1>3, <1>4, <2>2, <3>1, CursorKept
  <2>4. CASE ~sub[q].node
    <3>1. sub'[q] = Subscribed(sub[q])
      BY <1>1, <1>6, <2>4 DEF HSubscribe, Subscribe, RegisterCallback
    <3>2. /\ seen'[q] = IF published = 0 THEN 0 ELSE published - 1
          /\ \A r \in Readers : r # q => seen'[r] = seen[r]
      BY <1>1, <2>1, <2>4 DEF HistoryType
    <3>3. Cursor(q)'
      BY <1>1, <1>3, <2>4, <3>1, <3>2, SubscribedCursor
    <3> QED
      BY <1>3, <1>4, <2>2, <3>2, <3>3
  <2> QED
    BY <2>3, <2>4
<1>7. CASE HCopy(q)
  <2>1. CASE data = NoData
    <3>1. seen' = seen /\ UNCHANGED missed
      BY <1>1, <1>7, <2>1 DEF HCopy, HistoryType
    <3>2. /\ sub'[q].node = sub[q].node /\ sub'[q].gen = sub[q].gen
          /\ sub'[q].call = "none"
      BY <1>1, <1>7, <2>1 DEF HCopy, Copy, Subscriptions
    <3>3. Cursor(q)'
      BY <1>1, <1>3, <3>1, <3>2, CursorKept
    <3> QED
      BY <1>1, <1>3, <1>4, <3>1, <3>3 DEF HistoryType
  <2>2. CASE data # NoData
    <3>1. /\ sub'[q].gen = Reads(q) % Modulus /\ sub'[q].node = TRUE /\ sub'[q].call = "none"
          /\ seen' = [seen EXCEPT ![q] = Reads(q)]
          /\ Reads(q) \in Nat /\ Reads(q) <= published /\ published - Reads(q) < Modulus
      BY <1>7, <2>2, CopyCursor
    <3>2. seen'[q] = Reads(q) /\ \A r \in Readers : r # q => seen'[r] = seen[r]
      BY <1>1, <3>1 DEF HistoryType
    <3>3. Cursor(q)'
      BY <1>3, <3>1, <3>2 DEF Cursor
    <3>4. HistoryType'
      BY <1>1, <1>7, <3>1 DEF HistoryType, HCopy
    <3> QED
      BY <1>3, <1>4, <3>2, <3>3, <3>4
  <2> QED
    BY <2>1, <2>2
<1>8. CASE HDestroy(q)
  <2>1. /\ HistoryType' /\ \A r \in Readers : r # q => seen'[r] = seen[r]
    BY <1>1, <1>8 DEF HDestroy, HistoryType
  <2>2. sub'[q].node = FALSE /\ sub'[q].call = "none"
    BY <1>1, <1>8 DEF HDestroy, DestroySubscription, Unsubscribed
  <2> QED
    BY <1>3, <1>4, <2>1, <2>2 DEF Cursor
<1> QED
  BY <1>5, <1>6, <1>7, <1>8 DEF HReader

LEMMA NextLog ==
  ASSUME LogInv, [HNext]_hvars
  PROVE  LogInv'
<1>1. CASE HNext
  <2>1. TypeOK'
    BY <1>1, HistoryStep, NextType DEF LogInv
  <2> QED
    BY <1>1, <2>1, PublisherLog, ReaderLog DEF HNext, LogInv
<1>2. CASE UNCHANGED hvars
  BY <1>2, NextType, NumbersKept, CursorKept DEF hvars, vars, nodeVars, LogInv, HistoryType
<1> QED
  BY <1>1, <1>2

LEMMA LogInvariance == HSpec => []LogInv
<1>1. LogInv /\ [HNext]_hvars => LogInv'
  BY NextLog
<1> QED
  BY <1>1, InitLog, PTL DEF HSpec
-----------------------------------------------------------------------------
(***************************************************************************)
(* The refinement.                                                         *)
(***************************************************************************)
LEMMA InitRefines == HInit => Log!LogInit
<1> SUFFICES ASSUME HInit PROVE Log!LogInit
  OBVIOUS
<1>1. queue \in Nat \ {0}
  BY QueueFacts DEF HInit, Init
<1>2. \A r \in Readers : sub[r].node = FALSE /\ sub[r].got = 0
  BY DEF HInit, Init, Unsubscribed
<1> QED
  BY <1>1, <1>2 DEF HInit, Init, Log!LogInit

(* What a step must leave alone to be no step of the log.                  *)
LEMMA Stutters ==
  ASSUME UNCHANGED <<queue, published, seen>>,
         \A r \in Readers : sub'[r].node = sub[r].node /\ sub'[r].got = sub[r].got
  PROVE  UNCHANGED Log!logVars
  BY DEF Log!logVars

(* A step of a publisher publishes, or is no step of the log.              *)
LEMMA PublisherRefines ==
  ASSUME LogInv, NEW p \in Publishers, HPublisher(p), UNCHANGED queue
  PROVE  [Log!LogNext]_(Log!logVars)
<1>1. sub \in [Readers -> Subscriptions]
  BY DEF LogInv, TypeOK
<1>2. CASE /\ Publish(p) \/ Allocate(p) \/ AllocateFails(p) \/ DestroyPublication(p)
           /\ UNCHANGED <<seen, missed>>
  <2>1. UNCHANGED <<published, sub, seen>>
    BY <1>2 DEF Publish, Allocate, AllocateFails, DestroyPublication, nodeVars
  <2> QED
    BY <2>1, Stutters
<1>3. CASE HWrite(p)
  <2>1. published' = published + 1 /\ seen' = seen
    BY <1>3 DEF HWrite, Write
  <2>2. \A r \in Readers : sub'[r].node = sub[r].node /\ sub'[r].got = sub[r].got
    BY <1>1, <1>3 DEF HWrite, Write, Subscriptions
  <2>3. Log!Publish
    BY <2>1, <2>2 DEF Log!Publish
  <2> QED
    BY <2>3 DEF Log!LogNext
<1> QED
  BY <1>2, <1>3 DEF HPublisher

(* A step of a reader attaches it, makes it leave, delivers a message to   *)
(* it, or is no step of the log.                                           *)
LEMMA ReaderRefines ==
  ASSUME LogInv, NEW q \in Readers, HReader(q), UNCHANGED queue
  PROVE  [Log!LogNext]_(Log!logVars)
<1>1. /\ sub \in [Readers -> Subscriptions] /\ seen \in [Readers -> Nat] /\ published \in Nat
      /\ Cursor(q)
  BY DEF LogInv, TypeOK, HistoryType, Messages
<1>2. ReaderNext(q) /\ published' = published
  <2>1. ReaderNext(q)
    BY DEF HReader, HSubscribe, HCopy, HDestroy, ReaderNext
  <2> QED
    BY <2>1, ReaderNumbers DEF LogInv
<1>3. \A r \in Readers : r # q => sub'[r] = sub[r]
  BY <1>1, <1>2 DEF ReaderNext, Subscribe, DestroySubscription, RegisterCallback,
         UnregisterCallback, RunItem, StartUpdate, StartCopy, Copy
<1>4. CASE /\ UnregisterCallback(q) \/ RunItem(q) \/ StartUpdate(q) \/ StartCopy(q)
           /\ UNCHANGED <<seen, missed>>
  <2>1. \A r \in Readers : sub'[r].node = sub[r].node /\ sub'[r].got = sub[r].got
    BY <1>1, <1>4 DEF UnregisterCallback, RunItem, StartUpdate, StartCopy, Subscriptions
  <2> QED
    BY <1>2, <1>4, <2>1, Stutters
<1>5. CASE HSubscribe(q)
  <2>1. CASE sub[q].node
    <3>1. sub' = sub /\ seen' = seen
      BY <1>1, <1>5, <2>1 DEF HSubscribe, Subscribe, RegisterCallback
    <3> QED
      BY <1>2, <3>1, Stutters
  <2>2. CASE ~sub[q].node
    <3>1. sub'[q] = Subscribed(sub[q])
      BY <1>1, <1>5, <2>2 DEF HSubscribe, Subscribe, RegisterCallback
    <3>2. sub'[q].node = TRUE /\ sub'[q].got = sub[q].got
      BY <1>1, <3>1 DEF Subscribed, Subscriptions
    <3>3. seen' = [seen EXCEPT ![q] = IF published = 0 THEN 0 ELSE published - 1]
      BY <1>5, <2>2 DEF HSubscribe
    <3>4. {r \in Readers : sub'[r].node} = {r \in Readers : sub[r].node} \cup {q}
      BY <1>3, <3>2
    <3>5. [r \in Readers |-> sub'[r].got] = [r \in Readers |-> sub[r].got]
      BY <1>3, <3>2
    <3>6. Log!Attach(q)
      BY <1>2, <2>2, <3>3, <3>4, <3>5 DEF Log!Attach
    <3> QED
      BY <3>6 DEF Log!LogNext
  <2> QED
    BY <2>1, <2>2
<1>6. CASE HCopy(q)
  <2>1. CASE data = NoData
    <3>1. /\ seen' = seen
          /\ \A r \in Readers : sub'[r].node = sub[r].node /\ sub'[r].got = sub[r].got
      BY <1>1, <1>6, <2>1 DEF HCopy, Copy, Subscriptions
    <3> QED
      BY <1>2, <3>1, Stutters
  <2>2. CASE data # NoData
    <3>1. /\ sub'[q].got = Reads(q) /\ sub'[q].node = TRUE /\ sub[q].node
          /\ seen' = [seen EXCEPT ![q] = Reads(q)]
      BY <1>6, <2>2, CopyCursor
    <3>2. {r \in Readers : sub'[r].node} = {r \in Readers : sub[r].node}
      BY <1>3, <3>1
    <3>3. [r \in Readers |-> sub'[r].got] =
            [[r \in Readers |-> sub[r].got] EXCEPT ![q] = Reads(q)]
      BY <1>3, <3>1
    <3>4. Log!Deliver(q, Reads(q))
      BY <1>2, <3>1, <3>2, <3>3 DEF Log!Deliver
    <3>5. seen[q] < published \/ seen[q] = published
      BY <1>1, <3>1 DEF Cursor
    <3>6. CASE seen[q] < published
      <4>1. Log!Take(q)
        BY <3>1, <3>4, <3>6 DEF Log!Take, Log!Deliver, Reads
      <4> QED
        BY <4>1 DEF Log!LogNext
    <3>7. CASE seen[q] = published
      <4>1. Reads(q) = published
        BY <1>1, <3>7 DEF Reads
      <4>2. Log!Peek(q)
        BY <3>1, <3>4, <3>7, <4>1 DEF Log!Peek, Log!Deliver
      <4> QED
        BY <4>2 DEF Log!LogNext
    <3> QED
      BY <3>5, <3>6, <3>7
  <2> QED
    BY <2>1, <2>2
<1>7. CASE HDestroy(q)
  <2>1. sub'[q].node = FALSE /\ sub'[q].got = sub[q].got
    BY <1>1, <1>7 DEF HDestroy, DestroySubscription, Unsubscribed
  <2>2. {r \in Readers : sub'[r].node} = {r \in Readers : sub[r].node} \ {q}
    BY <1>3, <2>1
  <2>3. [r \in Readers |-> sub'[r].got] = [r \in Readers |-> sub[r].got]
    BY <1>3, <2>1
  <2>4. Log!LeaveTopic(q)
    BY <1>2, <1>7, <2>2, <2>3 DEF HDestroy, Log!LeaveTopic
  <2> QED
    BY <2>4 DEF Log!LogNext
<1> QED
  BY <1>4, <1>5, <1>6, <1>7 DEF HReader

LEMMA NextRefines ==
  ASSUME LogInv, [HNext]_hvars
  PROVE  [Log!LogNext]_(Log!logVars)
<1>1. CASE HNext
  BY <1>1, PublisherRefines, ReaderRefines DEF HNext
<1>2. CASE UNCHANGED hvars
  BY <1>2, Stutters DEF hvars, vars, nodeVars
<1> QED
  BY <1>1, <1>2

(* For any number of publishers and readers, any queue length and any      *)
(* width of the counter that the queue length divides, the ring buffer of  *)
(* DeviceNode::write() and copy() implements the message log: in every     *)
(* interleaving a subscriber sees messages in the order of publication,    *)
(* skips only those that were overwritten, reads the latest again when     *)
(* nothing is new, and a new subscriber starts with the latest one.        *)
THEOREM RingImplementsLog == HSpec => ImplementsLog
<1>1. LogInv /\ [HNext]_hvars => [Log!LogNext]_(Log!logVars)
  BY NextRefines
<1>2. HInit => Log!LogInit
  BY InitRefines
<1> QED
  BY <1>1, <1>2, LogInvariance, PTL DEF HSpec, ImplementsLog, Log!LogSpec

(* update() past its checks has a message that its subscription has not    *)
(* seen, whatever is published or lost until it copies: it never returns a *)
(* message twice, nor the zeroed buffer.                                   *)
THEOREM UpdateReturnsNew == HSpec => UpdateIsNew
<1>1. ASSUME LogInv, [HNext]_hvars
      PROVE  [\A r \in Readers : sub[r].call = "update" /\ sub'[r].call = "none"
                                   => sub'[r].got > seen[r]]_hvars
  <2>1. CASE UNCHANGED hvars
    BY <2>1
  <2>2. CASE HNext
    <3> SUFFICES ASSUME NEW r \in Readers, sub[r].call = "update", sub'[r].call = "none"
                 PROVE  sub'[r].got > seen[r]
      OBVIOUS
    <3>1. /\ sub \in [Readers -> Subscriptions] /\ published \in Nat /\ seen[r] < published
          /\ TypeOK /\ Numbers /\ seen[r] \in Nat /\ sub[r].node
      BY <1>1 DEF LogInv, TypeOK, Messages, Cursor, HistoryType
    <3>2. ASSUME NEW p \in Publishers, HPublisher(p) PROVE FALSE
      <4>1. sub'[r].call = sub[r].call
        <5>1. CASE Write(p)
          BY <3>1, <5>1 DEF Write, Subscriptions
        <5>2. CASE Publish(p) \/ Allocate(p) \/ AllocateFails(p) \/ DestroyPublication(p)
          BY <5>2 DEF Publish, Allocate, AllocateFails, DestroyPublication
        <5> QED
          BY <3>2, <5>1, <5>2 DEF HPublisher, HWrite
      <4> QED
        BY <4>1
    <3>3. ASSUME NEW q \in Readers, HReader(q), q # r PROVE FALSE
      <4>1. sub'[r] = sub[r]
        BY <3>1, <3>3 DEF HReader, HSubscribe, HCopy, HDestroy, Subscribe,
             DestroySubscription, RegisterCallback, UnregisterCallback, RunItem,
             StartUpdate, StartCopy, Copy
      <4> QED
        BY <4>1
    <3>4. ASSUME HReader(r) PROVE HCopy(r)
      <4>1. ~(UnregisterCallback(r) \/ RunItem(r) \/ StartUpdate(r) \/ StartCopy(r))
        BY <3>1 DEF UnregisterCallback, RunItem, StartUpdate, StartCopy
      <4>2. ~HDestroy(r)
        BY DEF HDestroy, DestroySubscription
      <4>3. ~HSubscribe(r)
        BY <3>1 DEF HSubscribe, Subscribe, RegisterCallback
      <4> QED
        BY <3>4, <4>1, <4>2, <4>3 DEF HReader
    <3>5. HCopy(r)
      BY <2>2, <3>2, <3>3, <3>4 DEF HNext
    <3>6. data # NoData
      BY <3>1 DEF Numbers
    <3> QED
      BY <1>1, <3>1, <3>5, <3>6, CopyCursor
  <2> QED
    BY <1>1, <2>1, <2>2
<1> QED
  BY <1>1, LogInvariance, PTL DEF HSpec, UpdateIsNew
-----------------------------------------------------------------------------
(***************************************************************************)
(* The count gate of a registered callback.                                *)
(***************************************************************************)
(* One publication more, as long as the counter's difference does not wrap.*)
LEMMA MinusStep ==
  ASSUME NEW g \in Generations, NEW s \in Generations, Modulus \in Nat \ {0},
         Minus(g, s) < Modulus - 1
  PROVE  Minus(Plus(g, 1), s) = Minus(g, s) + 1
<1> DEFINE d == g - s
<1>1. /\ g \in Int /\ s \in Int /\ d \in Int /\ g + 1 \in Int /\ 1 \in Int /\ -s \in Int
      /\ d + 1 \in Int /\ (g + 1) + (-s) = d + 1
  BY DEF Generations
<1>2. (((g + 1) % Modulus) + (-s)) % Modulus = ((g + 1) + (-s)) % Modulus
  BY <1>1, ModPlus, Zenon
<1>3. ((d % Modulus) + 1) % Modulus = (d + 1) % Modulus
  BY <1>1, ModPlus, Zenon
<1>4. d % Modulus \in 0..(Modulus - 1) /\ (g + 1) % Modulus \in Int
  BY <1>1, ModFacts
<1>5. (d % Modulus) + 1 \in 0..(Modulus - 1)
  BY <1>4 DEF Minus
<1>6. ((d % Modulus) + 1) % Modulus = (d % Modulus) + 1
  <2> DEFINE x == (d % Modulus) + 1
  <2>1. x \in 0..(Modulus - 1) /\ x \in Int /\ 0 \in Int /\ x = Modulus * 0 + x
    BY <1>5
  <2> HIDE DEF x
  <2>2. x % Modulus = x
    BY <2>1, ModUnique, Zenon
  <2> QED
    BY <2>2 DEF x
<1>7. ((g + 1) % Modulus) - s = ((g + 1) % Modulus) + (-s)
  BY <1>1, <1>4
<1>8. (((g + 1) % Modulus) - s) % Modulus = (d % Modulus) + 1
  BY <1>1, <1>2, <1>3, <1>6, <1>7, Zenon
<1> QED
  BY <1>8, Zenon DEF Plus, Minus

LEMMA InitGate == HInit => GateInv
  BY UorbConstants DEF HInit, GateInv, CallbackNotStarved, Gated

(* A step that leaves r's registration, its gate and the counter alone, or *)
(* starts its count again.                                                 *)
LEMMA GateKept ==
  ASSUME NEW r \in Readers, Gated(r), missed[r] <= Required, Required \in Nat,
         \/ missed'[r] = 0
         \/ /\ missed'[r] = missed[r] /\ generation' = generation
            /\ r \in callbacks' => r \in callbacks /\ sub'[r].scheduled = sub[r].scheduled
  PROVE  Gated(r)' /\ missed'[r] <= Required
  BY DEF Gated, Minus

LEMMA NextGate ==
  ASSUME TypeOK, HistoryType, GateInv, [HNext]_hvars
  PROVE  GateInv'
<1>1. /\ Modulus \in Nat \ {0} /\ Required \in Nat /\ Required < Modulus
      /\ sub \in [Readers -> Subscriptions] /\ missed \in [Readers -> Nat]
      /\ \A r \in Readers : missed[r] <= Required /\ Gated(r)
  BY QueueFacts, UorbConstants DEF TypeOK, HistoryType, GateInv, CallbackNotStarved
<1> SUFFICES ASSUME NEW r \in Readers
             PROVE  Gated(r)' /\ missed'[r] <= Required
  BY <1>1 DEF GateInv, CallbackNotStarved
<1>2. CASE UNCHANGED hvars
  BY <1>1, <1>2, GateKept DEF hvars, vars, nodeVars
<1>3. ASSUME NEW p \in Publishers, HPublisher(p) PROVE Gated(r)' /\ missed'[r] <= Required
  <2>1. CASE /\ Publish(p) \/ Allocate(p) \/ AllocateFails(p) \/ DestroyPublication(p)
             /\ UNCHANGED <<seen, missed>>
    <3>1. UNCHANGED <<generation, callbacks, sub, missed>>
      BY <2>1 DEF Publish, Allocate, AllocateFails, DestroyPublication, nodeVars
    <3> QED
      BY <1>1, <3>1, GateKept
  <2>2. CASE HWrite(p)
    <3>1. CASE r \in callbacks /\ ~Gate(generation', sub[r].scheduled)
      <4> DEFINE s == sub[r].scheduled
                 d == Minus(generation, s)
      <4>1. /\ missed'[r] = missed[r] + 1 /\ generation' = Plus(generation, 1)
            /\ callbacks' = callbacks /\ sub'[r].scheduled = s
        BY <1>1, <2>2, <3>1 DEF HWrite, Write
      <4>2. generation \in Generations /\ s \in Generations /\ generation \in Int /\ s \in Int
        BY <1>1 DEF TypeOK, Subscriptions, Generations
      <4>3. d \in Generations /\ d \in Nat /\ d <= Modulus - 1
        <5>1. d \in Generations
          BY <1>1, <4>2, CounterType, Zenon
        <5> QED
          BY <1>1, <5>1 DEF Generations
      <4> DEFINE e == Minus(Plus(generation, 1), s)
      <4>4. e \in Nat /\ e < Required
        <5>1. Plus(generation, 1) \in Generations
          BY <1>1, <4>2, CounterType
        <5>2. Plus(generation, 1) \in Int
          BY <5>1 DEF Generations
        <5>3. e \in Generations
          BY <1>1, <4>2, <5>2, CounterType, Zenon
        <5>4. ~(e >= Required)
          BY <3>1, <4>1 DEF Gate
        <5> HIDE DEF e
        <5> QED
          BY <1>1, <5>3, <5>4 DEF Generations
      <4>5. CASE missed[r] = 0
        <5>1. Minus(generation, sub[r].scheduled)' = e
          BY <4>1 DEF Minus
        <5> HIDE DEF e
        <5> QED
          BY <1>1, <4>1, <4>4, <4>5, <5>1 DEF Gated
      <4>6. CASE missed[r] > 0
        <5>1. d >= missed[r] - 1 /\ d < Required
          BY <1>1, <3>1, <4>6 DEF Gated
        <5>2. Minus(Plus(generation, 1), s) = d + 1
          BY <1>1, <4>2, <4>3, <5>1, MinusStep
        <5> HIDE DEF s, d
        <5>3. missed'[r] <= Required /\ missed'[r] - 1 <= d + 1 /\ d + 1 < Required
          BY <1>1, <4>1, <4>3, <4>4, <5>1, <5>2
        <5>4. Minus(generation, sub[r].scheduled)' = d + 1
          BY <4>1, <5>2 DEF Minus
        <5> QED
          BY <1>1, <4>3, <5>3, <5>4 DEF Gated
      <4> QED
        BY <1>1, <4>5, <4>6
    <3>2. CASE ~(r \in callbacks /\ ~Gate(generation', sub[r].scheduled))
      <4>1. missed'[r] = 0
        BY <2>2, <3>2 DEF HWrite
      <4> QED
        BY <1>1, <4>1, GateKept
    <3> QED
      BY <3>1, <3>2
  <2> QED
    BY <1>3, <2>1, <2>2 DEF HPublisher
<1>4. ASSUME NEW q \in Readers, HReader(q) PROVE Gated(r)' /\ missed'[r] <= Required
  <2>1. generation' = generation
    BY <1>4 DEF HReader, HSubscribe, HCopy, HDestroy, Subscribe, DestroySubscription,
         RegisterCallback, UnregisterCallback, RunItem, StartUpdate, StartCopy, Copy, nodeVars
  <2>2. CASE q # r
    <3>1. sub'[r] = sub[r] /\ missed'[r] = missed[r] /\ (r \in callbacks' => r \in callbacks)
      BY <1>1, <1>4, <2>2 DEF HReader, HSubscribe, HCopy, HDestroy, Subscribe,
           DestroySubscription, RegisterCallback, UnregisterCallback, RunItem,
           StartUpdate, StartCopy, Copy, nodeVars
    <3> QED
      BY <1>1, <2>1, <3>1, GateKept
  <2>3. CASE q = r
    <3>1. CASE HDestroy(r) \/ (RegisterCallback(r) /\ missed' = [missed EXCEPT ![r] = 0])
      <4>1. missed'[r] = 0
        BY <1>1, <3>1 DEF HDestroy
      <4> QED
        BY <1>1, <4>1, GateKept
    <3>2. CASE \/ UnregisterCallback(r) \/ RunItem(r) \/ StartUpdate(r) \/ StartCopy(r)
               \/ Subscribe(r) \/ HCopy(r)
      <4>1. r \in callbacks' => r \in callbacks
        BY <3>2 DEF HCopy, Subscribe, UnregisterCallback, RunItem, StartUpdate, StartCopy,
                    Copy, nodeVars
      <4>2. CASE missed'[r] = missed[r]
        <5>1. sub'[r].scheduled = sub[r].scheduled
          <6>1. CASE UnregisterCallback(r) \/ RunItem(r) \/ StartUpdate(r) \/ StartCopy(r)
                     \/ Subscribe(r)
            BY <1>1, <6>1 DEF UnregisterCallback, RunItem, StartUpdate, StartCopy, Subscribe,
                              Subscribed, Subscriptions
          <6>2. CASE HCopy(r)
            <7>1. sub[r] \in Subscriptions
              BY <1>1
            <7>2. Copied(sub[r]).scheduled = sub[r].scheduled
              BY <7>1 DEF Copied, Subscriptions
            <7> QED
              BY <1>1, <6>2, <7>1, <7>2 DEF HCopy, Copy, Subscriptions
          <6> QED
            BY <3>2, <6>1, <6>2
        <5> QED
          BY <1>1, <2>1, <4>1, <4>2, <5>1, GateKept
      <4>3. CASE missed'[r] # missed[r]
        <5>1. missed'[r] = 0
          BY <1>1, <1>4, <2>3, <4>3 DEF HReader, HSubscribe, HCopy, HDestroy
        <5> QED
          BY <1>1, <5>1, GateKept
      <4> QED
        BY <4>2, <4>3
    <3> QED
      BY <1>4, <2>3, <3>1, <3>2 DEF HReader, HSubscribe
  <2> QED
    BY <2>2, <2>3
<1> QED
  BY <1>2, <1>3, <1>4 DEF HNext

(* However often its count gate has held it back and wherever the counters *)
(* wrap, a registered callback work item is scheduled at the latest by the *)
(* publication after the required number of updates.                       *)
THEOREM CallbackIsScheduled == HSpec => []CallbackNotStarved
<1>1. LogInv /\ GateInv /\ [HNext]_hvars => GateInv'
  BY NextGate DEF LogInv
<1>2. GateInv => CallbackNotStarved
  BY DEF GateInv
<1> QED
  BY <1>1, <1>2, InitGate, LogInvariance, PTL DEF HSpec
=============================================================================
