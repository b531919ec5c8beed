--------------------------- MODULE Dataman_proofs ---------------------------
(***************************************************************************)
(* Proofs about Dataman, for any clients, items, indexes and records.      *)
(***************************************************************************)
EXTENDS Dataman, TLAPS

(* Identifiers are handed out once, and an answer that hands one out is    *)
(* addressed to the client that may take it.                               *)
IdInv ==
  /\ IdsUnique
  /\ \A c \in Clients : id[c] < nextId
  /\ \A c \in Clients : id[c] # 0 => made[c]
  /\ \A c \in Clients : sync[c] # NoMsg /\ sync[c].type = "getId" =>
       id[c] = 0 /\ sync[c].id = 0 /\ made[c]
  /\ response # NoMsg /\ response.type = "getId" =>
       /\ ~response.ok
       /\ response.id # 0 =>
            /\ response.id < nextId
            /\ \A d \in Clients : id[d] = response.id => d = response.from

(* A message bears the identifier of the client it is from.                *)
Labelled(m) ==
  m # NoMsg => m.id = IF m.type = "getId" THEN 0 ELSE id[m.from]
LabelInv ==
  /\ Labelled(request) /\ Labelled(busy)
  /\ response # NoMsg /\ response.type # "getId" =>
       response.id = id[response.from] /\ response.id # 0
  /\ busy # NoMsg /\ busy.type # "getId" => busy.id # 0
  /\ request # NoMsg /\ request.type # "getId" => request.id # 0
  /\ \A c \in Clients : sync[c] # NoMsg =>
       /\ sync[c].from = c /\ sync[c].op = "sync" /\ Labelled(sync[c])
       /\ sync[c].type # "getId" => sync[c].id # 0
  /\ \A c \in Clients : Waits(c) =>
       /\ active[c] # NoMsg /\ active[c].from = c /\ active[c].op = "async"
       /\ active[c].type # "getId" /\ active[c].id = id[c] /\ id[c] # 0

(* A message of client c that is under way belongs to a call in progress.  *)
(* Requests for an identifier are another matter: when there are no more,  *)
(* a client takes the refusal of another one for its own.                  *)
Belongs(c, m) ==
  /\ m.op # "old"
  /\ m.op = "sync" => sync[c] # NoMsg /\ Same(m, sync[c])
  /\ m.op = "async" => Waits(c) /\ Same(m, active[c])
Call(c, m)  == m # NoMsg /\ m.from = c /\ m.type # "getId"
Asked(c)    == reqNew /\ Call(c, request)
Served(c)   == Call(c, busy)
Returned(c) == rspNew[c] /\ Call(c, response)

(* A client that has no stray requests has one message under way at most   *)
(* for each of its calls.                                                  *)
Flight(c) ==
  /\ Asked(c) => Belongs(c, request)
  /\ Served(c) => Belongs(c, busy)
  /\ Returned(c) => Belongs(c, response)
  /\ Asked(c) /\ Served(c) => request.op # busy.op
  /\ Asked(c) /\ Returned(c) => request.op # response.op
  /\ Served(c) /\ Returned(c) => busy.op # response.op
  /\ sync[c] # NoMsg /\ Waits(c) => ~Same(sync[c], active[c])
FlightInv == \A c \in Clients : c \in tangled \/ Flight(c)

(* An answer that has not been read and that a call in progress would take *)
(* was given during the call.                                              *)
Fresh(c, kind, w) ==
  rspNew[c] /\ response # NoMsg /\ response.ok
  /\ response.id = id[c] /\ response.type = w.type /\ response.key = w.key
  => /\ since[c][kind] # {}
     /\ w.type = "read" => response.data \in since[c][kind]
FreshInv ==
  \A c \in Clients :
    /\ sync[c] # NoMsg => Fresh(c, "sync", sync[c])
    /\ Waits(c) => Fresh(c, "async", active[c])

(* The type invariant; a call in progress has a request, and what is to be *)
(* read has been written.                                                  *)
TypeInv ==
  /\ TypeOK
  /\ \A c \in Clients : Waits(c) => active[c] # NoMsg
  /\ \A c \in Clients : rspNew[c] => response # NoMsg
-----------------------------------------------------------------------------
(* Fields of messages, and messages with other fields.                     *)
LEMMA MessageFacts ==
  /\ \A r \in Requests : /\ r.id \in 0..MaxIds /\ r.type \in Types /\ r.key \in Keys
                         /\ r.data \in Values \cup {NoData} /\ r.from \in Clients
                         /\ r.op \in Ops
  /\ \A r \in Responses : /\ r.id \in 0..MaxIds /\ r.type \in Types /\ r.key \in Keys
                          /\ r.ok \in BOOLEAN /\ r.data \in Stored /\ r.from \in Clients
                          /\ r.op \in Ops
BY DEF Requests, Responses

(* The operations that a client's owner chooses from.                      *)
LEMMA OperationFacts ==
  ASSUME NEW types \in SUBSET Types, NEW indexes \in SUBSET Indexes,
         NEW o \in Operations(types, indexes)
  PROVE  /\ o[1] \in Types \ {"getId"} /\ o[2] \in Keys
         /\ o[3] \in Values \cup {NoData}
BY DEF Operations, Types, Keys

(* A request that a client builds.                                         *)
LEMMA ReqFacts ==
  ASSUME TypeOK, NEW c \in Clients, NEW kind \in Kinds, NEW type \in Types,
         NEW key \in Keys, NEW data \in Values \cup {NoData}
  PROVE  LET r == Req(c, kind, type, key, data)
         IN  /\ r \in Requests /\ r # NoMsg /\ r.id = id[c] /\ r.type = type
             /\ r.key = key /\ r.from = c /\ r.op = kind
<1>1. id[c] \in 0..MaxIds /\ kind \in Ops
  BY DEF TypeOK, Ops
<1>2. Req(c, kind, type, key, data) \in Requests
  BY <1>1 DEF Req, Requests
<1> QED
  BY <1>2, NoMessage DEF Req

(* Messages grow old without other changes.                                *)
LEMMA AgedFacts ==
  ASSUME NEW c \in Clients, NEW kind \in Kinds, NEW m \in Requests \cup Responses \cup {NoMsg}
  PROVE  LET n == Aged(m, c, kind)
         IN  /\ m \in Requests => n \in Requests
             /\ m \in Responses => n \in Responses
             /\ n = NoMsg <=> m = NoMsg
             /\ m # NoMsg => /\ n.id = m.id /\ n.type = m.type /\ n.key = m.key
                             /\ n.data = m.data /\ n.from = m.from
                             /\ m.from # c \/ m.op # kind => n = m
             /\ m \in Responses => n.ok = m.ok
<1>1. CASE m = NoMsg
  BY <1>1, NoMessage DEF Aged
<1>2. CASE m \in Requests
  <2>1. [m EXCEPT !.op = "old"] \in Requests
    BY <1>2 DEF Requests, Ops
  <2>2. Aged(m, c, kind) \in Requests
    BY <1>2, <2>1 DEF Aged
  <2>3. m \notin Responses
    BY <1>2 DEF Requests, Responses
  <2> QED
    BY <1>2, <2>2, <2>3, NoMessage DEF Aged, Requests
<1>3. CASE m \in Responses
  <2>1. [m EXCEPT !.op = "old"] \in Responses
    BY <1>3 DEF Responses, Ops
  <2>2. Aged(m, c, kind) \in Responses
    BY <1>3, <2>1 DEF Aged
  <2>3. m \notin Requests
    BY <1>3 DEF Requests, Responses
  <2> QED
    BY <1>3, <2>2, <2>3, NoMessage DEF Aged, Responses
<1> QED
  BY <1>1, <1>2, <1>3

(* The history of a client with one entry replaced.                        *)
LEMMA SinceFacts ==
  ASSUME NEW h \in [Clients -> [Kinds -> SUBSET Stored]], NEW c \in Clients,
         NEW kind \in Kinds, NEW X \in SUBSET Stored
  PROVE  LET g == [h EXCEPT ![c][kind] = X]
         IN  /\ g \in [Clients -> [Kinds -> SUBSET Stored]]
             /\ g[c][kind] = X
             /\ \A d \in Clients, k \in Kinds : d # c \/ k # kind => g[d][k] = h[d][k]
OBVIOUS

(* The parts of the type invariant that a call changes.                    *)
LEMMA BeginType ==
  ASSUME TypeInv, NEW c \in Clients, NEW kind \in Kinds, NEW r \in Requests,
         Begin(c, kind, r)
  PROVE  /\ request' \in Requests \cup {NoMsg} /\ busy' \in Requests \cup {NoMsg}
         /\ response' \in Responses \cup {NoMsg}
         /\ reqNew' \in BOOLEAN /\ rspNew' \in [Clients -> BOOLEAN]
         /\ calls' \in 0..MaxCalls
         /\ since' \in [Clients -> [Kinds -> SUBSET Stored]]
         /\ \A d \in Clients : rspNew'[d] => response' # NoMsg
<1>1. request' \in Requests \cup {NoMsg} /\ reqNew' \in BOOLEAN
  BY DEF Begin, Publish
<1>2. busy' \in Requests \cup {NoMsg} /\ response' \in Responses \cup {NoMsg}
  BY AgedFacts DEF Begin, TypeInv, TypeOK
<1>3. rspNew' \in [Clients -> BOOLEAN]
  BY DEF Begin, Drained, TypeInv, TypeOK
<1>4. calls' \in 0..MaxCalls
  BY DatamanConstants DEF Begin, TypeInv, TypeOK
<1>5. since' \in [Clients -> [Kinds -> SUBSET Stored]]
  <2>1. store[r.key] \in Stored
    BY MessageFacts DEF TypeInv, TypeOK
  <2> QED
    BY <2>1, SinceFacts DEF Begin, TypeInv, TypeOK
<1>6. \A d \in Clients : rspNew'[d] => response' # NoMsg
  BY AgedFacts DEF Begin, Drained, TypeInv, TypeOK
<1> QED
  BY <1>1, <1>2, <1>3, <1>4, <1>5, <1>6

(* An answer of the task keeps the types.                                  *)
LEMMA AnswerType ==
  ASSUME TypeInv, busy # NoMsg, NEW newId \in 0..MaxIds, NEW ok \in BOOLEAN,
         NEW data \in Stored, NEW s \in [Keys -> Stored],
         Answer(newId, ok, data, s), nextId' \in 1..MaxIds
  PROVE  TypeInv'
<1>1. busy \in Requests
  BY DEF TypeInv, TypeOK
<1>2. response' \in Responses
  BY <1>1 DEF Answer, Requests, Responses
<1>3. since' \in [Clients -> [Kinds -> SUBSET Stored]]
  <2>1. ASSUME NEW c \in Clients, NEW k \in Kinds, NEW w \in InProgress(c, k)
        PROVE  s[w.key] \in Stored
    <3>1. w \in Requests
      BY <2>1 DEF InProgress, TypeInv, TypeOK
    <3> QED
      BY <3>1, MessageFacts
  <2> QED
    BY <2>1 DEF Answer, TypeInv, TypeOK
<1>4. TypeOK'
  BY <1>2, <1>3 DEF Answer, TypeInv, TypeOK, syncVars, asyncVars
<1> QED
  BY <1>2, <1>4, NoMessage DEF Answer, TypeInv, asyncVars, Waits

(* What the four kinds of answers have in common.                          *)
Serves(newId, ok, data, s) ==
  /\ Answer(newId, ok, data, s)
  /\ busy.type # "getId" => newId = busy.id /\ nextId' = nextId
  /\ busy.type = "getId" =>
       /\ ok = FALSE
       /\ \/ nextId < MaxIds /\ newId = nextId /\ nextId' = nextId + 1
          \/ newId = 0 /\ nextId' = nextId
  /\ ok /\ busy.type = "read" => data = s[busy.key]

LEMMA ServeFacts ==
  ASSUME TypeInv, Serve
  PROVE  /\ busy # NoMsg /\ busy \in Requests
         /\ \E newId \in 0..MaxIds, ok \in BOOLEAN, data \in Stored, s \in [Keys -> Stored] :
              Serves(newId, ok, data, s)
<1>1. busy # NoMsg /\ busy \in Requests
  BY DEF Serve, ServeGetId, ServeRead, ServeWrite, ServeClear, TypeInv, TypeOK
<1>2. /\ busy.id \in 0..MaxIds /\ busy.key \in Keys /\ store[busy.key] \in Stored
      /\ busy.data \in Stored /\ NoData \in Stored /\ Torn \in Stored
      /\ nextId \in 1..MaxIds /\ MaxIds \in Nat /\ store \in [Keys -> Stored]
  BY <1>1, MessageFacts, DatamanConstants DEF TypeInv, TypeOK, Stored
<1> SUFFICES \E newId \in 0..MaxIds, ok \in BOOLEAN, data \in Stored, s \in [Keys -> Stored] :
               Serves(newId, ok, data, s)
  BY <1>1
<1>3. CASE ServeGetId
  <2> DEFINE n == IF HasId THEN nextId ELSE 0
  <2>1. n \in 0..MaxIds
    BY <1>2
  <2>2. /\ busy.type = "getId"
        /\ \/ nextId < MaxIds /\ n = nextId /\ nextId' = nextId + 1
           \/ n = 0 /\ nextId' = nextId
    BY <1>2, <1>3 DEF ServeGetId, HasId
  <2>3. Answer(n, FALSE, NoData, store)
    BY <1>3 DEF ServeGetId
  <2> HIDE DEF n
  <2>4. Serves(n, FALSE, NoData, store)
    BY <2>2, <2>3 DEF Serves
  <2> QED
    BY <1>2, <2>1, <2>4
<1>4. CASE \E ok \in BOOLEAN : ServeRead(ok)
  <2>1. PICK ok \in BOOLEAN : ServeRead(ok)
    BY <1>4
  <2> DEFINE d == IF ok THEN store[busy.key] ELSE NoData
  <2>2. d \in Stored /\ (ok => d = store[busy.key])
    BY <1>2
  <2>3. Answer(busy.id, ok, d, store) /\ busy.type = "read" /\ nextId' = nextId
    BY <2>1 DEF ServeRead
  <2> HIDE DEF d
  <2>4. Serves(busy.id, ok, d, store)
    BY <2>2, <2>3 DEF Serves
  <2> QED
    BY <1>2, <2>2, <2>4
<1>5. CASE \E ok \in BOOLEAN, left \in Stored : ServeWrite(ok, left)
  <2>1. PICK ok \in BOOLEAN, left \in Stored : ServeWrite(ok, left)
    BY <1>5
  <2> DEFINE s == [store EXCEPT ![busy.key] = left]
  <2>2. s \in [Keys -> Stored]
    BY <1>2
  <2>3. Answer(busy.id, ok, NoData, s) /\ busy.type = "write" /\ nextId' = nextId
    BY <2>1 DEF ServeWrite
  <2> HIDE DEF s
  <2>4. Serves(busy.id, ok, NoData, s)
    BY <2>3 DEF Serves
  <2> QED
    BY <1>2, <2>2, <2>4
<1>6. CASE \E ok \in BOOLEAN, n \in 0..Cardinality(Indexes) : ServeClear(ok, n)
  <2>1. PICK ok \in BOOLEAN, n \in 0..Cardinality(Indexes) : ServeClear(ok, n)
    BY <1>6
  <2> DEFINE s == [k \in Keys |-> IF k[1] = busy.key[1] /\ k[2] < n THEN NoData ELSE store[k]]
  <2>2. s \in [Keys -> Stored]
    BY <1>2
  <2>3. Answer(busy.id, ok, NoData, s) /\ busy.type = "clear" /\ nextId' = nextId
    BY <2>1 DEF ServeClear
  <2> HIDE DEF s
  <2>4. Serves(busy.id, ok, NoData, s)
    BY <2>3 DEF Serves
  <2> QED
    BY <1>2, <2>2, <2>4
<1> QED
  BY <1>3, <1>4, <1>5, <1>6 DEF Serve

(* The steps of a client keep the types.                                   *)
LEMMA ClientType ==
  ASSUME TypeInv, NEW c \in Clients, ClientNext(c)
  PROVE  TypeInv'
<1> USE DEF TypeInv, Kinds
<1>1. CASE Construct(c)
  <2>1. PICK k \in Keys :
          LET r == Req(c, "sync", "getId", k, NoData)
          IN  Begin(c, "sync", r) /\ sync' = [sync EXCEPT ![c] = r]
    BY <1>1 DEF Construct
  <2> DEFINE r == Req(c, "sync", "getId", k, NoData)
  <2>2. r \in Requests
    BY ReqFacts DEF Types
  <2>3. Begin(c, "sync", r) /\ sync' = [sync EXCEPT ![c] = r]
    BY <2>1
  <2> HIDE DEF r
  <2>4. TypeOK'
    BY <1>1, <2>2, <2>3, BeginType DEF Construct, TypeOK, asyncVars
  <2> QED
    BY <1>1, <2>2, <2>3, <2>4, BeginType DEF Construct, asyncVars, Waits
<1>2. CASE \E o \in Operations(SyncTypes[c], Indexes) : CallSync(c, o)
  <2>1. PICK o \in Operations(SyncTypes[c], Indexes) : CallSync(c, o)
    BY <1>2
  <2>2. o[1] \in Types /\ o[2] \in Keys /\ o[3] \in Values \cup {NoData}
    BY OperationFacts, DatamanConstants
  <2> DEFINE r == Req(c, "sync", o[1], o[2], o[3])
  <2>3. r \in Requests
    BY <2>2, ReqFacts
  <2>4. Begin(c, "sync", r) /\ sync' = [sync EXCEPT ![c] = r]
    BY <2>1 DEF CallSync
  <2> HIDE DEF r
  <2>5. TypeOK'
    BY <2>1, <2>3, <2>4, BeginType DEF CallSync, TypeOK, asyncVars
  <2> QED
    BY <2>1, <2>3, <2>4, <2>5, BeginType DEF CallSync, asyncVars, Waits
<1>3. CASE \E o \in Operations(AsyncTypes[c], {0}) : CallAsync(c, o)
  <2>1. PICK o \in Operations(AsyncTypes[c], {0}) : CallAsync(c, o)
    BY <1>3
  <2>2. o[1] \in Types /\ o[2] \in Keys /\ o[3] \in Values \cup {NoData}
    BY OperationFacts, DatamanConstants
  <2> DEFINE r == Req(c, "async", o[1], o[2], o[3])
  <2>3. r \in Requests /\ r # NoMsg
    BY <2>2, ReqFacts
  <2>4. Begin(c, "async", r) /\ active' = [active EXCEPT ![c] = r]
    BY <2>1 DEF CallAsync
  <2> HIDE DEF r
  <2>5. TypeOK'
    BY <2>1, <2>3, <2>4, BeginType DEF CallAsync, TypeOK, syncVars
  <2> QED
    BY <2>1, <2>3, <2>4, <2>5, BeginType DEF CallAsync, syncVars, Waits, TypeOK
<1>4. CASE Receive(c)
  <2>1. response \in Responses
    BY <1>4 DEF Receive, TypeOK
  <2>2. /\ sync' \in [Clients -> Requests \cup {NoMsg}] /\ id' \in [Clients -> 0..MaxIds]
        /\ buffer' \in [Clients -> Stored] /\ rspNew' \in [Clients -> BOOLEAN]
    BY <1>4, <2>1, MessageFacts DEF Receive, TypeOK
  <2>3. since' \in [Clients -> [Kinds -> SUBSET Stored]]
    BY <1>4, SinceFacts DEF Receive, TypeOK
  <2>4. TypeOK'
    BY <1>4, <2>2, <2>3 DEF Receive, TypeOK, serverVars, asyncVars
  <2> QED
    BY <1>4, <2>4 DEF Receive, asyncVars, Waits, TypeOK
<1>5. CASE Repeat(c)
  <2>1. TypeOK'
    BY <1>5 DEF Repeat, Publish, TypeOK, serverVars, syncVars, asyncVars
  <2> QED
    BY <1>5, <2>1 DEF Repeat, asyncVars, Waits
<1>6. CASE GiveUp(c)
  <2>1. since' \in [Clients -> [Kinds -> SUBSET Stored]]
    BY <1>6, SinceFacts DEF GiveUp, TypeOK
  <2>2. TypeOK'
    BY <1>6, <2>1 DEF GiveUp, TypeOK, topicVars, serverVars, asyncVars
  <2> QED
    BY <1>6, <2>2 DEF GiveUp, asyncVars, topicVars, Waits
<1>7. CASE \E elapsed \in BOOLEAN : Update(c, elapsed)
  <2>1. PICK elapsed \in BOOLEAN : Update(c, elapsed)
    BY <1>7
  <2>2. /\ request' \in Requests \cup {NoMsg} /\ reqNew' \in BOOLEAN
        /\ tangled' \subseteq Clients /\ rspNew' \in [Clients -> BOOLEAN]
    BY <2>1 DEF Update, Publish, TypeOK
  <2>3. AsyncHit(c) => response \in Responses
    BY DEF AsyncHit, TypeOK
  <2>4. /\ state' \in [Clients -> {"Idle", "RequestSent", "ResponseReceived"}]
        /\ status' \in [Clients -> BOOLEAN] /\ buffer' \in [Clients -> Stored]
    BY <2>1, <2>3, MessageFacts DEF Update, TypeOK
  <2>5. since' \in [Clients -> [Kinds -> SUBSET Stored]]
    <3>1. since' = since \/ since' = [since EXCEPT ![c]["async"] = {}]
      BY <2>1 DEF Update
    <3>2. {} \in SUBSET Stored /\ since \in [Clients -> [Kinds -> SUBSET Stored]]
      BY DEF TypeOK
    <3>3. [since EXCEPT ![c]["async"] = {}] \in [Clients -> [Kinds -> SUBSET Stored]]
      BY <3>2, SinceFacts
    <3> QED
      BY <3>1, <3>2, <3>3
  <2>6. TypeOK'
    BY <2>1, <2>2, <2>4, <2>5 DEF Update, TypeOK, serverVars, syncVars
  <2> QED
    BY <2>1, <2>6 DEF Update, Waits, TypeOK
<1>8. CASE lastOperationCompleted(c)
  <2>1. TypeOK'
    BY <1>8 DEF lastOperationCompleted, TypeOK, topicVars, serverVars, syncVars
  <2> QED
    BY <1>8, <2>1 DEF lastOperationCompleted, Waits, TypeOK, topicVars
<1>9. CASE abortCurrentOperation(c)
  <2>1. since' \in [Clients -> [Kinds -> SUBSET Stored]]
    BY <1>9, SinceFacts DEF abortCurrentOperation, TypeOK
  <2>2. TypeOK'
    BY <1>9, <2>1 DEF abortCurrentOperation, TypeOK, topicVars, serverVars, syncVars
  <2> QED
    BY <1>9, <2>2 DEF abortCurrentOperation, Waits, TypeOK, topicVars
<1> QED
  BY <1>1, <1>2, <1>3, <1>4, <1>5, <1>6, <1>7, <1>8, <1>9 DEF ClientNext

(* The types are inductive.                                                *)
LEMMA TypeInvariant == Spec => []TypeInv
<1>1. Init => TypeInv
  <2>1. ASSUME Init PROVE TypeOK
    <3>1. since \in [Clients -> [Kinds -> SUBSET Stored]]
      BY <2>1 DEF Init
    <3>2. NoData \in Stored /\ 0 \in 0..MaxIds /\ 1 \in 1..MaxIds /\ 0 \in 0..MaxCalls
      BY DatamanConstants DEF Stored
    <3> QED
      BY <2>1, <3>1, <3>2 DEF Init, TypeOK
  <2> QED
    BY <2>1 DEF Init, TypeInv, Waits
<1>2. TypeInv /\ [Next]_vars => TypeInv'
  <2> SUFFICES ASSUME TypeInv, [Next]_vars PROVE TypeInv'
    OBVIOUS
  <2>1. CASE Take
    BY <2>1 DEF Take, TypeInv, TypeOK, syncVars, asyncVars, Waits
  <2>2. CASE Serve
    <3>1. PICK newId \in 0..MaxIds, ok \in BOOLEAN, data \in Stored, s \in [Keys -> Stored] :
            Serves(newId, ok, data, s)
      BY <2>2, ServeFacts
    <3>2. busy # NoMsg /\ Answer(newId, ok, data, s)
      BY <2>2, <3>1, ServeFacts DEF Serves
    <3>3. nextId' \in 1..MaxIds
      BY <3>1, DatamanConstants DEF Serves, TypeInv, TypeOK
    <3> QED
      BY <3>2, <3>3, AnswerType
  <2>3. CASE \E c \in Clients : ClientNext(c)
    BY <2>3, ClientType
  <2>4. CASE UNCHANGED vars
    BY <2>4 DEF vars, topicVars, serverVars, syncVars, asyncVars, TypeInv, TypeOK, Waits
  <2> QED
    BY <2>1, <2>2, <2>3, <2>4 DEF Next
<1> QED
  BY <1>1, <1>2, PTL DEF Spec

(* Every variable stays in its type, however many clients there are and    *)
(* whatever they repeat, give up or abort; identifiers fit a byte.         *)
THEOREM DatamanTypeCorrectness == Spec => []TypeOK
<1>1. TypeInv => TypeOK
  BY DEF TypeInv
<1> QED
  BY <1>1, TypeInvariant, PTL
-----------------------------------------------------------------------------
(* What a call changes.                                                    *)
LEMMA BeginFacts ==
  ASSUME TypeInv, NEW c \in Clients, NEW kind \in Kinds, NEW r \in Requests,
         Begin(c, kind, r)
  PROVE  /\ request' = r /\ reqNew'
         /\ ~rspNew'[c] /\ \A d \in Clients : d # c => rspNew'[d] = rspNew[d]
         /\ busy' = NoMsg <=> busy = NoMsg
         /\ busy # NoMsg => /\ busy'.id = busy.id /\ busy'.type = busy.type
                            /\ busy'.key = busy.key /\ busy'.from = busy.from
                            /\ busy.from # c \/ busy.op # kind => busy' = busy
         /\ response' = NoMsg <=> response = NoMsg
         /\ response # NoMsg =>
              /\ response'.id = response.id /\ response'.type = response.type
              /\ response'.key = response.key /\ response'.from = response.from
              /\ response'.ok = response.ok /\ response'.data = response.data
              /\ response.from # c \/ response.op # kind => response' = response
         /\ \A d \in Clients, k \in Kinds : d # c \/ k # kind => since'[d][k] = since[d][k]
<1>1. busy \in Requests \cup {NoMsg} /\ response \in Responses \cup {NoMsg}
      /\ rspNew \in [Clients -> BOOLEAN]
  BY DEF TypeInv, TypeOK
<1>2. /\ request' = r /\ reqNew'
      /\ ~rspNew'[c] /\ \A d \in Clients : d # c => rspNew'[d] = rspNew[d]
  BY <1>1 DEF Begin, Publish, Drained
<1>3. busy' = Aged(busy, c, kind) /\ response' = Aged(response, c, kind)
  BY DEF Begin
<1>4. \A d \in Clients, k \in Kinds : d # c \/ k # kind => since'[d][k] = since[d][k]
  BY DEF Begin, TypeInv, TypeOK
<1>5. /\ busy' = NoMsg <=> busy = NoMsg
      /\ busy # NoMsg => /\ busy'.id = busy.id /\ busy'.type = busy.type
                         /\ busy'.key = busy.key /\ busy'.from = busy.from
                         /\ busy.from # c \/ busy.op # kind => busy' = busy
  BY <1>1, <1>3, AgedFacts
<1>6. /\ response' = NoMsg <=> response = NoMsg
      /\ response # NoMsg =>
           /\ response'.id = response.id /\ response'.type = response.type
           /\ response'.key = response.key /\ response'.from = response.from
           /\ response'.ok = response.ok /\ response'.data = response.data
           /\ response.from # c \/ response.op # kind => response' = response
  BY <1>1, <1>3, AgedFacts
<1> QED
  BY <1>2, <1>4, <1>5, <1>6

(* A step of a client keeps the identifiers apart.                         *)
LEMMA ClientId ==
  ASSUME TypeInv, IdInv, NEW c \in Clients, ClientNext(c)
  PROVE  IdInv'
<1> USE DEF Kinds
<1>0. /\ id \in [Clients -> 0..MaxIds] /\ nextId \in 1..MaxIds /\ MaxIds \in Nat
      /\ sync \in [Clients -> Requests \cup {NoMsg}] /\ made \in [Clients -> BOOLEAN]
      /\ response \in Responses \cup {NoMsg}
  BY DatamanConstants DEF TypeInv, TypeOK
<1>1. CASE Construct(c)
  <2>1. PICK k \in Keys :
          LET r == Req(c, "sync", "getId", k, NoData)
          IN  Begin(c, "sync", r) /\ sync' = [sync EXCEPT ![c] = r]
    BY <1>1 DEF Construct
  <2> DEFINE r == Req(c, "sync", "getId", k, NoData)
  <2>2. r \in Requests /\ r.type = "getId" /\ r.id = id[c]
    BY ReqFacts DEF Types, TypeInv
  <2>3. Begin(c, "sync", r) /\ sync' = [sync EXCEPT ![c] = r]
    BY <2>1
  <2> HIDE DEF r
  <2>4. /\ id' = id /\ nextId' = nextId /\ made' = [made EXCEPT ![c] = TRUE] /\ ~made[c]
    BY <1>1 DEF Construct
  <2> QED
    BY <1>0, <2>2, <2>3, <2>4, BeginFacts DEF IdInv, IdsUnique
<1>2. CASE \E o \in Operations(SyncTypes[c], Indexes) : CallSync(c, o)
  <2>1. PICK o \in Operations(SyncTypes[c], Indexes) : CallSync(c, o)
    BY <1>2
  <2>2. o[1] \in Types \ {"getId"} /\ o[2] \in Keys /\ o[3] \in Values \cup {NoData}
    BY OperationFacts, DatamanConstants
  <2> DEFINE r == Req(c, "sync", o[1], o[2], o[3])
  <2>3. r \in Requests /\ r.type # "getId"
    BY <2>2, ReqFacts DEF TypeInv
  <2>4. Begin(c, "sync", r) /\ sync' = [sync EXCEPT ![c] = r]
    BY <2>1 DEF CallSync
  <2> HIDE DEF r
  <2>5. id' = id /\ nextId' = nextId /\ made' = made
    BY <2>1 DEF CallSync
  <2> QED
    BY <1>0, <2>3, <2>4, <2>5, BeginFacts DEF IdInv, IdsUnique
<1>3. CASE \E o \in Operations(AsyncTypes[c], {0}) : CallAsync(c, o)
  <2>1. PICK o \in Operations(AsyncTypes[c], {0}) : CallAsync(c, o)
    BY <1>3
  <2>2. o[1] \in Types \ {"getId"} /\ o[2] \in Keys /\ o[3] \in Values \cup {NoData}
    BY OperationFacts, DatamanConstants
  <2> DEFINE r == Req(c, "async", o[1], o[2], o[3])
  <2>3. r \in Requests
    BY <2>2, ReqFacts DEF TypeInv
  <2>4. Begin(c, "async", r)
    BY <2>1 DEF CallAsync
  <2> HIDE DEF r
  <2>5. id' = id /\ nextId' = nextId /\ made' = made /\ sync' = sync
    BY <2>1 DEF CallAsync, syncVars
  <2> QED
    BY <1>0, <2>3, <2>4, <2>5, BeginFacts DEF IdInv, IdsUnique
<1>4. CASE Receive(c)
  <2>1. /\ nextId' = nextId /\ made' = made /\ response' = response /\ response # NoMsg
        /\ sync' = IF Hit(c) THEN [sync EXCEPT ![c] = NoMsg] ELSE sync
        /\ id' = IF Hit(c) /\ sync[c].type = "getId" THEN [id EXCEPT ![c] = response.id] ELSE id
    BY <1>4 DEF Receive, serverVars, TypeInv
  <2>2. CASE Hit(c) /\ sync[c].type = "getId"
    <3>1. response.type = "getId" /\ sync[c] # NoMsg
      BY <2>2 DEF Hit, Accepts
    <3>2. response.id = 0 \/ response.from = c
      BY <2>2, <3>1 DEF Hit, Accepts, IdInv
    <3> QED
      BY <1>0, <2>1, <2>2, <3>1, <3>2 DEF IdInv, IdsUnique
  <2>3. CASE ~(Hit(c) /\ sync[c].type = "getId")
    BY <1>0, <2>1, <2>3 DEF IdInv, IdsUnique
  <2> QED
    BY <2>2, <2>3
<1>5. CASE \/ Repeat(c) \/ GiveUp(c) \/ \E elapsed \in BOOLEAN : Update(c, elapsed)
           \/ lastOperationCompleted(c) \/ abortCurrentOperation(c)
  <2>1. /\ id' = id /\ nextId' = nextId /\ made' = made /\ response' = response
        /\ sync' = sync \/ sync' = [sync EXCEPT ![c] = NoMsg]
    BY <1>5 DEF Repeat, GiveUp, Update, lastOperationCompleted, abortCurrentOperation,
                topicVars, serverVars, syncVars
  <2> QED
    BY <1>0, <2>1 DEF IdInv, IdsUnique
<1> QED
  BY <1>1, <1>2, <1>3, <1>4, <1>5 DEF ClientNext

(* A step of the task keeps them apart.                                    *)
LEMMA ServeId ==
  ASSUME TypeInv, IdInv, Serve
  PROVE  IdInv'
<1>1. PICK newId \in 0..MaxIds, ok \in BOOLEAN, data \in Stored, s \in [Keys -> Stored] :
        Serves(newId, ok, data, s)
  BY ServeFacts
<1>2. /\ busy \in Requests /\ id \in [Clients -> 0..MaxIds] /\ nextId \in 1..MaxIds
      /\ MaxIds \in Nat
  BY ServeFacts, DatamanConstants DEF TypeInv, TypeOK
<1>3. /\ response'.id = newId /\ response'.type = busy.type /\ response'.ok = ok
      /\ id' = id /\ sync' = sync /\ made' = made
  BY <1>1 DEF Serves, Answer, syncVars
<1>4. /\ nextId' \in Nat /\ nextId <= nextId'
      /\ busy.type = "getId" => ~ok /\ (newId # 0 => newId = nextId /\ newId < nextId')
  BY <1>1, <1>2 DEF Serves
<1>5. /\ \A c \in Clients : id[c] < nextId'
      /\ \A c \in Clients : id[c] # nextId
  BY <1>2, <1>4 DEF IdInv, IdsUnique
<1> QED
  BY <1>2, <1>3, <1>4, <1>5 DEF IdInv, IdsUnique

(* The identifiers are inductive.                                          *)
LEMMA IdInvariant == Spec => []IdInv
<1>1. Init => IdInv
  BY DEF Init, IdInv, IdsUnique
<1>2. TypeInv /\ IdInv /\ [Next]_vars => IdInv'
  <2> SUFFICES ASSUME TypeInv, IdInv, [Next]_vars PROVE IdInv'
    OBVIOUS
  <2>1. CASE Take
    BY <2>1 DEF Take, IdInv, IdsUnique, syncVars
  <2>2. CASE UNCHANGED vars
    BY <2>2 DEF vars, topicVars, serverVars, syncVars, IdInv, IdsUnique
  <2> QED
    BY <2>1, <2>2, ServeId, ClientId DEF Next
<1> QED
  BY <1>1, <1>2, TypeInvariant, PTL DEF Spec

(* No two clients work under the same identifier, although requests for    *)
(* one may be repeated, lost or answered twice.                            *)
THEOREM DatamanIdsUnique == Spec => []IdsUnique
<1>1. IdInv => IdsUnique
  BY DEF IdInv
<1> QED
  BY <1>1, IdInvariant, PTL
-----------------------------------------------------------------------------
(* What synchronous calls, the constructor's included, have in common.     *)
SyncBegins(c, r) ==
  /\ r # NoMsg /\ r.id = id[c] /\ r.from = c /\ r.op = "sync"
  /\ r.type = "getId" <=> id[c] = 0
  /\ Begin(c, "sync", r) /\ sync[c] = NoMsg /\ sync' = [sync EXCEPT ![c] = r]
  /\ UNCHANGED <<id, asyncVars>>
  /\ tangled \subseteq tangled' /\ tangled' \subseteq tangled \cup {c}
  /\ Waits(c) /\ Same(r, active[c]) => c \in tangled'

LEMMA SyncCall ==
  ASSUME TypeInv, IdInv, LabelInv, NEW c \in Clients,
         Construct(c) \/ \E o \in Operations(SyncTypes[c], Indexes) : CallSync(c, o)
  PROVE  \E r \in Requests : SyncBegins(c, r)
<1> USE DEF Kinds
<1>1. CASE Construct(c)
  <2>1. PICK k \in Keys :
          LET r == Req(c, "sync", "getId", k, NoData)
          IN  Begin(c, "sync", r) /\ sync' = [sync EXCEPT ![c] = r]
    BY <1>1 DEF Construct
  <2> DEFINE r == Req(c, "sync", "getId", k, NoData)
  <2>2. /\ r \in Requests /\ r # NoMsg /\ r.id = id[c] /\ r.from = c /\ r.op = "sync"
        /\ r.type = "getId"
    BY ReqFacts DEF Types, TypeInv
  <2>3. Begin(c, "sync", r) /\ sync' = [sync EXCEPT ![c] = r]
    BY <2>1
  <2> HIDE DEF r
  <2>4. UNCHANGED <<id, asyncVars, tangled>> /\ ~made[c] /\ sync[c] = NoMsg
    BY <1>1 DEF Construct
  <2>5. id[c] = 0 /\ ~Waits(c)
    BY <2>4 DEF IdInv, LabelInv
  <2>6. SyncBegins(c, r)
    BY <2>2, <2>3, <2>4, <2>5 DEF SyncBegins
  <2> QED
    BY <2>2, <2>6
<1>2. CASE \E o \in Operations(SyncTypes[c], Indexes) : CallSync(c, o)
  <2>1. PICK o \in Operations(SyncTypes[c], Indexes) : CallSync(c, o)
    BY <1>2
  <2>2. o[1] \in Types \ {"getId"} /\ o[2] \in Keys /\ o[3] \in Values \cup {NoData}
    BY OperationFacts, DatamanConstants
  <2> DEFINE r == Req(c, "sync", o[1], o[2], o[3])
  <2>3. /\ r \in Requests /\ r # NoMsg /\ r.id = id[c] /\ r.from = c /\ r.op = "sync"
        /\ r.type = o[1] /\ r.key = o[2]
    BY <2>2, ReqFacts DEF TypeInv
  <2>4. Begin(c, "sync", r) /\ sync' = [sync EXCEPT ![c] = r]
    BY <2>1 DEF CallSync
  <2> HIDE DEF r
  <2>5. UNCHANGED <<id, asyncVars>> /\ id[c] # 0 /\ sync[c] = NoMsg
    BY <2>1 DEF CallSync
  <2>6. /\ tangled \subseteq tangled' /\ tangled' \subseteq tangled \cup {c}
        /\ Waits(c) /\ active[c].type = o[1] /\ active[c].key = o[2] => c \in tangled'
    BY <2>1 DEF CallSync
  <2>7. SyncBegins(c, r)
    BY <2>2, <2>3, <2>4, <2>5, <2>6 DEF SyncBegins, Same
  <2> QED
    BY <2>3, <2>7
<1> QED
  BY <1>1, <1>2

(* What asynchronous calls have in common.                                 *)
AsyncBegins(c, r) ==
  /\ r # NoMsg /\ r.id = id[c] /\ id[c] # 0 /\ r.from = c /\ r.op = "async"
  /\ r.type # "getId"
  /\ Begin(c, "async", r) /\ sync[c] = NoMsg /\ ~Waits(c)
  /\ active' = [active EXCEPT ![c] = r] /\ state' = [state EXCEPT ![c] = "RequestSent"]
  /\ UNCHANGED <<id, sync, tangled>>

LEMMA AsyncCall ==
  ASSUME TypeInv, NEW c \in Clients,
         \E o \in Operations(AsyncTypes[c], {0}) : CallAsync(c, o)
  PROVE  \E r \in Requests : AsyncBegins(c, r)
<1> USE DEF Kinds
<1>1. PICK o \in Operations(AsyncTypes[c], {0}) : CallAsync(c, o)
  OBVIOUS
<1>2. o[1] \in Types \ {"getId"} /\ o[2] \in Keys /\ o[3] \in Values \cup {NoData}
  BY OperationFacts, DatamanConstants
<1> DEFINE r == Req(c, "async", o[1], o[2], o[3])
<1>3. /\ r \in Requests /\ r # NoMsg /\ r.id = id[c] /\ r.from = c /\ r.op = "async"
      /\ r.type = o[1]
  BY <1>2, ReqFacts DEF TypeInv
<1>4. Begin(c, "async", r) /\ active' = [active EXCEPT ![c] = r]
  BY <1>1 DEF CallAsync
<1> HIDE DEF r
<1>5. /\ UNCHANGED <<id, sync, tangled>> /\ id[c] # 0 /\ sync[c] = NoMsg /\ ~Waits(c)
      /\ state' = [state EXCEPT ![c] = "RequestSent"]
  BY <1>1 DEF CallAsync, syncVars, Waits
<1>6. AsyncBegins(c, r)
  BY <1>2, <1>3, <1>4, <1>5 DEF AsyncBegins
<1> QED
  BY <1>3, <1>6

(* The variables that no step changes in their types, at hand.             *)
LEMMA TypeFacts ==
  ASSUME TypeInv
  PROVE  /\ request \in Requests \cup {NoMsg} /\ busy \in Requests \cup {NoMsg}
         /\ response \in Responses \cup {NoMsg}
         /\ rspNew \in [Clients -> BOOLEAN] /\ id \in [Clients -> 0..MaxIds]
         /\ sync \in [Clients -> Requests \cup {NoMsg}]
         /\ active \in [Clients -> Requests \cup {NoMsg}]
         /\ state \in [Clients -> {"Idle", "RequestSent", "ResponseReceived"}]
         /\ since \in [Clients -> [Kinds -> SUBSET Stored]]
         /\ \A r \in Requests : r.from \in Clients
         /\ \A r \in Responses : r.from \in Clients
BY MessageFacts DEF TypeInv, TypeOK

(* A step of a client keeps the labels of the messages.                    *)
LEMMA ClientLabel ==
  ASSUME TypeInv, IdInv, LabelInv, NEW c \in Clients, ClientNext(c)
  PROVE  LabelInv'
<1> USE TypeFacts, DatamanConstants DEF Kinds
<1>1. CASE Construct(c) \/ \E o \in Operations(SyncTypes[c], Indexes) : CallSync(c, o)
  <2>1. PICK r \in Requests : SyncBegins(c, r)
    BY <1>1, SyncCall
  <2>2. Begin(c, "sync", r)
    BY <2>1 DEF SyncBegins
  <2>3. Labelled(request)' /\ Labelled(busy)'
    BY <2>1, <2>2, BeginFacts DEF SyncBegins, LabelInv, Labelled
  <2> QED
    BY <2>1, <2>2, <2>3, BeginFacts DEF SyncBegins, LabelInv, Labelled, asyncVars, Waits
<1>2. CASE \E o \in Operations(AsyncTypes[c], {0}) : CallAsync(c, o)
  <2>1. PICK r \in Requests : AsyncBegins(c, r)
    BY <1>2, AsyncCall
  <2>2. Begin(c, "async", r)
    BY <2>1 DEF AsyncBegins
  <2>3. Labelled(request)' /\ Labelled(busy)'
    BY <2>1, <2>2, BeginFacts DEF AsyncBegins, LabelInv, Labelled
  <2> QED
    BY <2>1, <2>2, <2>3, BeginFacts DEF AsyncBegins, LabelInv, Labelled, Waits
<1>3. CASE Receive(c)
  <2>1. /\ request' = request /\ busy' = busy /\ response' = response
        /\ state' = state /\ active' = active
        /\ sync' = sync \/ sync' = [sync EXCEPT ![c] = NoMsg]
    BY <1>3 DEF Receive, serverVars, asyncVars
  <2>2. id' = id \/ (id[c] = 0 /\ \A d \in Clients : d # c => id'[d] = id[d])
    BY <1>3 DEF Receive, IdInv, Hit
  <2>3. \A d \in Clients : id[d] # 0 => id'[d] = id[d]
    BY <2>2
  <2> QED
    BY <2>1, <2>3 DEF LabelInv, Labelled, Waits
<1>4. CASE Repeat(c)
  BY <1>4 DEF Repeat, Publish, serverVars, syncVars, asyncVars, LabelInv, Labelled, Waits
<1>5. CASE GiveUp(c)
  BY <1>5 DEF GiveUp, topicVars, serverVars, asyncVars, LabelInv, Labelled, Waits
<1>6. CASE \E elapsed \in BOOLEAN : Update(c, elapsed)
  <2>1. PICK elapsed \in BOOLEAN : Update(c, elapsed)
    BY <1>6
  <2>2. /\ busy' = busy /\ response' = response /\ id' = id /\ sync' = sync /\ Waits(c)
        /\ active' = active
        /\ request' = request \/ request' = active[c]
        /\ \A d \in Clients : state'[d] = "RequestSent" => state[d] = "RequestSent"
    BY <2>1 DEF Update, Publish, serverVars, syncVars
  <2> QED
    BY <2>2 DEF LabelInv, Labelled, Waits
<1>7. CASE lastOperationCompleted(c) \/ abortCurrentOperation(c)
  <2>1. /\ busy' = busy /\ response' = response /\ id' = id /\ sync' = sync
        /\ active' = active /\ request' = request
        /\ \A d \in Clients : state'[d] = "RequestSent" => state[d] = "RequestSent"
    BY <1>7 DEF lastOperationCompleted, abortCurrentOperation, topicVars, serverVars, syncVars
  <2> QED
    BY <2>1 DEF LabelInv, Labelled, Waits
<1> QED
  BY <1>1, <1>2, <1>3, <1>4, <1>5, <1>6, <1>7 DEF ClientNext

(* So does a step of the task.                                             *)
LEMMA ServeLabel ==
  ASSUME TypeInv, IdInv, LabelInv, Serve
  PROVE  LabelInv'
<1>1. PICK newId \in 0..MaxIds, ok \in BOOLEAN, data \in Stored, s \in [Keys -> Stored] :
        Serves(newId, ok, data, s)
  BY ServeFacts
<1>2. /\ response'.id = newId /\ response'.type = busy.type /\ response'.from = busy.from
      /\ busy' = NoMsg /\ busy # NoMsg
      /\ UNCHANGED <<request, id, sync, state, active>>
  BY <1>1, ServeFacts DEF Serves, Answer, syncVars, asyncVars
<1>3. busy.type # "getId" => newId = busy.id
  BY <1>1 DEF Serves
<1> QED
  BY <1>2, <1>3 DEF LabelInv, Labelled, Waits

(* The labels are inductive.                                               *)
LEMMA LabelInvariant == Spec => []LabelInv
<1>1. Init => LabelInv
  BY DEF Init, LabelInv, Labelled, Waits
<1>2. TypeInv /\ IdInv /\ LabelInv /\ [Next]_vars => LabelInv'
  <2> SUFFICES ASSUME TypeInv, IdInv, LabelInv, [Next]_vars PROVE LabelInv'
    OBVIOUS
  <2>1. CASE Take
    BY <2>1 DEF Take, LabelInv, Labelled, syncVars, asyncVars, Waits
  <2>2. CASE UNCHANGED vars
    BY <2>2 DEF vars, topicVars, serverVars, syncVars, asyncVars, LabelInv, Labelled, Waits
  <2> QED
    BY <2>1, <2>2, ServeLabel, ClientLabel DEF Next
<1> QED
  BY <1>1, <1>2, TypeInvariant, IdInvariant, PTL DEF Spec

-----------------------------------------------------------------------------
(* An answer that a call would take is an answer to its client.            *)
LEMMA AnswerFrom ==
  ASSUME TypeInv, IdInv, LabelInv, NEW c \in Clients
  PROVE  /\ Hit(c) /\ id[c] # 0 =>
              /\ response.from = c /\ Same(response, sync[c])
              /\ response.id = id[c]
         /\ AsyncHit(c) => /\ response.from = c /\ Same(response, active[c])
                           /\ response.id = id[c]
<1> USE TypeFacts
<1>1. ASSUME Hit(c), id[c] # 0
      PROVE  response.from = c /\ Same(response, sync[c]) /\ response.id = id[c]
  <2>1. /\ sync[c] # NoMsg /\ response \in Responses /\ sync[c].type # "getId"
        /\ sync[c].from = c /\ sync[c].id = id[c]
    BY <1>1 DEF Hit, TypeInv, IdInv, LabelInv, Labelled
  <2>2. response.id = id[c] /\ response.type = sync[c].type /\ response.key = sync[c].key
    BY <1>1, <2>1 DEF Hit, Accepts
  <2>3. response # NoMsg /\ response.from \in Clients
    BY <2>1, NoMessage
  <2>4. response.id = id[response.from]
    BY <2>1, <2>2, <2>3 DEF LabelInv
  <2>5. response.from = c
    BY <1>1, <2>2, <2>3, <2>4 DEF IdInv, IdsUnique
  <2> QED
    BY <2>1, <2>2, <2>5 DEF Same
<1>2. ASSUME AsyncHit(c)
      PROVE  response.from = c /\ Same(response, active[c]) /\ response.id = id[c]
  <2>1. /\ response \in Responses /\ active[c].type # "getId" /\ active[c].from = c
        /\ id[c] # 0
    BY <1>2 DEF AsyncHit, TypeInv, LabelInv
  <2>2. response.id = id[c] /\ response.type = active[c].type /\ response.key = active[c].key
    BY <1>2 DEF AsyncHit, Answers
  <2>3. response # NoMsg /\ response.from \in Clients
    BY <2>1, NoMessage
  <2>4. response.id = id[response.from]
    BY <2>1, <2>2, <2>3 DEF LabelInv
  <2>5. response.from = c
    BY <2>1, <2>2, <2>3, <2>4 DEF IdInv, IdsUnique
  <2> QED
    BY <2>1, <2>2, <2>5 DEF Same
<1> QED
  BY <1>1, <1>2

(* An answer that a synchronous call takes is the only message under way   *)
(* for it, or there is none of its client.                                 *)
LEMMA SyncHit ==
  ASSUME TypeInv, IdInv, LabelInv, NEW c \in Clients, Flight(c), Hit(c)
  PROVE  /\ id[c] # 0 => response.op = "sync"
         /\ Asked(c) => request.op = "async"
         /\ Served(c) => busy.op = "async"
<1> USE TypeFacts
<1>0. sync[c] # NoMsg /\ rspNew[c] /\ response # NoMsg
  BY DEF Hit, TypeInv
<1>1. CASE id[c] = 0
  BY <1>1 DEF Asked, Served, Call, LabelInv, Labelled
<1>2. CASE id[c] # 0
  <2>1. response.from = c /\ Same(response, sync[c])
    BY <1>2, AnswerFrom
  <2>2. response.type # "getId"
    BY <1>0, <1>2, <2>1 DEF IdInv, Same
  <2>3. Returned(c)
    BY <1>0, <2>1, <2>2 DEF Returned, Call
  <2>4. response.op # "async"
    BY <1>0, <2>1, <2>3 DEF Flight, Belongs, Same
  <2>5. /\ \A m \in Requests \cup Responses : m.op \in {"sync", "async", "old"}
    BY DEF Requests, Responses, Ops, Kinds
  <2>6. response.op = "sync"
    BY <1>0, <2>3, <2>4, <2>5 DEF Flight, Belongs
  <2> QED
    BY <2>3, <2>5, <2>6 DEF Flight, Belongs, Asked, Served, Call
<1> QED
  BY <1>1, <1>2

(* An answer that an asynchronous call takes is the only message of its    *)
(* client, when no synchronous call waits.                                 *)
LEMMA UpdateHit ==
  ASSUME TypeInv, IdInv, LabelInv, NEW c \in Clients, Flight(c), AsyncHit(c),
         sync[c] = NoMsg
  PROVE  response.op = "async" /\ ~Asked(c) /\ ~Served(c)
<1> USE TypeFacts
<1>0. Waits(c) /\ rspNew[c] /\ response # NoMsg
  BY DEF AsyncHit, TypeInv
<1>1. response.from = c /\ Same(response, active[c])
  BY AnswerFrom
<1>2. response.type # "getId"
  <2>1. active[c].type # "getId"
    BY <1>0 DEF LabelInv, Waits
  <2> QED
    BY <1>1, <2>1 DEF Same
<1>3. Returned(c)
  BY <1>0, <1>1, <1>2 DEF Returned, Call
<1>4. \A m \in Requests \cup Responses : m.op \in {"sync", "async", "old"}
  BY DEF Requests, Responses, Ops, Kinds
<1>5. response.op = "async"
  BY <1>0, <1>3, <1>4 DEF Flight, Belongs
<1> QED
  BY <1>3, <1>4, <1>5 DEF Flight, Belongs, Asked, Served, Call

(* Messages may disappear while the calls of a client stay as they are.    *)
LEMMA FlightKept ==
  ASSUME NEW d, Flight(d),
         Asked(d)' => Asked(d) /\ request' = request,
         Served(d)' => Served(d) /\ busy' = busy,
         Returned(d)' => Returned(d) /\ response' = response,
         sync'[d] = sync[d], state'[d] = state[d], active'[d] = active[d]
  PROVE  Flight(d)'
BY DEF Flight, Belongs, Waits

(* A step of a client leaves at most one message of each call under way.   *)
LEMMA ClientFlight ==
  ASSUME TypeInv, IdInv, LabelInv, FlightInv, NEW c \in Clients, ClientNext(c)
  PROVE  FlightInv'
<1> USE TypeFacts
<1>1. CASE Construct(c) \/ \E o \in Operations(SyncTypes[c], Indexes) : CallSync(c, o)
  <2>1. PICK r \in Requests : SyncBegins(c, r)
    BY <1>1, SyncCall
  <2>2. Begin(c, "sync", r) /\ "sync" \in Kinds
    BY <2>1 DEF SyncBegins, Kinds
  <2>3. SUFFICES ASSUME NEW d \in Clients, d \notin tangled'
                 PROVE  Flight(d)'
    BY DEF FlightInv
  <2>4. Flight(d)
    BY <2>1, <2>3 DEF FlightInv, SyncBegins
  <2>5. CASE d = c
    <3>1. Asked(c)' => Belongs(c, request)'
      BY <2>1, <2>2, BeginFacts DEF SyncBegins, Belongs, Same
    <3>2. Served(c)' => Belongs(c, busy)' /\ request'.op # busy'.op
      <4>1. ASSUME Served(c)' PROVE Served(c) /\ busy' = busy /\ busy.op # "sync"
        <5>1. Served(c)
          BY <2>2, <4>1, BeginFacts DEF Served, Call
        <5>2. busy.op # "sync"
          BY <2>1, <2>4, <2>5, <5>1 DEF SyncBegins, Flight, Belongs
        <5> QED
          BY <2>2, <5>1, <5>2, BeginFacts DEF Served, Call
      <4> QED
        BY <2>1, <2>2, <2>4, <2>5, <4>1, BeginFacts DEF SyncBegins, Flight, Belongs, Waits, asyncVars
    <3>3. ~Returned(c)'
      BY <2>2, BeginFacts DEF Returned
    <3>4. Waits(c)' => ~Same(sync[c], active[c])'
      BY <2>1, <2>3, <2>5 DEF SyncBegins, Waits, asyncVars
    <3> QED
      BY <2>5, <3>1, <3>2, <3>3, <3>4 DEF Flight
  <2>6. CASE d # c
    <3>1. ~Asked(d)' /\ sync'[d] = sync[d] /\ state' = state /\ active' = active
      BY <2>1, <2>2, <2>6, BeginFacts DEF SyncBegins, Asked, Call, asyncVars
    <3>2. Served(d)' => Served(d) /\ busy' = busy
      BY <2>2, <2>6, BeginFacts DEF Served, Call
    <3>3. Returned(d)' => Returned(d) /\ response' = response
      BY <2>2, <2>6, BeginFacts DEF Returned, Call
    <3> QED
      BY <2>4, <3>1, <3>2, <3>3, FlightKept
  <2> QED
    BY <2>5, <2>6
<1>2. CASE \E o \in Operations(AsyncTypes[c], {0}) : CallAsync(c, o)
  <2>1. PICK r \in Requests : AsyncBegins(c, r)
    BY <1>2, AsyncCall
  <2>2. Begin(c, "async", r) /\ "async" \in Kinds
    BY <2>1 DEF AsyncBegins, Kinds
  <2>3. SUFFICES ASSUME NEW d \in Clients, d \notin tangled'
                 PROVE  Flight(d)'
    BY DEF FlightInv
  <2>4. Flight(d)
    BY <2>1, <2>3 DEF FlightInv, AsyncBegins
  <2>5. CASE d = c
    <3>1. Asked(c)' => Belongs(c, request)'
      BY <2>1, <2>2, BeginFacts DEF AsyncBegins, Belongs, Same, Waits
    <3>2. ~Served(c)'
      <4>1. ASSUME Served(c)' PROVE FALSE
        <5>1. Served(c)
          BY <2>2, <4>1, BeginFacts DEF Served, Call
        <5>2. busy.op \in {"sync", "async", "old"}
          BY <5>1 DEF Served, Call, Requests, Ops, Kinds
        <5> QED
          BY <2>1, <2>4, <2>5, <5>1, <5>2 DEF AsyncBegins, Flight, Belongs
      <4> QED
        BY <4>1
    <3>3. ~Returned(c)'
      BY <2>2, BeginFacts DEF Returned
    <3>4. sync'[c] = NoMsg
      BY <2>1 DEF AsyncBegins
    <3> QED
      BY <2>5, <3>1, <3>2, <3>3, <3>4 DEF Flight
  <2>6. CASE d # c
    <3>1. /\ ~Asked(d)' /\ sync'[d] = sync[d] /\ state'[d] = state[d]
          /\ active'[d] = active[d]
      BY <2>1, <2>2, <2>6, BeginFacts DEF AsyncBegins, Asked, Call
    <3>2. Served(d)' => Served(d) /\ busy' = busy
      BY <2>2, <2>6, BeginFacts DEF Served, Call
    <3>3. Returned(d)' => Returned(d) /\ response' = response
      BY <2>2, <2>6, BeginFacts DEF Returned, Call
    <3> QED
      BY <2>4, <3>1, <3>2, <3>3, FlightKept
  <2> QED
    BY <2>5, <2>6
<1>3. CASE Receive(c)
  <2>1. /\ UNCHANGED <<request, reqNew, busy, response, state, active, tangled>>
        /\ ~rspNew'[c] /\ \A d \in Clients : d # c => rspNew'[d] = rspNew[d]
        /\ sync' = IF Hit(c) THEN [sync EXCEPT ![c] = NoMsg] ELSE sync
    BY <1>3 DEF Receive, serverVars, asyncVars
  <2>2. SUFFICES ASSUME NEW d \in Clients, d \notin tangled'
                 PROVE  Flight(d)'
    BY DEF FlightInv
  <2>3. Flight(d)
    BY <2>1, <2>2 DEF FlightInv
  <2>4. /\ Asked(d)' => Asked(d) /\ request' = request
        /\ Served(d)' => Served(d) /\ busy' = busy
        /\ Returned(d)' => Returned(d) /\ response' = response
    BY <2>1 DEF Asked, Served, Returned, Call
  <2>5. CASE d = c /\ Hit(c)
    <3>1. sync'[c] = NoMsg /\ ~Returned(c)'
      BY <2>1, <2>5 DEF Returned
    <3>2. /\ Asked(c)' => request.op = "async" /\ Belongs(c, request) /\ request' = request
          /\ Served(c)' => busy.op = "async" /\ Belongs(c, busy) /\ busy' = busy
          /\ ~(Asked(c)' /\ Served(c)')
      BY <2>3, <2>4, <2>5, SyncHit DEF Flight
    <3> QED
      BY <2>1, <2>5, <3>1, <3>2 DEF Flight, Belongs, Waits
  <2>6. CASE ~(d = c /\ Hit(c))
    <3>1. sync'[d] = sync[d]
      BY <2>1, <2>6
    <3> QED
      BY <2>1, <2>3, <2>4, <3>1, FlightKept
  <2> QED
    BY <2>5, <2>6
<1>4. CASE Repeat(c)
  <2>1. /\ UNCHANGED <<busy, response, rspNew, sync, state, active>>
        /\ request' = sync[c] /\ sync[c] # NoMsg /\ tangled' = tangled \cup {c}
    BY <1>4 DEF Repeat, Publish, serverVars, syncVars, asyncVars
  <2>2. SUFFICES ASSUME NEW d \in Clients, d \notin tangled'
                 PROVE  Flight(d)'
    BY DEF FlightInv
  <2>3. Flight(d) /\ d # c
    BY <2>1, <2>2 DEF FlightInv
  <2>4. ~Asked(d)'
    BY <2>1, <2>3 DEF Asked, Call, LabelInv
  <2>5. /\ Served(d)' => Served(d) /\ busy' = busy
        /\ Returned(d)' => Returned(d) /\ response' = response
    BY <2>1 DEF Served, Returned, Call
  <2> QED
    BY <2>1, <2>3, <2>4, <2>5, FlightKept
<1>5. CASE GiveUp(c) \/ abortCurrentOperation(c)
  <2>1. /\ UNCHANGED <<request, reqNew, busy, response, rspNew>> /\ active' = active
        /\ \A d \in Clients : d # c => sync'[d] = sync[d] /\ state'[d] = state[d]
        /\ tangled' = tangled \cup {c}
    BY <1>5 DEF GiveUp, abortCurrentOperation, topicVars, serverVars, syncVars, asyncVars
  <2>2. SUFFICES ASSUME NEW d \in Clients, d \notin tangled'
                 PROVE  Flight(d)'
    BY DEF FlightInv
  <2>3. Flight(d) /\ d # c
    BY <2>1, <2>2 DEF FlightInv
  <2>4. /\ Asked(d)' => Asked(d) /\ request' = request
        /\ Served(d)' => Served(d) /\ busy' = busy
        /\ Returned(d)' => Returned(d) /\ response' = response
    BY <2>1 DEF Asked, Served, Returned, Call
  <2> QED
    BY <2>1, <2>3, <2>4, FlightKept
<1>6. CASE \E elapsed \in BOOLEAN : Update(c, elapsed)
  <2>1. PICK elapsed \in BOOLEAN : Update(c, elapsed)
    BY <1>6
  <2>2. /\ UNCHANGED <<busy, response, sync, active>> /\ sync[c] = NoMsg /\ Waits(c)
        /\ ~rspNew'[c] /\ \A d \in Clients : d # c => rspNew'[d] = rspNew[d]
        /\ state' = IF AsyncHit(c) THEN [state EXCEPT ![c] = "ResponseReceived"] ELSE state
    BY <2>1 DEF Update, serverVars, syncVars
  <2>3. \/ UNCHANGED <<request, reqNew, tangled>>
        \/ request' = active[c] /\ tangled' = tangled \cup {c}
    BY <2>1 DEF Update, Publish
  <2>4. SUFFICES ASSUME NEW d \in Clients, d \notin tangled'
                 PROVE  Flight(d)'
    BY DEF FlightInv
  <2>5. Flight(d)
    BY <2>3, <2>4 DEF FlightInv
  <2>6. Asked(d)' => Asked(d) /\ request' = request
    <3>1. active[c].from = c
      BY <2>2 DEF LabelInv, Waits
    <3> QED
      BY <2>3, <2>4, <3>1 DEF Asked, Call
  <2>7. /\ Served(d)' => Served(d) /\ busy' = busy
        /\ Returned(d)' => Returned(d) /\ response' = response
    BY <2>2 DEF Served, Returned, Call
  <2>8. CASE d = c /\ AsyncHit(c)
    <3>1. ~Asked(c)' /\ ~Served(c)' /\ ~Returned(c)' /\ sync'[c] = NoMsg
      BY <2>2, <2>5, <2>6, <2>7, <2>8, UpdateHit DEF Returned
    <3> QED
      BY <2>8, <3>1 DEF Flight
  <2>9. CASE ~(d = c /\ AsyncHit(c))
    <3>1. state'[d] = state[d]
      BY <2>2, <2>9
    <3> QED
      BY <2>2, <2>5, <2>6, <2>7, <3>1, FlightKept
  <2> QED
    BY <2>8, <2>9
<1>7. CASE lastOperationCompleted(c)
  <2>1. /\ UNCHANGED <<request, reqNew, busy, response, rspNew, sync, active, tangled>>
        /\ \A d \in Clients : Waits(d)' <=> Waits(d)
    BY <1>7 DEF lastOperationCompleted, topicVars, serverVars, syncVars, Waits
  <2> QED
    BY <2>1 DEF FlightInv, Flight, Belongs, Asked, Served, Returned, Call, Same
<1> QED
  BY <1>1, <1>2, <1>3, <1>4, <1>5, <1>6, <1>7 DEF ClientNext

(* So does a step of the task.                                             *)
LEMMA TaskFlight ==
  ASSUME TypeInv, IdInv, LabelInv, FlightInv, Take \/ Serve
  PROVE  FlightInv'
<1> USE TypeFacts
<1>1. CASE Take
  <2>1. /\ reqNew /\ ~reqNew' /\ busy = NoMsg /\ busy' = request
        /\ UNCHANGED <<request, response, rspNew, sync, state, active, tangled>>
    BY <1>1 DEF Take, syncVars, asyncVars
  <2>2. SUFFICES ASSUME NEW d \in Clients, d \notin tangled
                 PROVE  Flight(d)'
    BY <2>1 DEF FlightInv
  <2>3. Flight(d)
    BY <2>2 DEF FlightInv
  <2>4. /\ ~Asked(d)' /\ (Served(d)' => Asked(d))
        /\ (Returned(d)' => Returned(d))
    BY <2>1 DEF Asked, Served, Returned, Call
  <2> QED
    BY <2>1, <2>3, <2>4 DEF Flight, Belongs, Waits
<1>2. CASE Serve
  <2>1. PICK newId \in 0..MaxIds, ok \in BOOLEAN, data \in Stored, s \in [Keys -> Stored] :
          Serves(newId, ok, data, s)
    BY <1>2, ServeFacts
  <2>2. /\ response'.type = busy.type /\ response'.key = busy.key
        /\ response'.from = busy.from /\ response'.op = busy.op /\ busy # NoMsg
        /\ busy' = NoMsg
        /\ UNCHANGED <<request, reqNew, sync, state, active, tangled>>
    BY <1>2, <2>1, ServeFacts DEF Serves, Answer, syncVars, asyncVars
  <2>3. SUFFICES ASSUME NEW d \in Clients, d \notin tangled
                 PROVE  Flight(d)'
    BY <2>2 DEF FlightInv
  <2>4. Flight(d)
    BY <2>3 DEF FlightInv
  <2>5. /\ (Asked(d)' => Asked(d)) /\ ~Served(d)'
        /\ (Returned(d)' => Served(d))
    BY <2>2 DEF Asked, Served, Returned, Call
  <2> QED
    BY <2>2, <2>4, <2>5 DEF Flight, Belongs, Waits, Same
<1> QED
  BY <1>1, <1>2

(* FlightInv is inductive.                                                 *)
LEMMA FlightInvariant == Spec => []FlightInv
<1>1. Init => FlightInv
  BY DEF Init, FlightInv, Flight, Asked, Served, Returned, Call
<1>2. TypeInv /\ IdInv /\ LabelInv /\ FlightInv /\ [Next]_vars => FlightInv'
  <2> SUFFICES ASSUME TypeInv, IdInv, LabelInv, FlightInv, [Next]_vars PROVE FlightInv'
    OBVIOUS
  <2>1. CASE UNCHANGED vars
    BY <2>1 DEF vars, topicVars, serverVars, syncVars, asyncVars, FlightInv, Flight,
                Belongs, Asked, Served, Returned, Call, Waits, Same
  <2> QED
    BY <2>1, TaskFlight, ClientFlight DEF Next
<1> QED
  BY <1>1, <1>2, TypeInvariant, IdInvariant, LabelInvariant, PTL DEF Spec

(* The steps in which an answer ends a call are those of its client.       *)
LEMMA AnsweredBy ==
  ASSUME TypeInv, IdInv, LabelInv, Next, NEW c \in Clients
  PROVE  /\ Answered(c) => Receive(c) /\ Hit(c)
         /\ AsyncAnswered(c) => AsyncHit(c) /\ \E elapsed \in BOOLEAN : Update(c, elapsed)
<1> USE TypeFacts
<1>1. ASSUME Take \/ Serve PROVE sync' = sync /\ state' = state
  <2>1. CASE Take
    BY <2>1 DEF Take, syncVars, asyncVars
  <2>2. CASE Serve
    BY <2>2, ServeFacts DEF Serves, Answer, syncVars, asyncVars
  <2> QED
    BY <1>1, <2>1, <2>2
<1>2. ASSUME NEW d \in Clients, ClientNext(d), d # c
      PROVE  sync'[c] = sync[c] /\ state'[c] = state[c]
  BY <1>2 DEF ClientNext, Construct, CallSync, CallAsync, Receive, Repeat, GiveUp, Update,
              lastOperationCompleted, abortCurrentOperation, syncVars, asyncVars
<1>3. ASSUME ClientNext(c), Answered(c) PROVE Receive(c) /\ Hit(c)
  <2>1. sync[c] # NoMsg /\ sync'[c] = NoMsg /\ rspNew'[c] # rspNew[c]
    BY <1>3 DEF Answered
  <2> QED
    BY <1>3, <2>1 DEF ClientNext, Construct, CallSync, CallAsync, Receive, Repeat, GiveUp, Update,
              lastOperationCompleted, abortCurrentOperation, syncVars, asyncVars, topicVars
<1>4. ASSUME ClientNext(c), AsyncAnswered(c)
      PROVE  AsyncHit(c) /\ \E elapsed \in BOOLEAN : Update(c, elapsed)
  <2>1. state[c] = "RequestSent" /\ state'[c] = "ResponseReceived"
    BY <1>4 DEF AsyncAnswered, Waits
  <2> QED
    BY <1>4, <2>1 DEF ClientNext, Construct, CallSync, CallAsync, Receive, Repeat, GiveUp, Update,
              lastOperationCompleted, abortCurrentOperation, syncVars, asyncVars, topicVars
<1>5. CASE Take \/ Serve
  BY <1>1, <1>5 DEF Answered, AsyncAnswered, Waits
<1>6. CASE \E d \in Clients : ClientNext(d)
  <2>1. PICK d \in Clients : ClientNext(d)
    BY <1>6
  <2>2. CASE d = c
    BY <1>3, <1>4, <2>1, <2>2
  <2>3. CASE d # c
    BY <1>2, <2>1, <2>3 DEF Answered, AsyncAnswered, Waits
  <2> QED
    BY <2>2, <2>3
<1> QED
  BY <1>5, <1>6 DEF Next

(* An answer that ends a call is one to a request of this client, and to   *)
(* this very call unless the client has requests under way for which no    *)
(* call waits.                                                             *)
THEOREM DatamanAnswerIsOwn == Spec => AnswerIsOwn
<1> DEFINE Own(c) ==
      /\ Answered(c) /\ id[c] # 0
           => response.from = c /\ (response.op = "sync" \/ c \in tangled)
      /\ AsyncAnswered(c)
           => response.from = c /\ (response.op = "async" \/ c \in tangled)
<1>1. TypeInv /\ IdInv /\ LabelInv /\ FlightInv /\ [Next]_vars
        => [\A c \in Clients : Own(c)]_vars
  <2> SUFFICES ASSUME TypeInv, IdInv, LabelInv, FlightInv, Next, NEW c \in Clients
               PROVE  Own(c)
    OBVIOUS
  <2>1. ASSUME Answered(c), id[c] # 0
        PROVE  response.from = c /\ (response.op = "sync" \/ c \in tangled)
    BY <2>1, AnsweredBy, AnswerFrom, SyncHit DEF FlightInv
  <2>2. ASSUME AsyncAnswered(c)
        PROVE  response.from = c /\ (response.op = "async" \/ c \in tangled)
    <3>1. AsyncHit(c) /\ sync[c] = NoMsg
      BY <2>2, AnsweredBy DEF Update
    <3> QED
      BY <3>1, AnswerFrom, UpdateHit DEF FlightInv
  <2> QED
    BY <2>1, <2>2
<1> QED
  BY <1>1, TypeInvariant, IdInvariant, LabelInvariant, FlightInvariant, PTL
     DEF Spec, AnswerIsOwn
-----------------------------------------------------------------------------
(* A call begins without answers that it could take.                       *)
LEMMA ClientFresh ==
  ASSUME TypeInv, IdInv, LabelInv, FreshInv, NEW c \in Clients, ClientNext(c)
  PROVE  FreshInv'
<1> USE TypeFacts
<1>1. CASE Construct(c) \/ \E o \in Operations(SyncTypes[c], Indexes) : CallSync(c, o)
  <2>1. PICK r \in Requests : SyncBegins(c, r)
    BY <1>1, SyncCall
  <2>2. Begin(c, "sync", r) /\ "sync" \in Kinds /\ "async" \in Kinds
    BY <2>1 DEF SyncBegins, Kinds
  <2>3. SUFFICES ASSUME NEW d \in Clients, d # c
                 PROVE  /\ sync'[d] # NoMsg => Fresh(d, "sync", sync[d])'
                        /\ Waits(d)' => Fresh(d, "async", active[d])'
    BY <2>2, BeginFacts DEF FreshInv, Fresh
  <2>4. /\ sync'[d] = sync[d] /\ UNCHANGED <<id, state, active>>
        /\ rspNew'[d] = rspNew[d] /\ since'[d]["sync"] = since[d]["sync"]
        /\ since'[d]["async"] = since[d]["async"]
    BY <2>1, <2>2, <2>3, BeginFacts DEF SyncBegins, asyncVars
  <2>5. /\ response' = NoMsg <=> response = NoMsg
        /\ response # NoMsg =>
             /\ response'.id = response.id /\ response'.type = response.type
             /\ response'.key = response.key
             /\ response'.ok = response.ok /\ response'.data = response.data
    BY <2>2, BeginFacts
  <2> QED
    BY <2>4, <2>5 DEF FreshInv, Fresh, Waits
<1>2. CASE \E o \in Operations(AsyncTypes[c], {0}) : CallAsync(c, o)
  <2>1. PICK r \in Requests : AsyncBegins(c, r)
    BY <1>2, AsyncCall
  <2>2. Begin(c, "async", r) /\ "sync" \in Kinds /\ "async" \in Kinds
    BY <2>1 DEF AsyncBegins, Kinds
  <2>3. SUFFICES ASSUME NEW d \in Clients, d # c
                 PROVE  /\ sync'[d] # NoMsg => Fresh(d, "sync", sync[d])'
                        /\ Waits(d)' => Fresh(d, "async", active[d])'
    BY <2>2, BeginFacts DEF FreshInv, Fresh
  <2>4. /\ UNCHANGED <<id, sync>> /\ state'[d] = state[d] /\ active'[d] = active[d]
        /\ rspNew'[d] = rspNew[d] /\ since'[d]["sync"] = since[d]["sync"]
        /\ since'[d]["async"] = since[d]["async"]
    BY <2>1, <2>2, <2>3, BeginFacts DEF AsyncBegins
  <2>5. /\ response' = NoMsg <=> response = NoMsg
        /\ response # NoMsg =>
             /\ response'.id = response.id /\ response'.type = response.type
             /\ response'.key = response.key
             /\ response'.ok = response.ok /\ response'.data = response.data
    BY <2>2, BeginFacts
  <2> QED
    BY <2>4, <2>5 DEF FreshInv, Fresh, Waits
<1>3. CASE Receive(c)
  <2>1. /\ UNCHANGED <<response, state, active>> /\ ~rspNew'[c]
        /\ \A d \in Clients : d # c =>
             /\ rspNew'[d] = rspNew[d] /\ sync'[d] = sync[d] /\ id'[d] = id[d]
             /\ since'[d] = since[d]
    BY <1>3 DEF Receive, asyncVars
  <2> QED
    BY <2>1 DEF FreshInv, Fresh, Waits
<1>4. CASE Repeat(c)
  BY <1>4 DEF Repeat, syncVars, asyncVars, FreshInv, Fresh, Waits
<1>5. CASE GiveUp(c)
  <2>1. /\ UNCHANGED <<response, rspNew, id, state, active>> /\ sync'[c] = NoMsg
        /\ since'[c]["async"] = since[c]["async"]
        /\ \A d \in Clients : d # c => since'[d] = since[d] /\ sync'[d] = sync[d]
    BY <1>5 DEF GiveUp, topicVars, asyncVars, Kinds
  <2> QED
    BY <2>1 DEF FreshInv, Fresh, Waits
<1>6. CASE \E elapsed \in BOOLEAN : Update(c, elapsed)
  <2>1. /\ UNCHANGED <<response, id, sync, active>> /\ ~rspNew'[c]
        /\ \A d \in Clients : d # c =>
             rspNew'[d] = rspNew[d] /\ state'[d] = state[d] /\ since'[d] = since[d]
    BY <1>6 DEF Update, syncVars
  <2> QED
    BY <2>1 DEF FreshInv, Fresh, Waits
<1>7. CASE lastOperationCompleted(c)
  <2>1. /\ UNCHANGED <<response, rspNew, id, sync, active, since>>
        /\ \A d \in Clients : Waits(d)' => Waits(d)
    BY <1>7 DEF lastOperationCompleted, topicVars, syncVars, Waits
  <2> QED
    BY <2>1 DEF FreshInv, Fresh
<1>8. CASE abortCurrentOperation(c)
  <2>1. /\ UNCHANGED <<response, rspNew, id, sync, active>> /\ ~Waits(c)'
        /\ since'[c]["sync"] = since[c]["sync"]
        /\ \A d \in Clients : d # c => since'[d] = since[d] /\ state'[d] = state[d]
    BY <1>8 DEF abortCurrentOperation, topicVars, syncVars, Kinds, Waits
  <2> QED
    BY <2>1 DEF FreshInv, Fresh, Waits
<1> QED
  BY <1>1, <1>2, <1>3, <1>4, <1>5, <1>6, <1>7, <1>8 DEF ClientNext

(* What the task answers is what it has just done.                         *)
LEMMA ServeFresh ==
  ASSUME TypeInv, IdInv, LabelInv, FreshInv, Serve
  PROVE  FreshInv'
<1> USE TypeFacts
<1>1. PICK newId \in 0..MaxIds, ok \in BOOLEAN, data \in Stored, s \in [Keys -> Stored] :
        Serves(newId, ok, data, s)
  BY ServeFacts
<1>2. /\ response'.id = newId /\ response'.type = busy.type /\ response'.key = busy.key
      /\ response'.ok = ok /\ response'.data = data /\ busy # NoMsg
      /\ UNCHANGED <<id, sync, state, active>>
      /\ busy.type # "getId" => newId = busy.id
      /\ busy.type = "getId" => ~ok
      /\ ok /\ busy.type = "read" => data = s[busy.key]
      /\ busy.from \in Clients
  BY <1>1, ServeFacts DEF Serves, Answer, syncVars, asyncVars
<1>3. \A c \in Clients, k \in Kinds :
        since'[c][k] = since[c][k] \cup {s[r.key] : r \in {w \in InProgress(c, k) :
                         w.type = "read" \/ (ok /\ Same(w, busy))}}
  BY <1>1 DEF Serves, Answer
<1>4. ASSUME NEW c \in Clients, NEW k \in Kinds, NEW w \in InProgress(c, k),
             w.from = c, ok, newId = id[c], busy.type = w.type, busy.key = w.key
      PROVE  since'[c][k] # {} /\ (w.type = "read" => data \in since'[c][k])
  <2>1. busy.id = id[c] /\ busy.id = id[busy.from] /\ busy.id # 0
    BY <1>2, <1>4 DEF LabelInv, Labelled
  <2>2. busy.from = c
    <3>1. IdsUnique /\ busy.from \in Clients
      BY <1>2 DEF IdInv
    <3> QED
      BY <2>1, <3>1 DEF IdsUnique
  <2>3. Same(w, busy)
    BY <1>4, <2>2 DEF Same
  <2>4. s[w.key] \in since'[c][k]
    BY <1>3, <1>4, <2>3
  <2> QED
    BY <1>2, <1>4, <2>4
<1>5. ASSUME NEW c \in Clients, sync[c] # NoMsg
      PROVE  Fresh(c, "sync", sync[c])'
  <2>1. sync[c] \in InProgress(c, "sync") /\ sync[c].from = c /\ "sync" \in Kinds
    BY <1>5 DEF InProgress, LabelInv, Kinds
  <2> QED
    BY <1>2, <1>4, <2>1 DEF Fresh
<1>6. ASSUME NEW c \in Clients, Waits(c)
      PROVE  Fresh(c, "async", active[c])'
  <2>1. active[c] \in InProgress(c, "async") /\ active[c].from = c /\ "async" \in Kinds
    BY <1>6 DEF InProgress, LabelInv, Kinds
  <2> QED
    BY <1>2, <1>4, <2>1 DEF Fresh
<1> QED
  BY <1>2, <1>5, <1>6 DEF FreshInv, Waits

(* FreshInv is inductive.                                                  *)
LEMMA FreshInvariant == Spec => []FreshInv
<1>1. Init => FreshInv
  BY DEF Init, FreshInv, Fresh
<1>2. TypeInv /\ IdInv /\ LabelInv /\ FreshInv /\ [Next]_vars => FreshInv'
  <2> SUFFICES ASSUME TypeInv, IdInv, LabelInv, FreshInv, [Next]_vars PROVE FreshInv'
    OBVIOUS
  <2>1. CASE Take
    BY <2>1 DEF Take, syncVars, asyncVars, FreshInv, Fresh, Waits
  <2>2. CASE UNCHANGED vars
    BY <2>2 DEF vars, topicVars, serverVars, syncVars, asyncVars, FreshInv, Fresh, Waits
  <2> QED
    BY <2>1, <2>2, ServeFresh, ClientFresh DEF Next
<1> QED
  BY <1>1, <1>2, TypeInvariant, IdInvariant, LabelInvariant, PTL DEF Spec

(* What a successful call reports has happened between the call and its    *)
(* return, even if the answer that it takes is one to an earlier call.     *)
THEOREM DatamanSuccessIsCurrent == Spec => SuccessIsCurrent
<1> DEFINE Current(c) == response # NoMsg /\ response.ok =>
      /\ Answered(c) => since[c]["sync"] # {}
                        /\ (sync[c].type = "read" => buffer'[c] \in since[c]["sync"])
      /\ AsyncAnswered(c) =>
           since[c]["async"] # {}
           /\ (active[c].type = "read" => buffer'[c] \in since[c]["async"])
<1>1. TypeInv /\ IdInv /\ LabelInv /\ FreshInv /\ [Next]_vars
        => [\A c \in Clients : Current(c)]_vars
  <2> SUFFICES ASSUME TypeInv, IdInv, LabelInv, FreshInv, Next, NEW c \in Clients,
                      response # NoMsg, response.ok
               PROVE  /\ Answered(c) => since[c]["sync"] # {}
                         /\ (sync[c].type = "read" => buffer'[c] \in since[c]["sync"])
                      /\ AsyncAnswered(c) =>
                           since[c]["async"] # {}
                           /\ (active[c].type = "read" => buffer'[c] \in since[c]["async"])
    OBVIOUS
  <2>0. buffer \in [Clients -> Stored]
    BY DEF TypeInv, TypeOK
  <2>1. ASSUME Answered(c)
        PROVE  /\ since[c]["sync"] # {}
               /\ sync[c].type = "read" => buffer'[c] \in since[c]["sync"]
    <3>1. Receive(c) /\ Hit(c)
      BY <2>1, AnsweredBy
    <3>2. /\ sync[c] # NoMsg /\ rspNew[c]
          /\ sync[c].type = "read" => buffer'[c] = response.data
      BY <2>0, <3>1 DEF Receive, Hit
    <3>3. response.type # "getId"
      BY DEF IdInv
    <3>4. sync[c].type # "getId" /\ id[c] # 0
      BY <3>1, <3>2, <3>3 DEF Hit, Accepts, LabelInv, Labelled
    <3>5. Same(response, sync[c]) /\ response.id = id[c]
      BY <3>1, <3>4, AnswerFrom
    <3> QED
      BY <3>2, <3>5 DEF FreshInv, Fresh, Same
  <2>2. ASSUME AsyncAnswered(c)
        PROVE  /\ since[c]["async"] # {}
               /\ active[c].type = "read" => buffer'[c] \in since[c]["async"]
    <3>1. AsyncHit(c) /\ \E elapsed \in BOOLEAN : Update(c, elapsed)
      BY <2>2, AnsweredBy
    <3>2. Same(response, active[c]) /\ response.id = id[c]
      BY <3>1, AnswerFrom
    <3>3. Waits(c) /\ rspNew[c] /\ (active[c].type = "read" => buffer'[c] = response.data)
      BY <2>0, <3>1, <3>2 DEF Update, AsyncHit, Same
    <3> QED
      BY <3>2, <3>3 DEF FreshInv, Fresh, Same
  <2> QED
    BY <2>1, <2>2
<1> QED
  BY <1>1, TypeInvariant, IdInvariant, LabelInvariant, FreshInvariant, PTL
     DEF Spec, SuccessIsCurrent
=============================================================================
