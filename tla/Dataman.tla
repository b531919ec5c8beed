------------------------------ MODULE Dataman ------------------------------
(***************************************************************************)
(* The dataman task and the DatamanClient objects that reach its storage   *)
(* through the topics dataman_request and dataman_response.  Both topics   *)
(* hold one message: a request that the task has not copied yet is lost    *)
(* when another one is published, and so is an answer.  Clients repeat     *)
(* what is not answered, give calls up, and abort them; what they sent     *)
(* before is still under way then.                                         *)
(*                                                                         *)
(* A client object belongs to one thread: while a synchronous call waits,  *)
(* the object makes no other one, but an asynchronous call may be under    *)
(* way at the same time.  A stored record is one of Values.  The lengths   *)
(* that the calls check are left out, and so is time: a poll without an    *)
(* answer may run into its time-out.  Two clients take no time stamp in    *)
(* the same microsecond, and the owner of a record that is written         *)
(* asynchronously leaves its buffer alone until the call is over.          *)
(***************************************************************************)
EXTENDS Integers, FiniteSets

CONSTANTS
  Clients,   \* DatamanClient objects
  Items,     \* dm_item_t
  Indexes,   \* indexes of an item
  Values,    \* records that are written
  NoData,    \* an empty record, and a response without data
  Torn,      \* what an interrupted write leaves behind
  NoMsg,     \* no request or response
  MaxIds,    \* UINT8_MAX
  SyncTypes,   \* [Clients -> synchronous calls that its owner makes]
  AsyncTypes,  \* [Clients -> asynchronous calls that its owner makes]
  MaxCalls     \* bound on the calls that are made

Keys == Items \X Indexes
Stored == Values \cup {NoData, Torn}
Types == {"getId", "read", "write", "clear"}

ASSUME DatamanConstants ==
  /\ Indexes \subseteq Nat /\ 0 \in Indexes
  /\ NoData \notin Values /\ Torn \notin Values /\ NoData # Torn
  /\ MaxIds \in Nat \ {0} /\ MaxCalls \in Nat
  /\ SyncTypes \in [Clients -> SUBSET Types] /\ AsyncTypes \in [Clients -> SUBSET Types]

VARIABLES
  request,   \* the message on dataman_request
  reqNew,    \* the task has not copied it
  busy,      \* the request that the task works on
  response,  \* the message on dataman_response
  rspNew,    \* [Clients -> the client has not copied it]
  store,     \* [Keys -> the stored record]
  nextId,    \* dataman_clients_count
  made,      \* [Clients -> the constructor was called]
  id,        \* [Clients -> _client_id], 0 is CLIENT_ID_NOT_SET
  sync,      \* [Clients -> the request syncHandler() waits for]
  state,     \* [Clients -> _state]
  active,    \* [Clients -> _active_request]
  status,    \* [Clients -> _response_status is STATUS_SUCCESS]
  buffer,    \* [Clients -> the record that was read last]
  calls,     \* number of calls that were made
  since,     \* history: [Clients -> [Kinds -> records that a call in progress
             \* may be about: what the store has held since a read was called,
             \* what the client's writes and clears have left since theirs]]
  tangled    \* history: clients that may have requests under way for which
             \* no call waits

topicVars  == <<request, reqNew, response, rspNew>>
serverVars == <<busy, store, nextId>>
syncVars   == <<made, id, sync>>
asyncVars  == <<state, active, status>>
vars == <<topicVars, serverVars, syncVars, asyncVars, buffer, calls, since, tangled>>

(* In messages, "from" is the client object; in a DM_GET_ID message it is  *)
(* the timestamp by which the client knows its request.  "op" is history:  *)
(* the kind of the call, or "old" when it is not the client's last one.    *)
Kinds == {"sync", "async"}
Ops   == Kinds \cup {"old"}
Requests ==
  [id : 0..MaxIds, type : Types, key : Keys, data : Values \cup {NoData},
   from : Clients, op : Ops]
Responses ==
  [id : 0..MaxIds, type : Types, key : Keys, ok : BOOLEAN, data : Stored,
   from : Clients, op : Ops]

ASSUME NoMessage == NoMsg \notin Requests /\ NoMsg \notin Responses

Init ==
  /\ request = NoMsg /\ reqNew = FALSE /\ busy = NoMsg
  /\ response = NoMsg /\ rspNew = [c \in Clients |-> FALSE]
  /\ store = [k \in Keys |-> NoData] /\ nextId = 1
  /\ made = [c \in Clients |-> FALSE] /\ id = [c \in Clients |-> 0]
  /\ sync = [c \in Clients |-> NoMsg]
  /\ state = [c \in Clients |-> "Idle"] /\ active = [c \in Clients |-> NoMsg]
  /\ status = [c \in Clients |-> FALSE] /\ buffer = [c \in Clients |-> NoData]
  /\ calls = 0
  /\ since = [c \in Clients |-> [k \in Kinds |-> {}]] /\ tangled = {}
-----------------------------------------------------------------------------
Publish(r) == request' = r /\ reqNew' = TRUE

Aged(m, c, kind) ==
  IF m # NoMsg /\ m.from = c /\ m.op = kind THEN [m EXCEPT !.op = "old"] ELSE m

(* Mutant: pending answers are not drained. *)
Drained_Not(c) == rspNew

(* clearPendingResponse().                                                 *)
Drained(c) == [rspNew EXCEPT ![c] = FALSE]

(* What every call does first.                                             *)
Begin(c, kind, r) ==
  /\ calls < MaxCalls /\ calls' = calls + 1
  /\ rspNew' = Drained(c)
  /\ Publish(r)
  /\ busy' = Aged(busy, c, kind) /\ response' = Aged(response, c, kind)
  /\ since' = [since EXCEPT ![c][kind] = IF r.type = "read" THEN {store[r.key]} ELSE {}]

Req(c, kind, type, key, data) ==
  [id |-> id[c], type |-> type, key |-> key, data |-> data, from |-> c, op |-> kind]

(* The index of a clear, and the key in the constructor, are not           *)
(* initialised: the task does not read them.  There they are any value.    *)
Operations(types, clearIndexes) ==
  {o \in {<<"read", k, NoData>> : k \in Keys}
         \cup {<<"write", k, v>> : k \in Keys, v \in Values}
         \cup {<<"clear", k, NoData>> : k \in Items \X clearIndexes} : o[1] \in types}

(* The constructor asks for an identifier, once.                           *)
Construct(c) ==
  /\ ~made[c] /\ sync[c] = NoMsg
  /\ \E k \in Keys :
       LET r == Req(c, "sync", "getId", k, NoData)
       IN  Begin(c, "sync", r) /\ sync' = [sync EXCEPT ![c] = r]
  /\ made' = [made EXCEPT ![c] = TRUE]
  /\ UNCHANGED <<store, nextId, id, asyncVars, buffer, tangled>>

Waits(c) == state[c] = "RequestSent"

(* readSync(), writeSync() and clearSync(), up to the wait.                *)
CallSync(c, o) ==
  /\ id[c] # 0 /\ sync[c] = NoMsg
  /\ LET r == Req(c, "sync", o[1], o[2], o[3])
     IN  /\ Begin(c, "sync", r) /\ sync' = [sync EXCEPT ![c] = r]
         /\ tangled' = IF Waits(c) /\ active[c].type = o[1] /\ active[c].key = o[2]
                         THEN tangled \cup {c} ELSE tangled
  /\ UNCHANGED <<store, nextId, made, id, asyncVars, buffer>>

(* Mutant: any DM_GET_ID answer will do. *)
Accepts_AnyStamp(c, r, rsp) ==
  IF rsp.id = r.id THEN rsp.type = r.type /\ rsp.key = r.key
  ELSE r.id = 0 /\ rsp.type = "getId"

(* syncHandler(): whether an answer is taken for the one awaited.          *)
Accepts(c, r, rsp) ==
  IF rsp.id = r.id THEN rsp.type = r.type /\ rsp.key = r.key
  ELSE r.id = 0 /\ rsp.type = "getId" /\ rsp.from = c

Hit(c) == rspNew[c] /\ sync[c] # NoMsg /\ Accepts(c, sync[c], response)

(* The poll reports an answer.                                             *)
Receive(c) ==
  /\ sync[c] # NoMsg /\ rspNew[c]
  /\ rspNew' = [rspNew EXCEPT ![c] = FALSE]
  /\ sync' = IF Hit(c) THEN [sync EXCEPT ![c] = NoMsg] ELSE sync
  /\ id' = IF Hit(c) /\ sync[c].type = "getId" THEN [id EXCEPT ![c] = response.id] ELSE id
  /\ buffer' = IF Hit(c) /\ sync[c].type = "read" /\ response.ok
                 THEN [buffer EXCEPT ![c] = response.data] ELSE buffer
  /\ since' = IF Hit(c) THEN [since EXCEPT ![c]["sync"] = {}] ELSE since
  /\ UNCHANGED <<request, reqNew, response, serverVars, made, asyncVars, calls, tangled>>

(* The poll times out: the request is sent again.                          *)
Repeat(c) ==
  /\ sync[c] # NoMsg /\ ~rspNew[c]
  /\ Publish(sync[c])
  /\ tangled' = tangled \cup {c}
  /\ UNCHANGED <<response, rspNew, serverVars, syncVars, asyncVars, buffer, calls, since>>

(* The time-out of the call has passed, or the poll fails.                 *)
GiveUp(c) ==
  /\ sync[c] # NoMsg
  /\ sync' = [sync EXCEPT ![c] = NoMsg]
  /\ since' = [since EXCEPT ![c]["sync"] = {}]
  /\ tangled' = tangled \cup {c}
  /\ UNCHANGED <<topicVars, serverVars, made, id, asyncVars, buffer, calls>>
-----------------------------------------------------------------------------
(* readAsync(), writeAsync() and clearAsync().                             *)
CallAsync(c, o) ==
  /\ id[c] # 0 /\ sync[c] = NoMsg /\ state[c] = "Idle"
  /\ LET r == Req(c, "async", o[1], o[2], o[3])
     IN  Begin(c, "async", r) /\ active' = [active EXCEPT ![c] = r]
  /\ state' = [state EXCEPT ![c] = "RequestSent"]
  /\ UNCHANGED <<store, nextId, syncVars, status, buffer, tangled>>

(* Mutant: the identifier of the client is not compared. *)
Answers_AnyClient(c, rsp) ==
  rsp.type = active[c].type /\ rsp.key = active[c].key

Answers(c, rsp) ==
  rsp.id = id[c] /\ rsp.type = active[c].type /\ rsp.key = active[c].key

AsyncHit(c) == rspNew[c] /\ Waits(c) /\ Answers(c, response)

(* Mutant: an unanswered request is not sent again. *)
SendsAgain_Never(c, elapsed) == FALSE

SendsAgain(c, elapsed) == elapsed /\ ~AsyncHit(c)

(* update(); elapsed says whether the time for an answer has passed.       *)
Update(c, elapsed) ==
  /\ sync[c] = NoMsg /\ Waits(c)
  /\ rspNew' = [rspNew EXCEPT ![c] = FALSE]
  /\ \/ /\ AsyncHit(c)
        /\ state' = [state EXCEPT ![c] = "ResponseReceived"]
        /\ status' = [status EXCEPT ![c] = response.ok]
        /\ buffer' = IF response.type = "read"
                       THEN [buffer EXCEPT ![c] = response.data] ELSE buffer
        /\ since' = [since EXCEPT ![c]["async"] = {}]
     \/ /\ ~AsyncHit(c)
        /\ UNCHANGED <<state, status, buffer, since>>
  /\ IF SendsAgain(c, elapsed)
       THEN Publish(active[c]) /\ tangled' = tangled \cup {c}
       ELSE UNCHANGED <<request, reqNew, tangled>>
  /\ UNCHANGED <<response, serverVars, syncVars, active, calls>>

lastOperationCompleted(c) ==
  /\ sync[c] = NoMsg /\ state[c] = "ResponseReceived"
  /\ state' = [state EXCEPT ![c] = "Idle"]
  /\ UNCHANGED <<topicVars, serverVars, syncVars, active, status, buffer, calls, since,
                 tangled>>

abortCurrentOperation(c) ==
  /\ sync[c] = NoMsg /\ state[c] # "Idle"
  /\ state' = [state EXCEPT ![c] = "Idle"]
  /\ since' = [since EXCEPT ![c]["async"] = {}]
  /\ tangled' = tangled \cup {c}
  /\ UNCHANGED <<topicVars, serverVars, syncVars, active, status, buffer, calls>>
-----------------------------------------------------------------------------
(* The task copies the request.                                            *)
Take ==
  /\ busy = NoMsg /\ reqNew
  /\ busy' = request /\ reqNew' = FALSE
  /\ UNCHANGED <<request, response, rspNew, store, nextId, syncVars, asyncVars, buffer,
                 calls, since, tangled>>

InProgress(c, kind) ==
  IF kind = "sync" THEN {sync[c]} \ {NoMsg} ELSE IF Waits(c) THEN {active[c]} ELSE {}
Same(r, s) == r.from = s.from /\ r.type = s.type /\ r.key = s.key

(* It answers with data, after which the store is s.                       *)
Answer(newId, ok, data, s) ==
  /\ response' = [id |-> newId, type |-> busy.type, key |-> busy.key, ok |-> ok,
                  data |-> data, from |-> busy.from, op |-> busy.op]
  /\ rspNew' = [c \in Clients |-> TRUE]
  /\ busy' = NoMsg /\ store' = s
  /\ since' = [c \in Clients |-> [k \in Kinds |->
                 since[c][k] \cup {s[r.key] : r \in {w \in InProgress(c, k) :
                   w.type = "read" \/ (ok /\ Same(w, busy))}}]]
  /\ UNCHANGED <<request, reqNew, syncVars, asyncVars, buffer, calls, tangled>>

(* Mutant: the last identifier wraps. *)
HasId_OffByOne == nextId <= MaxIds

HasId == nextId < MaxIds

ServeGetId ==
  /\ busy # NoMsg /\ busy.type = "getId"
  /\ nextId' = IF HasId THEN nextId + 1 ELSE nextId
  /\ Answer(IF HasId THEN nextId ELSE 0, FALSE, NoData, store)

ServeRead(ok) ==
  /\ busy # NoMsg /\ busy.type = "read"
  /\ Answer(busy.id, ok, IF ok THEN store[busy.key] ELSE NoData, store)
  /\ UNCHANGED nextId

(* A write that fails leaves the record as it was, or part of it written.  *)
ServeWrite(ok, left) ==
  /\ busy # NoMsg /\ busy.type = "write"
  /\ ok => left = busy.data
  /\ ~ok => left \in {store[busy.key], Torn}
  /\ Answer(busy.id, ok, NoData, [store EXCEPT ![busy.key] = left])
  /\ UNCHANGED nextId

(* A clear stops after n records where the file fails.  A record that      *)
(* cannot be read ends it as the end of the file does, with success.       *)
ServeClear(ok, n) ==
  /\ busy # NoMsg /\ busy.type = "clear"
  /\ ~ok => n < Cardinality(Indexes)
  /\ Answer(busy.id, ok, NoData,
            [k \in Keys |-> IF k[1] = busy.key[1] /\ k[2] < n THEN NoData ELSE store[k]])
  /\ UNCHANGED nextId

Serve ==
  \/ ServeGetId
  \/ \E ok \in BOOLEAN : ServeRead(ok)
  \/ \E ok \in BOOLEAN, left \in Stored : ServeWrite(ok, left)
  \/ \E ok \in BOOLEAN, n \in 0..Cardinality(Indexes) : ServeClear(ok, n)

ClientNext(c) ==
  \/ Construct(c)
  \/ \E o \in Operations(SyncTypes[c], Indexes) : CallSync(c, o)
  \/ \E o \in Operations(AsyncTypes[c], {0}) : CallAsync(c, o)
  \/ Receive(c) \/ Repeat(c) \/ GiveUp(c)
  \/ \E elapsed \in BOOLEAN : Update(c, elapsed)
  \/ lastOperationCompleted(c) \/ abortCurrentOperation(c)

Next == Take \/ Serve \/ \E c \in Clients : ClientNext(c)

Spec == Init /\ [][Next]_vars

(* The task runs, a synchronous call ends at its time-out at the latest,   *)
(* and update() is called again and again, also after the time for an      *)
(* answer has passed.                                                      *)
Fairness ==
  /\ WF_vars(Take) /\ WF_vars(Serve)
  /\ \A c \in Clients : WF_vars(GiveUp(c)) /\ WF_vars(Update(c, TRUE))
FairSpec == Spec /\ Fairness
-----------------------------------------------------------------------------
(* Every variable stays in its type: identifiers in particular fit a byte. *)
TypeOK ==
  /\ request \in Requests \cup {NoMsg} /\ busy \in Requests \cup {NoMsg}
  /\ response \in Responses \cup {NoMsg}
  /\ reqNew \in BOOLEAN /\ rspNew \in [Clients -> BOOLEAN]
  /\ store \in [Keys -> Stored] /\ nextId \in 1..MaxIds
  /\ made \in [Clients -> BOOLEAN] /\ id \in [Clients -> 0..MaxIds]
  /\ sync \in [Clients -> Requests \cup {NoMsg}]
  /\ state \in [Clients -> {"Idle", "RequestSent", "ResponseReceived"}]
  /\ active \in [Clients -> Requests \cup {NoMsg}]
  /\ status \in [Clients -> BOOLEAN] /\ buffer \in [Clients -> Stored]
  /\ calls \in 0..MaxCalls
  /\ since \in [Clients -> [Kinds -> SUBSET Stored]] /\ tangled \subseteq Clients

(* However often clients that start at the same time repeat their requests *)
(* for an identifier, and whatever answers they see, no two of them work   *)
(* under the same one.                                                     *)
IdsUnique ==
  \A c, d \in Clients : c # d /\ id[c] # 0 => id[c] # id[d]

(* In this step an answer, and not the time-out, ends a call.              *)
Answered(c) == rspNew[c] /\ ~rspNew'[c] /\ sync[c] # NoMsg /\ sync'[c] = NoMsg
AsyncAnswered(c) == Waits(c) /\ state'[c] = "ResponseReceived"

(* What a successful call reports has happened between the call and its    *)
(* return, although answers to earlier calls for the same record may still *)
(* be on their way: the record that is returned was stored then, a write   *)
(* or a clear of the record by this client succeeded then.                 *)
SuccessIsCurrent ==
  [][\A c \in Clients : response # NoMsg /\ response.ok =>
       /\ Answered(c) => since[c]["sync"] # {}
                         /\ (sync[c].type = "read" => buffer'[c] \in since[c]["sync"])
       /\ AsyncAnswered(c) =>
            since[c]["async"] # {}
            /\ (active[c].type = "read" => buffer'[c] \in since[c]["async"])]_vars

(* An answer that ends a call is one to a request of this client, and to   *)
(* this very call, as long as the client has repeated no request, given    *)
(* none up, and not asked for the same in two ways at once.                *)
AnswerIsOwn ==
  [][\A c \in Clients :
       /\ Answered(c) /\ id[c] # 0
            => response.from = c /\ (response.op = "sync" \/ c \in tangled)
       /\ AsyncAnswered(c)
            => response.from = c /\ (response.op = "async" \/ c \in tangled)]_vars

(* An asynchronous call does not wait for ever, whatever is lost: it is    *)
(* answered in the end, unless it is aborted.                              *)
AsyncCompletes == \A c \in Clients : Waits(c) ~> ~Waits(c)
=============================================================================
