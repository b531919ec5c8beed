--------------------------- MODULE MissionTransfer ---------------------------
(***************************************************************************)
(* Upload, download and clearing of missions by MavlinkMissionManager: one *)
(* instance per MAVLink link, static members shared by all of them, two    *)
(* storages in dataman of which one is active, the record in dataman that  *)
(* says which, and the "mission" topic.                                    *)
(*                                                                         *)
(* A mission stands for its content: it is what each of its items carries; *)
(* 0 is the empty mission.  The CRC covers the items received, so it tells *)
(* a mission and a number of its items apart.                              *)
(* A partner sends items of the mission whose MISSION_COUNT the vehicle    *)
(* answered with a request; any message may be lost, delayed or repeated.  *)
(* Messages that are answered and change no member are left out, as is     *)
(* what the answers say.                                                   *)
(* A handler runs at once up to a blocking call of dataman: the update of  *)
(* the active mission is three steps, and the power may fail between them. *)
(***************************************************************************)
EXTENDS Integers, FiniteSets

CONSTANTS
  Instances,         \* MavlinkMissionManager objects
  Missions,          \* the missions that are uploaded
  Length,            \* [Missions -> the number of their items]
  MaxCount,          \* current_max_item_count()
  Faults             \* what goes wrong beyond loss, repetition and power failure

ASSUME MissionConstants ==
  /\ MaxCount \in Nat \ {0} /\ 0 \notin Missions
  /\ Length \in [Missions -> Nat \ {0}]
  /\ Faults \subseteq {"silent_download",\* the partner stops in the middle of one
                      "overlap",        \* a command during another instance's update
                      "count_race",     \* two announced missions look at the flag
                                        \* before either sets it
                      "write_fails",    \* dataman cannot write the record
                      "read_fails"}     \* dataman cannot read it after a start

VARIABLES
  active,    \* _mission_dataman_id, _count and _crc32, as one record
  inProgress,\* _transfer_in_progress
  disk,      \* the same record in dataman (DM_KEY_MISSION_STATE)
  storage,   \* [Ids -> [Seqs -> the mission of the item stored there]]
  topic,     \* the last "mission" message
  unread,    \* instances that have not seen it
  my,        \* [Instances -> _my_mission_dataman_id]
  state,     \* [Instances -> _state]
  seq,       \* [Instances -> _transfer_seq]
  total,     \* [Instances -> _transfer_count]
  target,    \* [Instances -> _transfer_dataman_id]
  crc,       \* [Instances -> the mission that is received]
  pc,        \* [Instances -> where it is in update_active_mission()]
  pending    \* [Instances -> the record of that call]

sharedVars   == <<active, inProgress, disk, storage, topic, unread>>
transferVars == <<state, seq, total, target, crc>>
updateVars   == <<my, pc, pending>>
vars == <<sharedVars, transferVars, updateVars>>

Ids      == {0, 1}            \* DM_KEY_WAYPOINTS_OFFBOARD_0 and _1
Seqs     == 0..(MaxCount - 1)
Empty    == 0
Record   == [id : Ids, count : 0..MaxCount, crc : Missions \cup {Empty}]

NoMission(id) == [id |-> id, count |-> 0, crc |-> Empty]
Other(id) == 1 - id

Idle(i)  == state[i] = "idle" /\ pc[i] = "none"
SameCrc(r, m, n) == r.crc = m /\ r.count = n

Receiving(i) == state[i] \in {"getlist", "clearing"}

(* The operators of two links do not act within one update of each other.  *)
Alone == "overlap" \in Faults \/ (unread = {} /\ \A j \in Instances : pc[j] = "none")

(* Constructor of the first instance, with nothing in dataman.             *)
Init ==
  /\ active = NoMission(0) /\ disk = active /\ topic = active /\ inProgress = FALSE
  /\ storage = [d \in Ids |-> [k \in Seqs |-> Empty]]
  /\ unread = {} /\ my = [i \in Instances |-> 0]
  /\ state = [i \in Instances |-> "idle"] /\ seq = [i \in Instances |-> 0]
  /\ total = [i \in Instances |-> 0] /\ target = [i \in Instances |-> 0]
  /\ crc = [i \in Instances |-> Empty]
  /\ pc = [i \in Instances |-> "none"] /\ pending = [i \in Instances |-> NoMission(0)]
-----------------------------------------------------------------------------
(* update_active_mission(), of which the caller runs the rest in Publish:  *)
(* the statics under the mutex, the record in dataman, the topic.          *)
StartUpdate(i, record) ==
  /\ Alone
  /\ active' = record /\ my' = [my EXCEPT ![i] = record.id]
  /\ pending' = [pending EXCEPT ![i] = record] /\ pc' = [pc EXCEPT ![i] = "write"]

(* Mutant: write_to_dataman is not passed on. *)
WriteState_Skipped(i) ==
  /\ pc[i] = "write"
  /\ pc' = [pc EXCEPT ![i] = "publish"]
  /\ UNCHANGED <<sharedVars, transferVars, my, pending>>

(* A failed write is only reported, and the mission is published anyway.   *)
WriteState(i) ==
  /\ pc[i] = "write"
  /\ disk' \in {pending[i]} \cup {d \in {disk} : "write_fails" \in Faults}
  /\ pc' = [pc EXCEPT ![i] = "publish"]
  /\ UNCHANGED <<active, inProgress, storage, topic, unread, transferVars, my, pending>>

(* The caller goes on: an upload or a MISSION_COUNT of 0 frees the         *)
(* transfer, and all but MISSION_SET_CURRENT are answered.                 *)
Publish(i) ==
  /\ pc[i] = "publish"
  /\ topic' = pending[i] /\ unread' = Instances
  /\ pc' = [pc EXCEPT ![i] = "none"]
  /\ inProgress' = (inProgress /\ ~Receiving(i))
  /\ state' = [state EXCEPT ![i] = "idle"]
  /\ pending' = [pending EXCEPT ![i] = NoMission(0)]
  /\ UNCHANGED <<active, disk, storage, seq, total, target, crc, my>>

check_active_mission(i) ==
  /\ i \in unread /\ pc[i] = "none"
  /\ unread' = unread \ {i}
  /\ IF ~SameCrc(topic, active.crc, active.count) \/ my[i] # topic.id
       THEN active' = topic /\ my' = [my EXCEPT ![i] = topic.id]
       ELSE UNCHANGED <<active, my>>
  /\ UNCHANGED <<inProgress, disk, storage, topic, transferVars, pc, pending>>

(* The navigator publishes the mission when its current item changes.      *)
NavigatorPublish ==
  /\ unread # Instances /\ ("overlap" \in Faults \/ \A i \in Instances : pc[i] = "none")
  /\ unread' = Instances
  /\ UNCHANGED <<active, inProgress, disk, storage, topic, transferVars, updateVars>>
-----------------------------------------------------------------------------
(* Mutant: the active storage is overwritten. *)
TransferStorage_Active == active.id

(* "use inactive storage for transmission"                                 *)
TransferStorage == Other(active.id)

(* "Transfer over different mavlink instance. ignore": the flag is looked  *)
(* at and set without the mutex.                                           *)
TransferFree ==
  \/ ~inProgress
  \/ "count_race" \in Faults /\ \E j \in Instances : state[j] = "getlist" /\ seq[j] = 0

(* Mutant: a transfer of another instance is not looked for. *)
handle_mission_count_Shared(i, m) ==
  /\ Idle(i) /\ Alone /\ Length[m] <= MaxCount
  /\ inProgress' = TRUE
  /\ state' = [state EXCEPT ![i] = "getlist"] /\ seq' = [seq EXCEPT ![i] = 0]
  /\ total' = [total EXCEPT ![i] = Length[m]] /\ crc' = [crc EXCEPT ![i] = m]
  /\ target' = [target EXCEPT ![i] = TransferStorage]
  /\ UNCHANGED <<active, disk, storage, topic, unread, updateVars>>

(* MISSION_COUNT: an upload starts unless one is in progress.              *)
handle_mission_count(i, m) ==
  /\ Idle(i) /\ TransferFree /\ Alone /\ Length[m] <= MaxCount
  /\ inProgress' = TRUE
  /\ state' = [state EXCEPT ![i] = "getlist"] /\ seq' = [seq EXCEPT ![i] = 0]
  /\ total' = [total EXCEPT ![i] = Length[m]] /\ crc' = [crc EXCEPT ![i] = m]
  /\ target' = [target EXCEPT ![i] = TransferStorage]
  /\ UNCHANGED <<active, disk, storage, topic, unread, updateVars>>

(* MISSION_COUNT again, before the first item: the request is repeated.    *)
(* The partner may announce another mission, whose count is not looked at. *)
handle_mission_count_again(i, m) ==
  /\ state[i] = "getlist" /\ pc[i] = "none" /\ seq[i] = 0 /\ crc[i] # m
  /\ crc' = [crc EXCEPT ![i] = m]
  /\ UNCHANGED <<sharedVars, state, seq, total, target, updateVars>>

(* MISSION_COUNT of 0 clears the mission. "clearing" is the idle state with*)
(* the transfer claimed, until update_active_mission() returns.            *)
handle_mission_count_zero(i) ==
  /\ Idle(i) /\ TransferFree
  /\ StartUpdate(i, NoMission(Other(active.id)))
  /\ inProgress' = TRUE
  /\ state' = [state EXCEPT ![i] = "clearing"]
  /\ UNCHANGED <<disk, storage, topic, unread, seq, total, target, crc>>

(* The item that was asked for, if the partner's mission has it.           *)
ItemArrives(i) ==
  state[i] = "getlist" /\ pc[i] = "none" /\ seq[i] < Length[crc[i]]

(* MISSION_ITEM that was asked for, and is not the last.                   *)
handle_mission_item(i) ==
  /\ ItemArrives(i) /\ seq[i] + 1 < total[i]
  /\ storage' = [storage EXCEPT ![target[i]][seq[i]] = crc[i]]
  /\ seq' = [seq EXCEPT ![i] = @ + 1]
  /\ UNCHANGED <<active, inProgress, disk, topic, unread, state, total, target, crc,
                 updateVars>>

(* Mutant: the switch to idle comes before update_active_mission(). *)
handle_last_mission_item_EarlyIdle(i) ==
  /\ ItemArrives(i) /\ seq[i] + 1 = total[i]
  /\ storage' = [storage EXCEPT ![target[i]][seq[i]] = crc[i]]
  /\ seq' = [seq EXCEPT ![i] = @ + 1]
  /\ StartUpdate(i, [id |-> target[i], count |-> total[i], crc |-> crc[i]])
  /\ state' = [state EXCEPT ![i] = "idle"] /\ inProgress' = FALSE
  /\ UNCHANGED <<disk, topic, unread, total, target, crc>>

(* The last one: the mission becomes the active one if it differs.         *)
handle_last_mission_item(i) ==
  /\ ItemArrives(i) /\ seq[i] + 1 = total[i]
  /\ storage' = [storage EXCEPT ![target[i]][seq[i]] = crc[i]]
  /\ seq' = [seq EXCEPT ![i] = @ + 1]
  /\ \/ /\ ~SameCrc(active, crc[i], total[i])
        /\ StartUpdate(i, [id |-> target[i], count |-> total[i], crc |-> crc[i]])
        /\ UNCHANGED <<inProgress, state>>
     \/ /\ SameCrc(active, crc[i], total[i])
        /\ state' = [state EXCEPT ![i] = "idle"] /\ inProgress' = FALSE
        /\ UNCHANGED <<active, updateVars>>
  /\ UNCHANGED <<disk, topic, unread, total, target, crc>>

(* An item that is not valid or cannot be written ends the upload.         *)
item_rejected(i) ==
  /\ ItemArrives(i)
  /\ state' = [state EXCEPT ![i] = "idle"] /\ inProgress' = FALSE
  /\ UNCHANGED <<active, disk, storage, topic, unread, seq, total, target, crc, updateVars>>
-----------------------------------------------------------------------------
handle_mission_request_list(i) ==
  /\ pc[i] = "none" /\ state[i] \in {"idle", "sendlist"}
  /\ state' = [state EXCEPT ![i] = "sendlist"] /\ seq' = [seq EXCEPT ![i] = 0]
  /\ total' = [total EXCEPT ![i] = active.count]
  /\ UNCHANGED <<sharedVars, target, crc, updateVars>>

(* MISSION_REQUEST(_INT): the next item or the last one again is sent; a   *)
(* request for another ends the download.                                  *)
handle_mission_request(i, k) ==
  /\ state[i] = "sendlist" /\ pc[i] = "none"
  /\ LET next == k = seq[i] /\ seq[i] < total[i]
     IN  /\ seq' = [seq EXCEPT ![i] = IF next THEN @ + 1 ELSE @]
         /\ state' = [state EXCEPT ![i] =
                        IF (next \/ k = seq[i] - 1) /\ k < active.count THEN @ ELSE "idle"]
  /\ UNCHANGED <<sharedVars, total, target, crc, updateVars>>

(* MISSION_ACK ends a download; one that cancels ends an upload as well.   *)
handle_mission_ack(i) ==
  /\ pc[i] = "none" /\ state[i] # "idle"
  /\ inProgress' = (inProgress /\ state[i] # "getlist")
  /\ state' = [state EXCEPT ![i] = "idle"]
  /\ UNCHANGED <<active, disk, storage, topic, unread, seq, total, target, crc, updateVars>>

(* MISSION_SET_CURRENT rewrites the record with another current item.      *)
handle_mission_set_current(i) ==
  /\ Idle(i) /\ active.count > 0
  /\ StartUpdate(i, active)
  /\ UNCHANGED <<inProgress, disk, storage, topic, unread, transferVars>>

(* MISSION_CLEAR_ALL, also while another instance receives a mission.      *)
handle_mission_clear_all(i) ==
  /\ Idle(i)
  /\ StartUpdate(i, NoMission(Other(active.id)))
  /\ UNCHANGED <<inProgress, disk, storage, topic, unread, transferVars>>

(* send(): "since we are giving up, reset this state also, so another      *)
(* request can be started" - whichever instance's transfer it is.          *)
SyncTimeout(i) ==
  /\ pc[i] = "none"
  /\ state[i] \in {"getlist"} \cup {s \in {"sendlist"} : "silent_download" \in Faults}
  /\ state' = [state EXCEPT ![i] = "idle"] /\ inProgress' = FALSE
  /\ UNCHANGED <<active, disk, storage, topic, unread, seq, total, target, crc, updateVars>>

(* The power fails and the first instance reads the record again, or, if   *)
(* it cannot, publishes what its members are initialised with.             *)
Reboot ==
  /\ active' \in {disk} \cup {r \in {NoMission(0)} : "read_fails" \in Faults}
  /\ topic' = active' /\ unread' = {} /\ inProgress' = FALSE
  /\ my' = [i \in Instances |-> active'.id]
  /\ state' = [i \in Instances |-> "idle"] /\ seq' = [i \in Instances |-> 0]
  /\ total' = [i \in Instances |-> 0] /\ target' = [i \in Instances |-> 0]
  /\ crc' = [i \in Instances |-> Empty]
  /\ pc' = [i \in Instances |-> "none"] /\ pending' = [i \in Instances |-> NoMission(0)]
  /\ UNCHANGED <<disk, storage>>

Step(i) ==
  \/ WriteState(i) \/ Publish(i) \/ check_active_mission(i)
  \/ \E m \in Missions : handle_mission_count(i, m) \/ handle_mission_count_again(i, m)
  \/ handle_mission_count_zero(i) \/ handle_mission_item(i) \/ handle_last_mission_item(i)
  \/ item_rejected(i)
  \/ handle_mission_request_list(i) \/ \E k \in Seqs : handle_mission_request(i, k)
  \/ handle_mission_ack(i) \/ handle_mission_set_current(i) \/ handle_mission_clear_all(i)
  \/ SyncTimeout(i)

Next == (\E i \in Instances : Step(i)) \/ NavigatorPublish \/ Reboot

Spec == Init /\ [][Next]_vars
-----------------------------------------------------------------------------
TypeOK ==
  /\ active \in Record /\ disk \in Record /\ topic \in Record /\ inProgress \in BOOLEAN
  /\ storage \in [Ids -> [Seqs -> Missions \cup {Empty}]]
  /\ unread \subseteq Instances /\ my \in [Instances -> Ids]
  /\ state \in [Instances -> {"idle", "getlist", "sendlist", "clearing"}]
  /\ seq \in [Instances -> 0..MaxCount] /\ total \in [Instances -> 0..MaxCount]
  /\ target \in [Instances -> Ids] /\ crc \in [Instances -> Missions \cup {Empty}]
  /\ pc \in [Instances -> {"none", "write", "publish"}]
  /\ pending \in [Instances -> Record]

Intact(r) == \A k \in Seqs : k < r.count => storage[r.id][k] = r.crc

(* Every item of the mission that is flown, of the one that a reboot loads *)
(* and of the one announced to the navigator is an item of that mission,   *)
(* whatever is uploaded, aborted or cleared meanwhile.                     *)
ActiveIntact == Intact(active) /\ Intact(disk) /\ Intact(topic)

(* When no update is under way, memory, dataman and topic name the same    *)
(* mission: the one that is flown is the one that survives a power loss.   *)
CopiesAgree ==
  (\A i \in Instances : pc[i] = "none") => active = disk /\ topic = disk

(* An upload that ends with its last item, and so with ACCEPTED, is by     *)
(* then the mission of the vehicle: memory, dataman and topic all name it, *)
(* with the number of items that were received, and they are in storage.   *)
(* A power failure right after the answer therefore loads it, also when    *)
(* the upload repeats the active mission and nothing is written, another   *)
(* link rewrites or cleared the mission meanwhile, or the partner          *)
(* announced a different mission before the first item.                    *)
UploadIsKept ==
  [][\A i \in Instances :
       state[i] = "getlist" /\ state'[i] = "idle" /\ seq'[i] = total[i] =>
         /\ \A r \in {active', disk', topic'} : SameCrc(r, crc[i], total[i])
         /\ Intact(disk)']_vars

(* _transfer_in_progress is set exactly while one instance receives a      *)
(* mission, or all others would be refused for good.                       *)
TransferOwned ==
  /\ inProgress <=> \E i \in Instances : Receiving(i)
  /\ \A i, j \in Instances : Receiving(i) /\ Receiving(j) => i = j
=============================================================================
