----------------------- MODULE MissionTransfer_proofs -----------------------
(***************************************************************************)
(* For every number of links, missions and items: who holds the transfer,  *)
(* that the active mission is never overwritten, and that what was         *)
(* acknowledged is kept.                                                   *)
(* Each theorem assumes only the absence of the faults that break it.      *)
(***************************************************************************)
EXTENDS MissionTransfer, TLAPS

(* The "clearing" state lasts no longer than the update it stands for.     *)
ClearingUpdates == \A i \in Instances : state[i] = "clearing" => pc[i] # "none"

OwnInv == TypeOK /\ ClearingUpdates /\ TransferOwned

(* Updates follow each other, and memory is first, dataman next, the topic *)
(* last.                                                                   *)
Serial ==
  /\ \A i, j \in Instances : pc[i] # "none" /\ pc[j] # "none" => i = j
  /\ \A i \in Instances : pc[i] = "write" =>
       unread = {} /\ pending[i] = active /\ disk = topic
  /\ \A i \in Instances : pc[i] = "publish" =>
       unread = {} /\ pending[i] = active /\ disk = active
  /\ CopiesAgree

Uploading(i) == state[i] = "getlist" /\ pc[i] = "none"

(* No record that counts names the storage of an upload, which holds the   *)
(* items received so far.                                                  *)
UploadOK ==
  \A i \in Instances : Uploading(i) =>
    /\ seq[i] < total[i]
    /\ \A k \in Seqs : k < seq[i] => storage[target[i]][k] = crc[i]
    /\ active.count > 0 => active.id # target[i]
    /\ disk.count > 0 => disk.id # target[i]
    /\ topic.count > 0 => topic.id # target[i]

(* An update that ends an upload is about that upload, and any other       *)
(* either clears the mission or changes nothing that the records hold.     *)
UpdateOK ==
  \A i \in Instances : pc[i] # "none" =>
    /\ state[i] = "getlist" =>
         total[i] > 0 /\ SameCrc(pending[i], crc[i], total[i])
    /\ state[i] # "getlist" /\ active.count > 0 => disk = active /\ topic = active

StoreInv == OwnInv /\ Serial /\ UploadOK /\ UpdateOK /\ ActiveIntact

(* The storages after the item that instance i has asked for.              *)
Stored(i) == [storage EXCEPT ![target[i]][seq[i]] = crc[i]]
-----------------------------------------------------------------------------
(* The records that the handlers build are records.                        *)
LEMMA RecordFacts ==
  /\ \A d \in Ids : Other(d) \in Ids /\ Other(d) # d /\ NoMission(d) \in Record
  /\ \A r \in Record : r.id \in Ids /\ r.count \in 0..MaxCount
                       /\ r.crc \in Missions \cup {Empty}
  /\ 0 \in Ids /\ Empty \notin Missions /\ MaxCount \in Nat /\ MaxCount > 0
  /\ \A m \in Missions : Length[m] \in Nat /\ Length[m] > 0
<1>1. /\ 0 \in Ids /\ Empty \notin Missions /\ MaxCount \in Nat /\ MaxCount > 0
      /\ \A m \in Missions : Length[m] \in Nat /\ Length[m] > 0
  BY MissionConstants DEF Ids, Empty
<1>2. \A d \in Ids : Other(d) \in Ids /\ Other(d) # d
  BY DEF Ids, Other
<1>3. \A d \in Ids : NoMission(d) \in Record
  BY <1>1 DEF NoMission, Record
<1>4. \A r \in Record : r.id \in Ids /\ r.count \in 0..MaxCount
                       /\ r.crc \in Missions \cup {Empty}
  BY DEF Record
<1> QED
  BY <1>1, <1>2, <1>3, <1>4

(* Receiving an item changes one slot of one storage.                      *)
LEMMA StoreItem ==
  ASSUME TypeOK, NEW i \in Instances, seq[i] < total[i]
  PROVE  /\ Stored(i) \in [Ids -> [Seqs -> Missions \cup {Empty}]]
         /\ seq[i] + 1 \in 0..MaxCount /\ seq[i] \in Seqs
         /\ \A d \in Ids : d # target[i] => Stored(i)[d] = storage[d]
         /\ \A k \in Seqs : Stored(i)[target[i]][k] =
                           IF k = seq[i] THEN crc[i] ELSE storage[target[i]][k]
<1>1. /\ target[i] \in Ids /\ seq[i] \in 0..MaxCount /\ total[i] \in 0..MaxCount
      /\ crc[i] \in Missions \cup {Empty} /\ MaxCount \in Nat
  BY RecordFacts DEF TypeOK
<1>2. seq[i] \in Seqs /\ seq[i] + 1 \in 0..MaxCount
  BY <1>1 DEF Seqs
<1>3. storage \in [Ids -> [Seqs -> Missions \cup {Empty}]]
  BY DEF TypeOK
<1> QED
  BY <1>1, <1>2, <1>3 DEF Stored

(* update_active_mission() stores the record it is given.                  *)
LEMMA StartUpdateType ==
  ASSUME TypeOK, NEW i \in Instances, NEW r \in Record, StartUpdate(i, r)
  PROVE  /\ active' \in Record /\ my' \in [Instances -> Ids]
         /\ pending' \in [Instances -> Record]
         /\ pc' \in [Instances -> {"none", "write", "publish"}]
BY RecordFacts DEF StartUpdate, TypeOK

(* The initial values have their types.                                    *)
LEMMA MissionTypeInit == Init => TypeOK
<1> SUFFICES ASSUME Init PROVE TypeOK
  OBVIOUS
<1>1. NoMission(0) \in Record /\ 0 \in Ids /\ 0 \in 0..MaxCount
  BY RecordFacts
<1>2. /\ storage \in [Ids -> [Seqs -> Missions \cup {Empty}]]
  BY DEF Init
<1> QED
  BY <1>1, <1>2 DEF Init, TypeOK

(* Every step, faulty or not, keeps the types.                             *)
LEMMA MissionTypeStep == TypeOK /\ [Next]_vars => TypeOK'
<1> SUFFICES ASSUME TypeOK, [Next]_vars PROVE TypeOK'
  OBVIOUS
<1> USE RecordFacts
<1>1. ASSUME NEW i \in Instances, WriteState(i) PROVE TypeOK'
  BY <1>1 DEF WriteState, TypeOK, sharedVars, transferVars, updateVars
<1>2. ASSUME NEW i \in Instances, Publish(i) PROVE TypeOK'
  BY <1>2 DEF Publish, TypeOK, sharedVars, transferVars, updateVars
<1>3. ASSUME NEW i \in Instances, check_active_mission(i) PROVE TypeOK'
  BY <1>3 DEF check_active_mission, TypeOK, sharedVars, transferVars, updateVars
<1>4. ASSUME NEW i \in Instances, handle_mission_count_zero(i) PROVE TypeOK'
  BY <1>4 DEF handle_mission_count_zero, TypeOK, sharedVars, transferVars, updateVars,
              StartUpdate, Idle
<1>5. ASSUME NEW i \in Instances, handle_mission_item(i) PROVE TypeOK'
  <2>0. seq' = [seq EXCEPT ![i] = seq[i] + 1] /\ storage' = Stored(i)
    BY <1>5 DEF handle_mission_item, Stored
  <2>1. seq[i] < total[i]
    <3>1. seq[i] \in Int /\ total[i] \in Int /\ seq[i] + 1 < total[i]
      BY <1>5 DEF handle_mission_item, TypeOK
    <3> QED
      BY <3>1
  <2>2. Stored(i) \in [Ids -> [Seqs -> Missions \cup {Empty}]] /\ seq[i] + 1 \in 0..MaxCount
    BY <2>1, StoreItem
  <2>3. storage' \in [Ids -> [Seqs -> Missions \cup {Empty}]] /\ seq' \in [Instances -> 0..MaxCount]
    BY <2>0, <2>2 DEF TypeOK
  <2> QED
    BY <1>5, <2>3 DEF handle_mission_item, TypeOK, updateVars
<1>6. ASSUME NEW i \in Instances, handle_last_mission_item(i) PROVE TypeOK'
  <2>0. seq' = [seq EXCEPT ![i] = seq[i] + 1] /\ storage' = Stored(i)
    BY <1>6 DEF handle_last_mission_item, Stored
  <2>1. seq[i] < total[i]
    <3>1. seq[i] \in Int /\ total[i] \in Int /\ seq[i] + 1 = total[i]
      BY <1>6 DEF handle_last_mission_item, TypeOK
    <3> QED
      BY <3>1
  <2>2. Stored(i) \in [Ids -> [Seqs -> Missions \cup {Empty}]] /\ seq[i] + 1 \in 0..MaxCount
    BY <2>1, StoreItem
  <2>3. storage' \in [Ids -> [Seqs -> Missions \cup {Empty}]] /\ seq' \in [Instances -> 0..MaxCount]
    BY <2>0, <2>2 DEF TypeOK
  <2>4. /\ [id |-> target[i], count |-> total[i], crc |-> crc[i]] \in Record
        /\ crc[i] \in Missions \cup {Empty}
    BY DEF TypeOK, Record
  <2>5. CASE ~SameCrc(active, crc[i], total[i])
    <3>1. /\ active' \in Record /\ my' \in [Instances -> Ids]
          /\ pending' \in [Instances -> Record]
          /\ pc' \in [Instances -> {"none", "write", "publish"}]
      BY <1>6, <2>4, <2>5, StartUpdateType DEF handle_last_mission_item
    <3>2. UNCHANGED <<inProgress, state>>
      BY <1>6, <2>5 DEF handle_last_mission_item
    <3> QED
      BY <1>6, <2>3, <2>4, <3>1, <3>2 DEF handle_last_mission_item, TypeOK
  <2>6. CASE SameCrc(active, crc[i], total[i])
    BY <1>6, <2>3, <2>4, <2>6 DEF handle_last_mission_item, TypeOK, updateVars
  <2> QED
    BY <2>5, <2>6
<1>7. ASSUME NEW i \in Instances, item_rejected(i) PROVE TypeOK'
  BY <1>7 DEF item_rejected, TypeOK, sharedVars, transferVars, updateVars
<1>9. ASSUME NEW i \in Instances, handle_mission_request_list(i) PROVE TypeOK'
  BY <1>9 DEF handle_mission_request_list, TypeOK, sharedVars, transferVars, updateVars
<1>10. ASSUME NEW i \in Instances, handle_mission_ack(i) PROVE TypeOK'
  BY <1>10 DEF handle_mission_ack, TypeOK, sharedVars, transferVars, updateVars
<1>11. ASSUME NEW i \in Instances, handle_mission_set_current(i) PROVE TypeOK'
  BY <1>11 DEF handle_mission_set_current, TypeOK, sharedVars, transferVars, updateVars,
              StartUpdate, Idle
<1>12. ASSUME NEW i \in Instances, handle_mission_clear_all(i) PROVE TypeOK'
  BY <1>12 DEF handle_mission_clear_all, TypeOK, sharedVars, transferVars, updateVars,
              StartUpdate, Idle
<1>13. ASSUME NEW i \in Instances, SyncTimeout(i) PROVE TypeOK'
  BY <1>13 DEF SyncTimeout, TypeOK, sharedVars, transferVars, updateVars
<1>14. ASSUME NEW i \in Instances, NEW m \in Missions, handle_mission_count(i, m)
      PROVE  TypeOK'
  <2>1. Length[m] \in 0..MaxCount
    BY <1>14 DEF handle_mission_count
  <2> QED
    BY <1>14, <2>1 DEF handle_mission_count, TransferStorage, TypeOK, updateVars
<1>15. ASSUME NEW i \in Instances, NEW m \in Missions,
             handle_mission_count_again(i, m)
      PROVE  TypeOK'
  BY <1>15 DEF handle_mission_count_again, TypeOK, sharedVars, updateVars
<1>16. ASSUME NEW i \in Instances, NEW k \in Seqs, handle_mission_request(i, k)
      PROVE  TypeOK'
  <2>1. seq[i] \in 0..MaxCount /\ (seq[i] < total[i] => seq[i] + 1 \in 0..MaxCount)
    BY DEF TypeOK
  <2> QED
    BY <1>16, <2>1 DEF handle_mission_request, TypeOK, sharedVars, updateVars
<1>17. CASE NavigatorPublish
  BY <1>17 DEF NavigatorPublish, TypeOK, transferVars, updateVars
<1>18. CASE Reboot
  <2>1. NoMission(0) \in Record /\ 0 \in Ids /\ 0 \in 0..MaxCount
    BY DEF TypeOK
  <2>2. active' \in Record /\ active'.id \in Ids
    BY <1>18, <2>1 DEF Reboot, TypeOK
  <2> QED
    BY <1>18, <2>1, <2>2 DEF Reboot, TypeOK
<1>19. CASE UNCHANGED vars
  BY <1>19 DEF vars, TypeOK, sharedVars, transferVars, updateVars
<1> QED
  BY <1>1, <1>2, <1>3, <1>4, <1>5, <1>6, <1>7, <1>9, <1>10, <1>11,
     <1>12, <1>13, <1>14, <1>15, <1>16, <1>17, <1>18, <1>19 DEF Next, Step

(* Every variable stays in its type, whatever goes wrong.                  *)
THEOREM MissionTypeCorrectness == Spec => []TypeOK
BY MissionTypeInit, MissionTypeStep, PTL DEF Spec
-----------------------------------------------------------------------------
(* The four ways in which a step changes who receives a mission.           *)
LEMMA OwnSame ==
  ASSUME ClearingUpdates, TransferOwned, UNCHANGED <<inProgress, state>>,
         \A i \in Instances : pc'[i] = "none" => pc[i] = "none"
  PROVE  ClearingUpdates' /\ TransferOwned'
BY DEF ClearingUpdates, TransferOwned, Receiving

(* A download begins or ends.                                             *)
LEMMA OwnDownload ==
  ASSUME ClearingUpdates, TransferOwned, TypeOK, UNCHANGED <<inProgress, pc>>,
         NEW i \in Instances, ~Receiving(i), NEW x \in {"idle", "sendlist"},
         state' = [state EXCEPT ![i] = x]
  PROVE  ClearingUpdates' /\ TransferOwned'
<1>1. \A j \in Instances : (Receiving(j))' <=> Receiving(j)
  BY DEF Receiving, TypeOK
<1>2. \A j \in Instances : state'[j] = "clearing" => state[j] = "clearing"
  BY DEF TypeOK
<1> QED
  BY <1>1, <1>2 DEF ClearingUpdates, TransferOwned

(* An upload, or the clearing of the mission, claims the transfer.         *)
LEMMA OwnStart ==
  ASSUME ClearingUpdates, TransferOwned, TypeOK, ~inProgress, inProgress' = TRUE,
         NEW i \in Instances, NEW x \in {"getlist", "clearing"},
         state' = [state EXCEPT ![i] = x],
         x = "clearing" => pc'[i] # "none",
         \A j \in Instances \ {i} : pc'[j] = pc[j]
  PROVE  ClearingUpdates' /\ TransferOwned'
<1>1. \A j \in Instances : (Receiving(j))' <=> j = i
  BY DEF Receiving, TypeOK, TransferOwned
<1>2. \A j \in Instances \ {i} : state'[j] = state[j]
  BY DEF TypeOK
<1>3. state'[i] = x
  BY DEF TypeOK
<1> QED
  BY <1>1, <1>2, <1>3 DEF ClearingUpdates, TransferOwned

(* It is freed by the instance that holds it, and by no other.             *)
LEMMA OwnEnd ==
  ASSUME ClearingUpdates, TransferOwned, TypeOK, NEW i \in Instances,
         inProgress' = (inProgress /\ ~Receiving(i)),
         state' = [state EXCEPT ![i] = "idle"],
         \A j \in Instances \ {i} : pc'[j] = pc[j]
  PROVE  ClearingUpdates' /\ TransferOwned'
<1>1. \A j \in Instances : (Receiving(j))' <=> Receiving(j) /\ j # i
  BY DEF Receiving, TypeOK
<1>2. \A j \in Instances \ {i} : state'[j] = state[j]
  BY DEF TypeOK
<1>3. state'[i] = "idle"
  BY DEF TypeOK
<1>4. ClearingUpdates'
  BY <1>2, <1>3 DEF ClearingUpdates
<1>5. TransferOwned'
  BY <1>1 DEF TransferOwned
<1> QED
  BY <1>4, <1>5

(* Every step is one of these.                                             *)
LEMMA OwnStep ==
  ASSUME "silent_download" \notin Faults, "count_race" \notin Faults,
         OwnInv, [Next]_vars
  PROVE  ClearingUpdates' /\ TransferOwned'
<1> USE DEF OwnInv
<1>1. ASSUME NEW i \in Instances,
             \/ WriteState(i) \/ check_active_mission(i) \/ handle_mission_item(i)
             \/ handle_mission_set_current(i)
             \/ handle_mission_clear_all(i)
             \/ \E m \in Missions : handle_mission_count_again(i, m)
      PROVE  ClearingUpdates' /\ TransferOwned'
  <2>1. UNCHANGED <<inProgress, state>>
    BY <1>1 DEF WriteState, check_active_mission, handle_mission_item,
       handle_mission_set_current, handle_mission_clear_all, handle_mission_count_again,
       transferVars, sharedVars
  <2>2. \A j \in Instances : pc'[j] = "none" => pc[j] = "none"
    BY <1>1 DEF WriteState, check_active_mission, handle_mission_item,
       handle_mission_set_current, handle_mission_clear_all, handle_mission_count_again,
       updateVars, StartUpdate, TypeOK
  <2> QED
    BY <2>1, <2>2, OwnSame
<1>2. ASSUME NEW i \in Instances, Publish(i)
      PROVE  ClearingUpdates' /\ TransferOwned'
  <2>1. \A j \in Instances \ {i} : pc'[j] = pc[j]
    BY <1>2 DEF Publish, TypeOK
  <2> QED
    BY <1>2, <2>1, OwnEnd DEF Publish
<1>3. ASSUME NEW i \in Instances, item_rejected(i) \/ handle_mission_ack(i) \/ SyncTimeout(i)
      PROVE  ClearingUpdates' /\ TransferOwned'
  <2>1. /\ state' = [state EXCEPT ![i] = "idle"]
        /\ \A j \in Instances \ {i} : pc'[j] = pc[j]
        /\ pc[i] = "none"
    BY <1>3 DEF item_rejected, ItemArrives, handle_mission_ack, SyncTimeout, updateVars
  <2>2. state[i] # "clearing"
    BY <2>1 DEF ClearingUpdates
  <2>3. CASE item_rejected(i) \/ SyncTimeout(i)
    <3>1. inProgress' = FALSE /\ Receiving(i)
      BY <2>3 DEF item_rejected, ItemArrives, SyncTimeout, Receiving
    <3> QED
      BY <3>1, <2>1, OwnEnd
  <2>4. CASE handle_mission_ack(i)
    <3>1. inProgress' = (inProgress /\ ~Receiving(i))
      BY <2>2, <2>4 DEF handle_mission_ack, Receiving
    <3> QED
      BY <3>1, <2>1, OwnEnd
  <2> QED
    BY <1>3, <2>3, <2>4
<1>4. ASSUME NEW i \in Instances, handle_last_mission_item(i)
      PROVE  ClearingUpdates' /\ TransferOwned'
  <2>1. CASE ~SameCrc(active, crc[i], total[i])
    <3>1. UNCHANGED <<inProgress, state>>
      BY <1>4, <2>1 DEF handle_last_mission_item
    <3>2. \A j \in Instances : pc'[j] = "none" => pc[j] = "none"
      BY <1>4, <2>1 DEF handle_last_mission_item, StartUpdate, TypeOK
    <3> QED
      BY <3>1, <3>2, OwnSame
  <2>2. CASE SameCrc(active, crc[i], total[i])
    <3>1. /\ state' = [state EXCEPT ![i] = "idle"] /\ inProgress' = FALSE
          /\ Receiving(i) /\ pc' = pc
      BY <1>4, <2>2 DEF handle_last_mission_item, ItemArrives, Receiving, updateVars
    <3> QED
      BY <3>1, OwnEnd
  <2> QED
    BY <2>1, <2>2
<1>5. ASSUME NEW i \in Instances, NEW m \in Missions, handle_mission_count(i, m)
      PROVE  ClearingUpdates' /\ TransferOwned'
  BY <1>5, OwnStart DEF handle_mission_count, TransferFree, updateVars
<1>6. ASSUME NEW i \in Instances, handle_mission_count_zero(i)
      PROVE  ClearingUpdates' /\ TransferOwned'
  <2>1. pc'[i] = "write" /\ \A j \in Instances \ {i} : pc'[j] = pc[j]
    BY <1>6 DEF handle_mission_count_zero, StartUpdate, TypeOK
  <2> QED
    BY <1>6, <2>1, OwnStart DEF handle_mission_count_zero, TransferFree
<1>7. ASSUME NEW i \in Instances, handle_mission_request_list(i)
      PROVE  ClearingUpdates' /\ TransferOwned'
  <2>1. ~Receiving(i)
    BY <1>7 DEF handle_mission_request_list, Receiving
  <2> QED
    BY <1>7, <2>1, OwnDownload DEF handle_mission_request_list, sharedVars, updateVars
<1>8. ASSUME NEW i \in Instances, NEW k \in Seqs, handle_mission_request(i, k)
      PROVE  ClearingUpdates' /\ TransferOwned'
  <2>1. ~Receiving(i) /\ state[i] = "sendlist"
    BY <1>8 DEF handle_mission_request, Receiving
  <2>2. \E x \in {"idle", "sendlist"} : state' = [state EXCEPT ![i] = x]
    BY <1>8, <2>1 DEF handle_mission_request
  <2> QED
    BY <1>8, <2>1, <2>2, OwnDownload DEF handle_mission_request, sharedVars, updateVars
<1>9. CASE NavigatorPublish \/ UNCHANGED vars
  BY <1>9, OwnSame DEF NavigatorPublish, vars, sharedVars, transferVars, updateVars
<1>10. CASE Reboot
  <2>1. /\ inProgress' = FALSE /\ \A j \in Instances : state'[j] = "idle"
    BY <1>10 DEF Reboot
  <2> QED
    BY <2>1 DEF ClearingUpdates, TransferOwned, Receiving
<1> QED
  BY <1>1, <1>2, <1>3, <1>4, <1>5, <1>6, <1>7, <1>8, <1>9, <1>10 DEF Next, Step

(* Unless a download times out or two links race for the flag, the         *)
(* transfer is held by exactly the instance that receives a mission, also  *)
(* when the commands of several links overlap and dataman fails.           *)
THEOREM MissionTransferOwned ==
  ASSUME "silent_download" \notin Faults, "count_race" \notin Faults
  PROVE  Spec => []TransferOwned
<1>1. Init => OwnInv
  <2>1. Init => TypeOK
    BY MissionTypeInit
  <2>2. Init => ClearingUpdates /\ TransferOwned
    BY DEF Init, ClearingUpdates, TransferOwned, Receiving
  <2> QED
    BY <2>1, <2>2 DEF OwnInv
<1>2. OwnInv /\ [Next]_vars => OwnInv'
  BY MissionTypeStep, OwnStep DEF OwnInv
<1>3. OwnInv => TransferOwned
  BY DEF OwnInv
<1> QED
  BY <1>1, <1>2, <1>3, PTL DEF Spec
-----------------------------------------------------------------------------
(* Without overlap, a command starts when all copies agree.                *)
LEMMA AloneFacts ==
  ASSUME "overlap" \notin Faults, Serial, Alone
  PROVE  /\ unread = {} /\ \A j \in Instances : pc[j] = "none"
         /\ active = disk /\ topic = disk
BY DEF Alone, Serial, CopiesAgree

(* Steps that touch neither records nor storages.                          *)
LEMMA StoreSame ==
  ASSUME Serial, UploadOK, UpdateOK, ActiveIntact,
         UNCHANGED <<active, disk, topic, storage, unread, pc, pending>>,
         \A j \in Instances : (Uploading(j))' =>
           /\ Uploading(j) /\ total'[j] = total[j] /\ target'[j] = target[j]
           /\ seq'[j] = seq[j] /\ (crc'[j] = crc[j] \/ seq[j] = 0),
         \A j \in Instances : pc[j] # "none" =>
           state'[j] = state[j] /\ total'[j] = total[j] /\ crc'[j] = crc[j]
  PROVE  Serial' /\ UploadOK' /\ UpdateOK' /\ ActiveIntact'
<1>1. Serial' /\ ActiveIntact'
  BY DEF Serial, CopiesAgree, ActiveIntact, Intact
<1>2. \A k \in Seqs : ~(k < 0)
  BY MissionConstants DEF Seqs
<1>3. UploadOK'
  BY <1>2 DEF UploadOK
<1>4. UpdateOK'
  BY DEF UpdateOK, SameCrc
<1> QED
  BY <1>1, <1>3, <1>4

(* The start of an update to a record that is empty or the active one.     *)
LEMMA StoreUpdate ==
  ASSUME "overlap" \notin Faults, OwnInv, Serial, UploadOK, ActiveIntact,
         NEW i \in Instances, NEW r \in Record, StartUpdate(i, r),
         r.count = 0 \/ r = active, state'[i] # "getlist",
         UNCHANGED <<disk, topic, storage, unread, seq, total, target, crc>>,
         \A j \in Instances \ {i} : state'[j] = state[j]
  PROVE  Serial' /\ UploadOK' /\ UpdateOK' /\ ActiveIntact'
<1>1. /\ unread = {} /\ \A j \in Instances : pc[j] = "none"
      /\ active = disk /\ topic = disk
  BY AloneFacts DEF StartUpdate
<1>2. /\ active' = r /\ pending'[i] = r /\ pc'[i] = "write"
      /\ \A j \in Instances \ {i} : pc'[j] = "none"
  BY <1>1 DEF StartUpdate, OwnInv, TypeOK
<1>3. Serial'
  BY <1>1, <1>2 DEF Serial, CopiesAgree
<1>4. ActiveIntact'
  <2>1. \A k \in Seqs : ~(k < 0)
    BY MissionConstants DEF Seqs
  <2> QED
    BY <1>2, <2>1 DEF ActiveIntact, Intact
<1>5. \A j \in Instances : (Uploading(j))' => Uploading(j)
  BY <1>1, <1>2 DEF Uploading
<1>6. UpdateOK'
  BY <1>1, <1>2 DEF UpdateOK
<1> QED
  BY <1>2, <1>3, <1>4, <1>5, <1>6, RecordFacts DEF UploadOK

(* An item goes to a storage that no record with items names.              *)
LEMMA StoreItemIntact ==
  ASSUME OwnInv, UploadOK, ActiveIntact, NEW i \in Instances, Uploading(i),
         seq[i] < total[i]
  PROVE  \A r \in {active, disk, topic} :
           \A k \in Seqs : k < r.count => Stored(i)[r.id][k] = r.crc
<1>1. \A d \in Ids : d # target[i] => Stored(i)[d] = storage[d]
  BY StoreItem DEF OwnInv
<1>2. /\ active.id \in Ids /\ disk.id \in Ids /\ topic.id \in Ids
      /\ active.count \in Nat /\ disk.count \in Nat /\ topic.count \in Nat
  BY RecordFacts DEF OwnInv, TypeOK
<1>3. \A k \in Seqs, n \in Nat : k < n => n > 0
  BY MissionConstants DEF Seqs
<1> QED
  BY <1>1, <1>2, <1>3 DEF UploadOK, ActiveIntact, Intact

(* The first instance starts with all copies empty.                        *)
LEMMA MissionStoreInit == Init => StoreInv
<1> SUFFICES ASSUME Init PROVE StoreInv
  OBVIOUS
<1>1. OwnInv
  BY MissionTypeInit DEF Init, OwnInv, ClearingUpdates, TransferOwned, Receiving
<1>2. /\ active = NoMission(0) /\ disk = active /\ topic = active
      /\ \A i \in Instances : pc[i] = "none" /\ state[i] = "idle"
  BY DEF Init
<1>3. Serial /\ UploadOK /\ UpdateOK
  BY <1>2 DEF Serial, CopiesAgree, UploadOK, UpdateOK, Uploading
<1>4. ActiveIntact
  <2>1. \A k \in Seqs : ~(k < 0)
    BY MissionConstants DEF Seqs
  <2> QED
    BY <1>2, <2>1 DEF ActiveIntact, Intact, NoMission
<1> QED
  BY <1>1, <1>3, <1>4 DEF StoreInv

(* None of the faults under which the stored mission is not safe.          *)
Benign == Faults \cap {"overlap", "write_fails", "read_fails", "silent_download",
                       "count_race"} = {}

(* Every step keeps the records and the storages they name together.       *)
LEMMA StoreStep ==
  ASSUME Benign, StoreInv, [Next]_vars
  PROVE  Serial' /\ UploadOK' /\ UpdateOK' /\ ActiveIntact'
<1> USE DEF StoreInv, Benign
<1> DEFINE Goal == Serial' /\ UploadOK' /\ UpdateOK' /\ ActiveIntact'
<1>0. TypeOK
  BY DEF OwnInv
<1>1. ASSUME NEW i \in Instances, WriteState(i) PROVE Goal
  <2>1. /\ pc[i] = "write" /\ disk' = pending[i]
        /\ UNCHANGED <<active, storage, topic, unread, pending, state, seq, total, target, crc>>
    BY <1>1 DEF WriteState, transferVars
  <2>2. /\ pc'[i] = "publish" /\ \A j \in Instances \ {i} : pc'[j] = pc[j]
    BY <1>0, <1>1 DEF WriteState, TypeOK
  <2>3. pending[i] = active /\ unread = {} /\ \A j \in Instances \ {i} : pc[j] = "none"
    BY <2>1 DEF Serial
  <2>4. Serial'
    BY <2>1, <2>2, <2>3 DEF Serial, CopiesAgree
  <2>5. \A j \in Instances : (Uploading(j))' => Uploading(j)
    BY <2>1, <2>2 DEF Uploading
  <2>6. UpdateOK'
    BY <2>1, <2>2, <2>3 DEF UpdateOK, SameCrc
  <2> QED
    BY <2>1, <2>3, <2>4, <2>5, <2>6 DEF UploadOK, ActiveIntact, Intact
<1>2. ASSUME NEW i \in Instances, Publish(i) PROVE Goal
  <2>1. /\ pc[i] = "publish" /\ topic' = pending[i]
        /\ UNCHANGED <<active, disk, storage, seq, total, target, crc>>
    BY <1>2 DEF Publish
  <2>2. /\ pc'[i] = "none" /\ state'[i] = "idle"
        /\ \A j \in Instances \ {i} : pc'[j] = pc[j] /\ state'[j] = state[j]
    BY <1>0, <1>2 DEF Publish, TypeOK
  <2>3. pending[i] = active /\ disk = active /\ \A j \in Instances \ {i} : pc[j] = "none"
    BY <2>1 DEF Serial
  <2>4. Serial'
    BY <2>1, <2>2, <2>3 DEF Serial, CopiesAgree
  <2>5. \A j \in Instances : (Uploading(j))' => Uploading(j)
    BY <2>1, <2>2 DEF Uploading
  <2>6. UpdateOK'
    BY <2>2, <2>3 DEF UpdateOK
  <2> QED
    BY <2>1, <2>3, <2>4, <2>5, <2>6 DEF UploadOK, ActiveIntact, Intact
<1>3. ASSUME NEW i \in Instances, check_active_mission(i) PROVE Goal
  <2>1. \A j \in Instances : pc[j] = "none"
    BY <1>0, <1>3 DEF check_active_mission, Serial, TypeOK
  <2>2. active = topic /\ active = disk
    BY <2>1 DEF Serial, CopiesAgree
  <2>3. /\ active' = active
        /\ UNCHANGED <<disk, storage, topic, state, seq, total, target, crc, pc, pending>>
    BY <1>3, <2>2 DEF check_active_mission, transferVars
  <2>4. Serial' /\ UpdateOK'
    BY <2>1, <2>2, <2>3 DEF Serial, CopiesAgree, UpdateOK
  <2> QED
    BY <2>3, <2>4 DEF UploadOK, Uploading, ActiveIntact, Intact
<1>4. ASSUME NEW i \in Instances, NEW m \in Missions, handle_mission_count(i, m) PROVE Goal
  <2>1. \A j \in Instances : pc[j] = "none" /\ ~Receiving(j)
    BY <1>4, AloneFacts DEF handle_mission_count, TransferFree, OwnInv, TransferOwned
  <2>2. active = disk /\ topic = disk
    BY <2>1 DEF Serial, CopiesAgree
  <2>3. /\ UNCHANGED <<active, disk, storage, topic, unread, pc, pending>>
        /\ seq'[i] = 0 /\ total'[i] = Length[m] /\ target'[i] = Other(active.id)
        /\ \A j \in Instances \ {i} : state'[j] = state[j]
    BY <1>0, <1>4 DEF handle_mission_count, TransferStorage, TypeOK, updateVars
  <2>4. \A j \in Instances : (Uploading(j))' => j = i
    BY <2>1, <2>3 DEF Uploading, Receiving
  <2>5. /\ Other(active.id) # active.id /\ \A k \in Seqs : ~(k < 0)
        /\ 0 < Length[m]
    BY <1>0, RecordFacts, MissionConstants DEF TypeOK, Seqs
  <2>6. Serial' /\ UpdateOK' /\ ActiveIntact'
    BY <2>1, <2>3 DEF Serial, CopiesAgree, UpdateOK, ActiveIntact, Intact
  <2> QED
    BY <2>2, <2>3, <2>4, <2>5, <2>6 DEF UploadOK
<1>5. ASSUME NEW i \in Instances,
             \/ handle_mission_count_zero(i) \/ handle_mission_set_current(i)
             \/ handle_mission_clear_all(i)
      PROVE  Goal
  <2>1. /\ active \in Record /\ NoMission(Other(active.id)) \in Record
        /\ NoMission(Other(active.id)).count = 0
    BY <1>0, RecordFacts DEF TypeOK, NoMission
  <2>2. \/ StartUpdate(i, active) \/ StartUpdate(i, NoMission(Other(active.id)))
    BY <1>5 DEF handle_mission_count_zero, handle_mission_set_current, handle_mission_clear_all
  <2>3. UNCHANGED <<disk, topic, storage, unread, seq, total, target, crc>>
    BY <1>5 DEF handle_mission_count_zero, handle_mission_set_current,
       handle_mission_clear_all, transferVars
  <2>4. \A j \in Instances \ {i} : state'[j] = state[j]
    BY <1>0, <1>5 DEF handle_mission_count_zero, handle_mission_set_current,
       handle_mission_clear_all, transferVars, TypeOK
  <2>5. state'[i] # "getlist"
    BY <1>0, <1>5 DEF handle_mission_count_zero, handle_mission_set_current,
       handle_mission_clear_all, Idle, transferVars, TypeOK
  <2> QED
    BY <2>1, <2>2, <2>3, <2>4, <2>5, StoreUpdate
<1>6. ASSUME NEW i \in Instances, handle_mission_item(i) PROVE Goal
  <2>1. /\ Uploading(i) /\ storage' = Stored(i) /\ seq' = [seq EXCEPT ![i] = seq[i] + 1]
        /\ UNCHANGED <<active, disk, topic, unread, state, total, target, crc, pc, pending>>
    BY <1>6 DEF handle_mission_item, ItemArrives, Stored, Uploading, updateVars
  <2>2. seq[i] < total[i] /\ seq'[i] = seq[i] + 1 /\ seq'[i] < total[i]
    <3>1. /\ seq[i] \in Int /\ total[i] \in Int /\ seq[i] + 1 < total[i]
          /\ seq \in [Instances -> 0..MaxCount]
      BY <1>0, <1>6, RecordFacts DEF handle_mission_item, TypeOK
    <3> QED
      BY <2>1, <3>1
  <2>3. Serial' /\ UpdateOK'
    BY <2>1 DEF Serial, CopiesAgree, UpdateOK, SameCrc
  <2>4. ActiveIntact'
    BY <2>1, <2>2, StoreItemIntact DEF ActiveIntact, Intact
  <2>5. \A j \in Instances : (Uploading(j))' => j = i
    BY <2>1 DEF Uploading, OwnInv, TransferOwned, Receiving
  <2>6. \A k \in Seqs : k < seq[i] + 1 => Stored(i)[target[i]][k] = crc[i]
    <3>1. \A k \in Seqs : Stored(i)[target[i]][k] =
            IF k = seq[i] THEN crc[i] ELSE storage[target[i]][k]
      BY <1>0, <2>2, StoreItem
    <3>2. \A k \in Seqs : k < seq[i] => storage[target[i]][k] = crc[i]
      BY <2>1 DEF UploadOK
    <3>3. seq[i] \in Int /\ \A k \in Seqs : k \in Int
      BY <1>0 DEF TypeOK, Seqs
    <3> QED
      BY <3>1, <3>2, <3>3
  <2> QED
    BY <2>1, <2>2, <2>3, <2>4, <2>5, <2>6 DEF UploadOK
<1>7. ASSUME NEW i \in Instances, handle_last_mission_item(i) PROVE Goal
  <2>1. /\ Uploading(i) /\ storage' = Stored(i) /\ seq[i] + 1 = total[i]
        /\ UNCHANGED <<disk, topic, unread, total, target, crc>>
    BY <1>7 DEF handle_last_mission_item, ItemArrives, Stored, Uploading
  <2>2. /\ seq[i] \in Nat /\ total[i] \in Nat /\ seq[i] < total[i] /\ total[i] > 0
        /\ \A k \in Seqs : k < seq[i] => storage[target[i]][k] = crc[i]
    BY <1>0, <2>1, RecordFacts DEF UploadOK, TypeOK
  <2>3. \A j \in Instances : Uploading(j) => j = i
    BY <2>1 DEF Uploading, OwnInv, TransferOwned, Receiving
  <2>4. \A r \in {active, disk, topic} :
          \A k \in Seqs : k < r.count => storage'[r.id][k] = r.crc
    BY <2>1, <2>2, StoreItemIntact
  <2>5. \A k \in Seqs : k < total[i] => storage'[target[i]][k] = crc[i]
    <3>1. \A k \in Seqs : Stored(i)[target[i]][k] =
            IF k = seq[i] THEN crc[i] ELSE storage[target[i]][k]
      BY <1>0, <2>2, StoreItem
    <3>2. \A k \in Seqs : k < total[i] => k < seq[i] \/ k = seq[i]
      BY <2>1, <2>2, MissionConstants DEF Seqs
    <3> QED
      BY <2>1, <2>2, <3>1, <3>2
  <2>6. CASE ~SameCrc(active, crc[i], total[i])
    <3> DEFINE r == [id |-> target[i], count |-> total[i], crc |-> crc[i]]
    <3>1. StartUpdate(i, r) /\ state' = state
      BY <1>7, <2>6 DEF handle_last_mission_item
    <3>2. /\ unread = {} /\ \A j \in Instances : pc[j] = "none"
          /\ active = disk /\ topic = disk
      BY <3>1, AloneFacts DEF StartUpdate
    <3>3. /\ active' = r /\ pending'[i] = r /\ pc'[i] = "write"
          /\ \A j \in Instances \ {i} : pc'[j] = "none"
      BY <1>0, <3>1, <3>2 DEF StartUpdate, TypeOK
    <3>4. r.id = target[i] /\ r.crc = crc[i] /\ r.count = total[i]
      OBVIOUS
    <3> HIDE DEF r
    <3>5. Serial'
      BY <2>1, <3>2, <3>3 DEF Serial, CopiesAgree
    <3>6. \A j \in Instances : ~(Uploading(j))'
      BY <2>3, <3>1, <3>2, <3>3 DEF Uploading
    <3>7. UpdateOK'
      BY <2>1, <2>2, <3>1, <3>3, <3>4 DEF UpdateOK, SameCrc, Uploading
    <3>8. ActiveIntact'
      BY <2>1, <2>4, <2>5, <3>3, <3>4 DEF ActiveIntact, Intact
    <3> QED
      BY <3>5, <3>6, <3>7, <3>8 DEF UploadOK
  <2>7. CASE SameCrc(active, crc[i], total[i])
    <3>1. state' = [state EXCEPT ![i] = "idle"] /\ UNCHANGED <<active, pc, pending>>
      BY <1>7, <2>7 DEF handle_last_mission_item, updateVars
    <3>2. \A j \in Instances : ~(Uploading(j))'
      BY <1>0, <2>3, <3>1 DEF Uploading, TypeOK
    <3>3. Serial'
      BY <2>1, <3>1 DEF Serial, CopiesAgree
    <3>4. UpdateOK'
      BY <1>0, <2>1, <3>1 DEF UpdateOK, SameCrc, Uploading, TypeOK
    <3> QED
      BY <2>1, <2>4, <3>1, <3>2, <3>3, <3>4 DEF UploadOK, ActiveIntact, Intact
  <2> QED
    BY <2>6, <2>7
<1>8. ASSUME NEW i \in Instances,
             \/ item_rejected(i) \/ handle_mission_ack(i) \/ SyncTimeout(i)
             \/ handle_mission_request_list(i)
             \/ \E k \in Seqs : handle_mission_request(i, k)
             \/ \E m \in Missions : handle_mission_count_again(i, m)
      PROVE  Goal
  <2>1. UNCHANGED <<active, disk, topic, storage, unread, pc, pending, target>>
    BY <1>8 DEF item_rejected, handle_mission_ack, SyncTimeout, handle_mission_request_list,
       handle_mission_request, handle_mission_count_again, sharedVars,
       transferVars, updateVars
  <2>2. \A j \in Instances : (Uploading(j))' =>
           /\ Uploading(j) /\ total'[j] = total[j]
           /\ seq'[j] = seq[j] /\ (crc'[j] = crc[j] \/ seq[j] = 0)
    BY <1>0, <1>8 DEF item_rejected, handle_mission_ack, SyncTimeout,
       handle_mission_request_list, handle_mission_request,
       handle_mission_count_again, transferVars, updateVars, Uploading, TypeOK
  <2>3. \A j \in Instances : pc[j] # "none" =>
           state'[j] = state[j] /\ total'[j] = total[j] /\ crc'[j] = crc[j]
    BY <1>0, <1>8 DEF item_rejected, ItemArrives, handle_mission_ack, SyncTimeout,
       handle_mission_request_list, handle_mission_request,
       handle_mission_count_again, transferVars, updateVars, TypeOK
  <2> QED
    BY <2>1, <2>2, <2>3, StoreSame
<1>9. CASE NavigatorPublish
  <2>1. \A j \in Instances : pc[j] = "none"
    BY <1>9 DEF NavigatorPublish
  <2> QED
    BY <1>9, <2>1 DEF NavigatorPublish, Serial, CopiesAgree, UploadOK, UpdateOK, Uploading,
       ActiveIntact, Intact, transferVars, updateVars
<1>10. CASE Reboot
  <2>1. /\ \A j \in Instances : state'[j] = "idle" /\ pc'[j] = "none"
        /\ active' = disk /\ topic' = disk /\ disk' = disk /\ storage' = storage
    BY <1>10 DEF Reboot
  <2> QED
    BY <2>1 DEF Serial, CopiesAgree, UploadOK, UpdateOK, Uploading, ActiveIntact, Intact
<1>11. CASE UNCHANGED vars
  BY <1>11, StoreSame DEF vars, sharedVars, transferVars, updateVars, Uploading
<1> QED
  BY <1>1, <1>2, <1>3, <1>4, <1>5, <1>6, <1>7, <1>8, <1>9, <1>10, <1>11 DEF Next, Step

LEMMA MissionStoreInvariance ==
  ASSUME Benign
  PROVE  Spec => []StoreInv
<1>1. Init => StoreInv
  BY MissionStoreInit
<1>2. StoreInv /\ [Next]_vars => StoreInv'
  BY MissionTypeStep, OwnStep, StoreStep DEF StoreInv, OwnInv, Benign
<1> QED
  BY <1>1, <1>2, PTL DEF Spec

(* Unless updates overlap, two links race for the flag, dataman fails or a *)
(* download times out: every item of the active mission, of the one in     *)
(* dataman and of the one that was announced belongs to it, through        *)
(* uploads, aborts, clearing, and a power failure at any point.            *)
THEOREM MissionActiveIntact ==
  ASSUME Benign
  PROVE  Spec => []ActiveIntact
<1>1. StoreInv => ActiveIntact
  BY DEF StoreInv
<1> QED
  BY <1>1, MissionStoreInvariance, PTL

(* Under the same assumptions the mission that is flown, the one that a    *)
(* power failure leaves and the one the navigator was told of are one.     *)
THEOREM MissionCopiesAgree ==
  ASSUME Benign
  PROVE  Spec => []CopiesAgree
<1>1. StoreInv => CopiesAgree
  BY DEF StoreInv, Serial
<1> QED
  BY <1>1, MissionStoreInvariance, PTL
-----------------------------------------------------------------------------
(* The last step of an upload that was not given up.                       *)
Finishes(i) == state[i] = "getlist" /\ state'[i] = "idle" /\ seq'[i] = total[i]

(* Only the last item of a mission that is active already, and the end of  *)
(* the update by the last item of another, finish an upload.               *)
LEMMA FinishingSteps ==
  ASSUME StoreInv, [Next]_vars, NEW i \in Instances, Finishes(i)
  PROVE  Publish(i) \/ (handle_last_mission_item(i) /\ SameCrc(active, crc[i], total[i]))
<1> USE DEF StoreInv, Finishes
<1>0. TypeOK /\ seq[i] \in Nat /\ total[i] \in Nat
  BY DEF OwnInv, TypeOK
<1>1. total[i] > 0 /\ (pc[i] = "none" => seq[i] < total[i])
  BY <1>0 DEF UploadOK, UpdateOK, Uploading
<1>2. ASSUME NEW j \in Instances, j # i, Step(j) PROVE FALSE
  BY <1>0, <1>2
  DEF Step, WriteState, Publish, check_active_mission, handle_mission_count,
      handle_mission_count_again, handle_mission_count_zero, handle_mission_item,
      handle_last_mission_item, item_rejected, handle_mission_request_list,
      handle_mission_request, handle_mission_ack, handle_mission_set_current,
      handle_mission_clear_all, SyncTimeout, transferVars, TypeOK
<1>3. ASSUME \/ WriteState(i) \/ check_active_mission(i) \/ handle_mission_item(i)
             \/ handle_mission_set_current(i) \/ handle_mission_clear_all(i)
             \/ \E m \in Missions : handle_mission_count_again(i, m)
      PROVE  FALSE
  BY <1>3 DEF WriteState, check_active_mission, handle_mission_item,
     handle_mission_set_current, handle_mission_clear_all, handle_mission_count_again,
     transferVars
<1>4. ASSUME item_rejected(i) \/ handle_mission_ack(i) \/ SyncTimeout(i) PROVE FALSE
  <2>1. pc[i] = "none" /\ seq'[i] = seq[i]
    BY <1>4 DEF item_rejected, ItemArrives, handle_mission_ack, SyncTimeout
  <2> QED
    BY <1>0, <1>1, <2>1
<1>5. ASSUME \/ handle_mission_count_zero(i) \/ handle_mission_request_list(i)
             \/ \E m \in Missions : handle_mission_count(i, m)
             \/ \E k \in Seqs : handle_mission_request(i, k)
      PROVE  FALSE
  BY <1>5 DEF handle_mission_count_zero, handle_mission_request_list,
     handle_mission_count, handle_mission_request, Idle
<1>6. ASSUME handle_last_mission_item(i), ~SameCrc(active, crc[i], total[i])
      PROVE  FALSE
  BY <1>6 DEF handle_last_mission_item
<1>7. ASSUME NavigatorPublish \/ UNCHANGED vars PROVE FALSE
  BY <1>7 DEF NavigatorPublish, vars, transferVars
<1>8. ASSUME Reboot PROVE FALSE
  BY <1>0, <1>1, <1>8 DEF Reboot
<1> QED
  BY <1>2, <1>3, <1>4, <1>5, <1>6, <1>7, <1>8 DEF Next, Step

(* When one of them is taken, all copies name the mission received.        *)
LEMMA FinishedIsKept ==
  ASSUME Benign, StoreInv, [Next]_vars, NEW i \in Instances, Finishes(i)
  PROVE  /\ \A r \in {active', disk', topic'} : SameCrc(r, crc[i], total[i])
         /\ Intact(disk)'
<1> USE DEF StoreInv
<1>1. Intact(disk)'
  BY StoreStep DEF ActiveIntact, Benign
<1>2. CASE Publish(i)
  <2>1. pc[i] = "publish" /\ topic' = pending[i] /\ active' = active /\ disk' = disk
    BY <1>2 DEF Publish
  <2>2. pending[i] = active /\ disk = active
    BY <2>1 DEF Serial
  <2>3. SameCrc(pending[i], crc[i], total[i])
    BY <2>1 DEF Finishes, UpdateOK
  <2> QED
    BY <1>1, <2>1, <2>2, <2>3
<1>3. CASE handle_last_mission_item(i) /\ SameCrc(active, crc[i], total[i])
  <2>1. UNCHANGED <<active, disk, topic>> /\ pc[i] = "none" /\ state[i] = "getlist"
    BY <1>3 DEF handle_last_mission_item, ItemArrives
  <2>2. active.count > 0
    <3>1. seq[i] \in Nat /\ total[i] \in Nat /\ seq[i] < total[i]
      BY <2>1 DEF UploadOK, Uploading, OwnInv, TypeOK
    <3> QED
      BY <1>3, <3>1 DEF SameCrc
  <2>3. disk = active /\ topic = active
    <3>1. CASE \A j \in Instances : pc[j] = "none"
      BY <3>1 DEF Serial, CopiesAgree
    <3>2. ASSUME NEW j \in Instances, pc[j] # "none" PROVE disk = active /\ topic = active
      <4>1. state[j] # "getlist"
        BY <2>1, <3>2 DEF OwnInv, TransferOwned, Receiving
      <4> QED
        BY <2>2, <3>2, <4>1 DEF UpdateOK
    <3> QED
      BY <3>1, <3>2
  <2> QED
    BY <1>1, <1>3, <2>1, <2>3
<1> QED
  BY <1>2, <1>3, FinishingSteps

(* An upload that is acknowledged at its end is what the vehicle flies,    *)
(* what it has announced and what it loads after a power failure, also if  *)
(* another link clears, selects or reads the mission during the upload and *)
(* the partner changes its mind about which mission it sends.              *)
THEOREM MissionUploadIsKept ==
  ASSUME Benign
  PROVE  Spec => UploadIsKept
<1>1. StoreInv /\ [Next]_vars =>
        [\A i \in Instances :
           state[i] = "getlist" /\ state'[i] = "idle" /\ seq'[i] = total[i] =>
             /\ \A r \in {active', disk', topic'} : SameCrc(r, crc[i], total[i])
             /\ Intact(disk)']_vars
  BY FinishedIsKept DEF Finishes
<1> QED
  BY <1>1, MissionStoreInvariance, PTL DEF Spec, UploadIsKept
=============================================================================
