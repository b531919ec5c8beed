----------------------------- MODULE UorbHistory -----------------------------
(***************************************************************************)
(* UorbNode with the numbers that the wrapping counters stand for, and the *)
(* refinement of TopicLog by it.                                           *)
(***************************************************************************)
EXTENDS UorbNode

VARIABLES
  seen,    \* [Readers -> number of the message before the next to read]
  missed   \* [Readers -> publications since the callback last scheduled]

hvars == <<vars, seen, missed>>

HInit ==
  Init /\ seen = [r \in Readers |-> 0] /\ missed = [r \in Readers |-> 0]

(* A reader less than Modulus messages behind is told from an older one:   *)
(* at 1 kHz it would have to sleep for 49 days.                            *)
NobodyWraps == \A r \in Readers : sub[r].node => published - seen[r] < Modulus - 1

HWrite(p) ==
  /\ NobodyWraps
  /\ Write(p)
  /\ missed' = [r \in Readers |->
       IF r \in callbacks /\ ~Gate(generation', sub[r].scheduled)
       THEN missed[r] + 1 ELSE 0]
  /\ UNCHANGED seen

HPublisher(p) ==
  \/ /\ Publish(p) \/ Allocate(p) \/ AllocateFails(p) \/ DestroyPublication(p)
     /\ UNCHANGED <<seen, missed>>
  \/ HWrite(p)

HSubscribe(r) ==
  /\ \/ Subscribe(r) /\ UNCHANGED missed
     \/ RegisterCallback(r) /\ missed' = [missed EXCEPT ![r] = 0]
  /\ seen' = [seen EXCEPT ![r] =
       IF sub[r].node THEN @ ELSE IF published = 0 THEN 0 ELSE published - 1]

HCopy(r) ==
  /\ Copy(r)
  /\ seen' = [seen EXCEPT ![r] = IF data = NoData THEN @ ELSE sub'[r].got]
  /\ UNCHANGED missed

HDestroy(r) ==
  /\ DestroySubscription(r)
  /\ seen' = [seen EXCEPT ![r] = 0] /\ missed' = [missed EXCEPT ![r] = 0]

HReader(r) ==
  \/ /\ UnregisterCallback(r) \/ RunItem(r) \/ StartUpdate(r) \/ StartCopy(r)
     /\ UNCHANGED <<seen, missed>>
  \/ HSubscribe(r) \/ HCopy(r) \/ HDestroy(r)

HNext ==
  /\ (\E p \in Publishers : HPublisher(p)) \/ (\E r \in Readers : HReader(r))
  /\ UNCHANGED queue

HSpec == HInit /\ [][HNext]_hvars
-----------------------------------------------------------------------------
Log == INSTANCE TopicLog WITH
  attached <- {r \in Readers : sub[r].node},
  cursor   <- seen,
  got      <- [r \in Readers |-> sub[r].got]

(* The ring buffer with its wrapping counters implements the message log:  *)
(* every subscriber sees messages in order, misses only those that were    *)
(* overwritten, and a new one starts with the latest.                      *)
ImplementsLog == Log!LogSpec

(* update() never returns a message twice, nor the buffer before the first *)
(* publication.                                                            *)
UpdateIsNew ==
  [][\A r \in Readers :
       sub[r].call = "update" /\ sub'[r].call = "none" => sub'[r].got > seen[r]]_hvars

(* A registered callback is scheduled at the latest by the publication     *)
(* after the required number, whatever the counters are.                   *)
CallbackNotStarved == \A r \in Readers : missed[r] <= Required
=============================================================================
