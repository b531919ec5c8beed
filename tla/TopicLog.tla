------------------------------ MODULE TopicLog ------------------------------
(***************************************************************************)
(* What a uORB topic promises its subscribers.  Messages are numbered in   *)
(* the order of their publication.  A topic keeps the last queue of them;  *)
(* every subscriber has a cursor, the last message it has seen.  Message 0 *)
(* stands for "nothing was ever published".                                *)
(***************************************************************************)
EXTENDS Integers

CONSTANT Readers

VARIABLES
  queue,      \* how many messages the topic keeps
  published,  \* number of messages published so far
  attached,   \* readers that have a subscription
  cursor,     \* [Readers -> number of the last message seen]
  got         \* [Readers -> the message returned last]

logVars == <<queue, published, attached, cursor, got>>

(* The message after c, or the oldest one still kept.                      *)
Following(c) == IF c + queue >= published THEN c + 1 ELSE published - queue + 1

LogInit ==
  /\ queue \in Nat \ {0}
  /\ published = 0 /\ attached = {}
  /\ cursor = [r \in Readers |-> 0] /\ got = [r \in Readers |-> 0]

Publish == published' = published + 1 /\ UNCHANGED <<attached, cursor, got>>

(* A new subscriber may still read the latest message.                     *)
Attach(r) ==
  /\ r \notin attached
  /\ attached' = attached \cup {r}
  /\ cursor' = [cursor EXCEPT ![r] = IF published = 0 THEN 0 ELSE published - 1]
  /\ UNCHANGED <<published, got>>

LeaveTopic(r) ==
  /\ attached' = attached \ {r}
  /\ cursor' = [cursor EXCEPT ![r] = 0]
  /\ UNCHANGED <<published, got>>

Deliver(r, m) ==
  /\ cursor' = [cursor EXCEPT ![r] = m] /\ got' = [got EXCEPT ![r] = m]
  /\ UNCHANGED <<published, attached>>

(* update(): the next message, never one the reader has seen.              *)
Take(r) == r \in attached /\ cursor[r] < published /\ Deliver(r, Following(cursor[r]))

(* copy(): the next message, or the latest one again.                      *)
Peek(r) == r \in attached /\ cursor[r] = published /\ Deliver(r, published)

LogNext ==
  /\ \/ Publish
     \/ \E r \in Readers : Attach(r) \/ LeaveTopic(r) \/ Take(r) \/ Peek(r)
  /\ UNCHANGED queue

LogSpec == LogInit /\ [][LogNext]_logVars
=============================================================================
