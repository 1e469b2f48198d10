----------------------------- MODULE Interning -----------------------------
(***************************************************************************)
(* What an interner promises to the threads that share it: a table of      *)
(* key/id pairs that only grows, in which a key has one id and an id one   *)
(* key, and calls that each take effect at a single moment between their   *)
(* start and their return.  TypeInterner.tla implements this.              *)
(***************************************************************************)
CONSTANTS Thread,   \* the threads that intern
          Key,      \* the keys that can be interned
          Id,       \* the ids keys can get
          NoneKey,  \* the key of kind None
          NoId      \* the id of NoneKey

VARIABLES entries,  \* the set of <<key, id>> pairs interned so far
          call      \* what each thread's current call is doing

avars == <<entries, call>>

Idle == [state |-> "idle", key |-> NoneKey, id |-> NoId]

Done(k, i) == [state |-> "done", key |-> k, id |-> i]

AInit ==
  /\ entries = {}
  /\ call = [t \in Thread |-> Idle]

Call(t, k) ==
  /\ call[t] = Idle
  /\ call' = [call EXCEPT ![t] = [state |-> "pending", key |-> k, id |-> NoId]]
  /\ UNCHANGED entries

CallNone(t) ==
  /\ call[t] = Idle
  /\ call' = [call EXCEPT ![t] = Done(NoneKey, NoId)]
  /\ UNCHANGED entries

\* The key is in the table: the call answers with the id it has there.
Find(t) ==
  /\ call[t].state = "pending"
  /\ \E e \in entries :
       /\ e[1] = call[t].key
       /\ call' = [call EXCEPT ![t] = Done(call[t].key, e[2])]
  /\ UNCHANGED entries

\* The key is not in the table: it gets an id no other key has.
Add(t) ==
  /\ call[t].state = "pending"
  /\ \A e \in entries : e[1] # call[t].key
  /\ \E i \in Id :
       /\ \A e \in entries : e[2] # i
       /\ entries' = entries \cup {<<call[t].key, i>>}
       /\ call' = [call EXCEPT ![t] = Done(call[t].key, i)]

Return(t) ==
  /\ call[t].state = "done"
  /\ call' = [call EXCEPT ![t] = Idle]
  /\ UNCHANGED entries

ANext ==
  \E t \in Thread :
    \/ \E k \in Key : Call(t, k)
    \/ CallNone(t) \/ Find(t) \/ Add(t) \/ Return(t)

ASpec == AInit /\ [][ANext]_avars
=============================================================================
