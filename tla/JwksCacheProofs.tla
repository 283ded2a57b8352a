--------------------------- MODULE JwksCacheProofs ---------------------------
(***************************************************************************)
(* For any set of keys and any rotation of them: a server that listens has *)
(* keys, and no older ones than the refresh before last brought.           *)
(*                                                                         *)
(* What makes it so is that there is never more than one fetch under way:  *)
(* serve() awaits its own before it spawns the task.                       *)
(***************************************************************************)
EXTENDS JwksCache, TLAPS

USE JwksAssumption

\* serve fetches while it starts, the task while the server is up.
Turns ==
    /\ fetch["serve"] # "none" => phase = "starting"
    /\ fetch["task"] # "none" => phase = "up"

\* A response not applied yet holds keys published since the last refresh.
Timely == \A f \in Fetchers : fetch[f] = "replied" => got[f] \subseteq since

Supplied == phase = "up" => cache # {} /\ cache \subseteq recent

KeysInv == /\ TypeOK /\ Turns /\ Timely /\ Supplied
           /\ published \subseteq since

LEMMA InitKeys == Init => KeysInv
  BY DEF Init, KeysInv, TypeOK, Turns, Timely, Supplied, Fetchers

\* A refresh that brings nothing leaves the keys as they are.
LEMMA FailsKeeps ==
    ASSUME KeysInv, NEW f \in Fetchers, fetch[f] \in {"asking", "replied"},
           Fails(f)
    PROVE  KeysInv'
<1>1. CASE f = "serve"
  BY <1>1 DEF Fails, KeysInv, TypeOK, Turns, Timely, Supplied, Fetchers
<1>2. CASE f = "task"
  <2>1. /\ phase = "up" /\ fetch["serve"] = "none"
        /\ fetch' = [fetch EXCEPT !["task"] = "sleeping"]
        /\ UNCHANGED <<phase, published, cache, got, since, recent>>
    BY <1>2 DEF Fails, Sleeps, KeysInv, Turns
  <2> QED
    BY <2>1 DEF KeysInv, TypeOK, Turns, Timely, Supplied, Fetchers
<1> QED
  BY <1>1, <1>2 DEF Fetchers

\* The keys of a response replace the others, and no fetch but this one is
\* under way.
LEMMA ReplaceKeeps ==
    ASSUME KeysInv, NEW f \in Fetchers, Replace(f)
    PROVE  KeysInv'
<1>1. CASE ~SomeKeys(got[f])
  BY <1>1, FailsKeeps DEF Replace
<1>2. CASE SomeKeys(got[f])
  <2>1. /\ cache' = got[f] /\ cache' # {} /\ cache' \subseteq Signing
        /\ recent' = since /\ since' = published
        /\ cache' \subseteq recent'
        /\ UNCHANGED <<published, got>>
    BY <1>2 DEF Replace, SomeKeys, KeysInv, TypeOK, Timely
  <2>2. CASE f = "serve"
    <3>1. phase' = "up" /\ fetch' = [serve |-> "none", task |-> "asking"]
      BY <1>2, <2>2 DEF Replace
    <3> QED
      BY <2>1, <3>1 DEF KeysInv, TypeOK, Turns, Timely, Supplied, Fetchers
  <2>3. CASE f = "task"
    <3>1. /\ phase = "up" /\ phase' = "up" /\ fetch["serve"] = "none"
          /\ fetch' = [fetch EXCEPT !["task"] = "sleeping"]
      BY <1>2, <2>3 DEF Replace, Sleeps, KeysInv, Turns
    <3> QED
      BY <2>1, <3>1 DEF KeysInv, TypeOK, Turns, Timely, Supplied, Fetchers
  <2> QED
    BY <2>2, <2>3 DEF Fetchers
<1> QED
  BY <1>1, <1>2

LEMMA NextKeys == KeysInv /\ [Next]_vars => KeysInv'
<1> SUFFICES ASSUME KeysInv, [Next]_vars PROVE KeysInv'
  OBVIOUS
<1> USE DEF KeysInv, TypeOK, Turns, Timely, Supplied, Fetchers
<1>1. ASSUME NEW S \in SUBSET (Signing \cup Other), Publish(S)
      PROVE  KeysInv'
  BY <1>1 DEF Publish
<1>2. CASE Start
  BY <1>2 DEF Start, SpawnedAtStart
<1>3. CASE Wake
  BY <1>3 DEF Wake
<1>4. CASE Stop
  BY <1>4 DEF Stop
<1>5. ASSUME NEW f \in Fetchers, Reply(f)
      PROVE  KeysInv'
  BY <1>5 DEF Reply, Usable
<1>6. ASSUME NEW f \in Fetchers, FetchFails(f) \/ Replace(f)
      PROVE  KeysInv'
  BY <1>6, FailsKeeps, ReplaceKeeps DEF FetchFails
<1>7. CASE UNCHANGED vars
  BY <1>7 DEF vars
<1> QED
  BY <1>1, <1>2, <1>3, <1>4, <1>5, <1>6, <1>7 DEF Next

LEMMA KeysInductive == Spec => []KeysInv
  BY InitKeys, NextKeys, PTL DEF Spec

(***************************************************************************)
(* The variables keep their types: only keys the server can use get into   *)
(* the cache.                                                              *)
(***************************************************************************)
THEOREM KeysTyped == Spec => []TypeOK
<1>1. KeysInv => TypeOK
  BY DEF KeysInv
<1> QED
  BY <1>1, KeysInductive, PTL

(***************************************************************************)
(* No request to a server that listens meets an empty cache, whatever the  *)
(* endpoint serves.                                                        *)
(***************************************************************************)
THEOREM AlwaysKeys == Spec => []NeverWithoutKeys
<1>1. KeysInv => NeverWithoutKeys
  BY DEF KeysInv, Supplied, NeverWithoutKeys, Verify
<1> QED
  BY <1>1, KeysInductive, PTL

(***************************************************************************)
(* The keys in use were published at some time since the refresh before    *)
(* last: responses are never applied out of order.                         *)
(***************************************************************************)
THEOREM NoStaleKeys == Spec => []RefreshesInOrder
<1>1. KeysInv => RefreshesInOrder
  BY DEF KeysInv, Supplied, RefreshesInOrder
<1> QED
  BY <1>1, KeysInductive, PTL

-----------------------------------------------------------------------------
(***************************************************************************)
(* KeysCatchUp.  The provers know nothing of ENABLED, so the fairness of   *)
(* FairSpec is spelled out here: Wake is possible exactly while the task   *)
(* sleeps, Replace while it holds a response, Reply while it waits for     *)
(* one.  Of the network all that is needed is that not every request of    *)
(* infinitely many hangs or fails.                                         *)
(***************************************************************************)
Waiting == fetch["task"] = "asking"
Holding == fetch["task"] = "replied"
Sleeping == fetch["task"] = "sleeping"

TaskRuns == /\ []<>~Sleeping \/ []<><<Wake>>_vars
            /\ []<>~Holding \/ []<><<Replace("task")>>_vars

RepliesCome == <>[]~Waiting \/ []<><<Reply("task")>>_vars

\* The task of a server that is up is always at one of these three points.
TaskLives == KeysInv /\ (phase = "up" => Waiting \/ Holding \/ Sleeping)

LEMMA TaskAlwaysLives == Spec => []TaskLives
<1>1. Init => TaskLives
  BY InitKeys DEF Init, TaskLives
<1>2. TaskLives /\ [Next]_vars => TaskLives'
  <2> SUFFICES ASSUME TaskLives, [Next]_vars, phase' = "up"
               PROVE  (Waiting \/ Holding \/ Sleeping)'
    BY NextKeys DEF TaskLives
  <2> USE DEF TaskLives, KeysInv, TypeOK, Fetchers, Waiting, Holding, Sleeping
  <2>1. CASE \/ \E S \in SUBSET (Signing \cup Other) : Publish(S)
             \/ UNCHANGED vars
    BY <2>1 DEF Publish, vars
  <2>2. CASE Start \/ Stop
    BY <2>2 DEF Start, Stop
  <2>3. CASE Wake
    BY <2>3 DEF Wake
  <2>4. ASSUME NEW f \in Fetchers, Reply(f)
        PROVE  (Waiting \/ Holding \/ Sleeping)'
    BY <2>4 DEF Reply
  <2>5. ASSUME NEW f \in Fetchers, FetchFails(f) \/ Replace(f)
        PROVE  (Waiting \/ Holding \/ Sleeping)'
    BY <2>5 DEF FetchFails, Replace, Fails, Sleeps
  <2> QED
    BY <2>1, <2>2, <2>3, <2>4, <2>5 DEF Next
<1> QED
  BY <1>1, <1>2, PTL DEF Spec

\* riley-auth has settled on the keys S.
Settled(S) == phase = "up" /\ Usable = S

\* No response of earlier days is still to be applied.
UpToDate(S) == Holding => got["task"] = S

\* How the task goes round while the keys stay the same.
LEMMA Round ==
    ASSUME NEW S \in SUBSET Signing, TaskLives, Next, Settled(S), Settled(S)'
    PROVE  /\ UpToDate(S) => UpToDate(S)'
           /\ Sleeping => (Sleeping \/ Waiting)'
           /\ Waiting => (Waiting \/ Holding \/ Sleeping)'
           /\ Holding => Holding' \/ Replace("task")
           /\ Wake => Waiting'
           /\ Reply("task") => Holding'
           /\ Replace("task") => Sleeping'
           /\ UpToDate(S) /\ Replace("task") /\ S # {} => cache' = S
           /\ ~Replace("task") => cache' = cache
<1> USE DEF TaskLives, KeysInv, TypeOK, Turns, Settled, UpToDate, Fetchers,
        Waiting, Holding, Sleeping
<1>1. CASE \E T \in SUBSET (Signing \cup Other) : Publish(T)
  BY <1>1 DEF Publish, Wake, Reply, Replace, Fails, Sleeps
<1>2. ~Start /\ ~Stop
  BY DEF Start, Stop
<1>3. CASE Wake
  BY <1>3 DEF Wake, Reply, Replace
<1>4. fetch["serve"] = "none"
  OBVIOUS
<1>5. CASE Reply("task")
  BY <1>5 DEF Reply, Wake, Replace
<1>6. CASE FetchFails("task")
  BY <1>6 DEF FetchFails, Fails, Sleeps, Wake, Reply, Replace
<1>7. CASE Replace("task")
  BY <1>7 DEF Replace, SomeKeys, Fails, Sleeps, Wake, Reply
<1>8. ASSUME NEW f \in Fetchers, Reply(f) \/ FetchFails(f) \/ Replace(f)
      PROVE  f = "task"
  BY <1>4, <1>8 DEF Reply, FetchFails, Replace
<1> QED
  BY <1>1, <1>2, <1>3, <1>5, <1>6, <1>7, <1>8 DEF Next

LEMMA CatchUp ==
    ASSUME NEW S \in (SUBSET Signing) \ {{}}
    PROVE  Spec /\ TaskRuns /\ RepliesCome =>
              (<>[]Settled(S) => <>[](cache = S))
<1> DEFINE Same == cache = S
           Quiet == TaskLives /\ [Next]_vars /\ Settled(S) /\ Settled(S)'
<1>1. TaskLives /\ Settled(S) => Waiting \/ Holding \/ Sleeping
  BY DEF TaskLives, Settled
<1>2. /\ Holding => ~Waiting /\ ~Sleeping
      /\ Sleeping => ~Waiting
      /\ ~Holding => UpToDate(S)
  BY DEF Holding, Waiting, Sleeping, UpToDate
<1>3. Quiet => /\ UpToDate(S) => UpToDate(S)'
               /\ Sleeping => Sleeping' \/ Waiting'
               /\ Waiting => Waiting' \/ Holding' \/ Sleeping'
               /\ Holding /\ UpToDate(S) => Holding' \/ Same'
               /\ Same /\ UpToDate(S) => Same'
  <2>1. CASE Next
    BY <2>1, Round
  <2>2. CASE UNCHANGED vars
    BY <2>2 DEF vars, UpToDate, Sleeping, Waiting, Holding
  <2> QED
    BY <2>1, <2>2
<1>4. Quiet /\ <<Wake>>_vars => Sleeping /\ Waiting'
  <2>1. Wake => Next /\ Sleeping
    BY DEF Next, Wake, Sleeping
  <2> QED
    BY <2>1, Round
<1>5. Quiet /\ <<Reply("task")>>_vars => Waiting /\ Holding'
  <2>1. Reply("task") => Next /\ Waiting
    BY DEF Next, Fetchers, Reply, Waiting
  <2> QED
    BY <2>1, Round
<1>6. Quiet /\ <<Replace("task")>>_vars =>
         Holding /\ Sleeping' /\ (UpToDate(S) => Same')
  <2>1. Replace("task") => Next /\ Holding
    BY DEF Next, Fetchers, Replace, Holding
  <2> QED
    BY <2>1, Round
<1> HIDE DEF Same, Quiet
<1>7. Spec /\ TaskRuns /\ RepliesCome => (<>[]Settled(S) => <>[]Same)
  BY <1>1, <1>2, <1>3, <1>4, <1>5, <1>6, TaskAlwaysLives, PTL
     DEF Spec, TaskRuns, RepliesCome, Quiet
<1> QED
  BY <1>7 DEF Same

(***************************************************************************)
(* A rotation of the keys reaches every server that stays up, for any keys *)
(* and whatever the endpoint served before: if the task runs and not every *)
(* request hangs or fails, the cache ends up with just the keys that       *)
(* riley-auth settles on.  A response of before the rotation may be        *)
(* applied once after it, and never again.                                 *)
(***************************************************************************)
THEOREM RotationArrives ==
    Spec /\ TaskRuns /\ RepliesCome => KeysCatchUp
<1>1. ASSUME NEW S \in (SUBSET Signing) \ {{}}
      PROVE  Spec /\ TaskRuns /\ RepliesCome =>
                (<>[](phase = "up" /\ Usable = S) => <>[](cache = S))
  <2>1. Settled(S) <=> phase = "up" /\ Usable = S
    BY DEF Settled
  <2> QED
    BY <2>1, CatchUp, PTL
<1> QED
  BY <1>1 DEF KeysCatchUp
=============================================================================
