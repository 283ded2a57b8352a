-------------------------- MODULE VisibleIdsProofs --------------------------
(***************************************************************************)
(* visible_ids computes the least closed set, for lists of any length.     *)
(***************************************************************************)
EXTENDS VisibleIds, TLAPS

USE VisibleIdsAssumption

LEMMA InitLoopInv == Init => LoopInv
  BY DEF Init, LoopInv, TypeOK, Live, ClosedAbove

LEMMA NextLoopInv == LoopInv /\ [Next]_vars => LoopInv'
<1> SUFFICES ASSUME LoopInv, [Next]_vars PROVE LoopInv'
  OBVIOUS
<1> USE DEF LoopInv
<1>1. CASE UNCHANGED vars
  BY <1>1 DEF vars, TypeOK, Up, Live, ClosedAbove
<1>2. ASSUME UNCHANGED input
      PROVE  /\ Live' = Live
             /\ \A id \in Ids : Up(id)' = Up(id) /\ Up(id) \in Ids \cup {None}
             /\ \A S \in SUBSET Ids : ClosedAbove(S)' <=> ClosedAbove(S)
  BY <1>2 DEF input, Live, Up, ClosedAbove, TypeOK
<1>3. CASE TakeLive
  <2>1. PICK id \in todo : /\ todo' = todo \ {id}
                           /\ next' = IF id \in Live THEN id ELSE None
    BY <1>3 DEF TakeLive
  <2>2. UNCHANGED <<input, visible>> /\ next = None /\ id \in Ids
    BY <1>3, <2>1 DEF TakeLive, TypeOK
  <2>3. TypeOK'
    BY <2>1, <2>2 DEF TypeOK, input
  <2>4. \A i \in visible : Up(i)' # None => Up(i)' \in visible' \cup {next'}
    BY <1>2, <2>1, <2>2 DEF TypeOK
  <2>5. Live' \ todo' \subseteq visible' \cup {next'}
    <3>1. None \notin Live
      BY DEF Live, TypeOK
    <3> QED
      BY <1>2, <2>1, <2>2, <3>1
  <2>6. \A S \in SUBSET Ids :
           ClosedAbove(S) => visible' \subseteq S /\ next' \in S \cup {None}
    BY <2>1, <2>2 DEF ClosedAbove
  <2> QED
    BY <1>2, <2>2, <2>3, <2>4, <2>5, <2>6
<1>4. CASE StopAtMarked
  <2>1. UNCHANGED <<input, todo, visible>> /\ next \in visible /\ next' = None
    BY <1>4 DEF StopAtMarked
  <2>2. TypeOK'
    BY <2>1 DEF TypeOK, input
  <2> QED
    BY <1>2, <2>1, <2>2 DEF TypeOK
<1>5. CASE Mark
  <2>1. /\ UNCHANGED <<input, todo>> /\ next \in Ids
        /\ visible' = visible \cup {next} /\ next' = Up(next)
    BY <1>5 DEF Mark, TypeOK
  <2>2. TypeOK'
    BY <1>2, <2>1 DEF TypeOK, input
  <2>3. \A S \in SUBSET Ids :
           ClosedAbove(S) => visible' \subseteq S /\ next' \in S \cup {None}
    BY <2>1 DEF ClosedAbove
  <2> QED
    BY <1>2, <2>1, <2>2, <2>3 DEF TypeOK
<1> QED
  BY <1>1, <1>3, <1>4, <1>5 DEF Next

(***************************************************************************)
(* At every turn of the loops what is marked lies in every closed set, and *)
(* is closed but for where the walk under way still has to go.             *)
(***************************************************************************)
THEOREM LoopsKeep == Spec => []LoopInv
<1>1. LoopInv /\ [Next]_vars => LoopInv'
  BY NextLoopInv
<1> QED
  BY <1>1, InitLoopInv, PTL DEF Spec

(***************************************************************************)
(* visible_ids is partially correct: when the loops have ended, the result *)
(* is the least set with every live comment and all ancestors.             *)
(***************************************************************************)
THEOREM ComputesLeast == Spec => []LeastClosed
<1>1. LoopInv => LeastClosed
  <2> SUFFICES ASSUME LoopInv, Done
               PROVE  /\ ClosedAbove(visible)
                      /\ \A S \in SUBSET Ids : ClosedAbove(S) => visible \subseteq S
    BY DEF LeastClosed
  <2>1. None \notin Live
    BY DEF LoopInv, Live, TypeOK
  <2>2. Live \subseteq visible
    BY <2>1 DEF LoopInv, Done
  <2> QED
    BY <2>2 DEF LoopInv, Done, ClosedAbove
<1> QED
  BY <1>1, LoopsKeep, PTL

(***************************************************************************)
(* Every turn gets on: the outer loop has fewer comments before it, or the *)
(* inner one has left this chain or moved to an older comment of it.  As   *)
(* the list is finite the loops end; that they are never stuck before, and *)
(* so do end, is what the property Terminates adds.                        *)
(***************************************************************************)
GetsOn ==
    \/ todo' \subseteq todo /\ todo' # todo
    \/ /\ todo' = todo /\ next # None
       /\ next' # None => next' < next

Older == LoopInv /\ \A id \in comments : parent[id] # None => parent[id] < id

THEOREM LoopsGetOn == Spec => [][GetsOn]_vars
<1>1. Init => Older
  BY InitLoopInv DEF Init, Older
<1>2. Older /\ [Next]_vars => Older'
  <2>1. [Next]_vars => UNCHANGED <<comments, parent>>
    BY DEF Next, TakeLive, StopAtMarked, Mark, input, vars
  <2> QED
    BY <2>1, NextLoopInv DEF Older
<1>3. Older /\ [Next]_vars => [GetsOn]_vars
  <2> SUFFICES ASSUME Older, Next PROVE GetsOn
    OBVIOUS
  <2>1. None \notin visible
    BY DEF Older, LoopInv, TypeOK
  <2>2. CASE TakeLive
    BY <2>2 DEF TakeLive, GetsOn
  <2>3. CASE StopAtMarked
    BY <2>1, <2>3 DEF StopAtMarked, GetsOn
  <2>4. CASE Mark
    BY <2>4 DEF Mark, Up, Older, GetsOn
  <2> QED
    BY <2>2, <2>3, <2>4 DEF Next
<1> QED
  BY <1>1, <1>2, <1>3, PTL DEF Spec
=============================================================================
