-------------------------- MODULE DeploymentProofs --------------------------
(***************************************************************************)
(* What holds of Deployment for all programs, however long, any number of   *)
(* edits and of failing calls.  The inductive invariant is Inv: the state    *)
(* file knows a URN once, and whatever is in it finds what it waits for.     *)
(*                                                                         *)
(* What a property asks of the programs is a hypothesis of its theorem:      *)
(* the definitions Declared and Chained say what a component has to do for   *)
(* it, whoever writes it.                                                    *)
(***************************************************************************)
EXTENDS Deployment, TLAPS

Inv == TypeOK /\ Closed

\* Whatever a resource names, it depends on.
Declared == \A n \in Nodes : n.uses \subseteq n.deps

\* Of two resources that write to the same object, one waits for the other.
Chained ==
    \A u \in Updates : \A n, m \in u.goal :
        n.lock = m.lock /\ n.lock # <<>> /\ n # m =>
            n.urn \in u.waits[m.urn] \/ m.urn \in u.waits[n.urn]

\* The current update is one of the stories'.
LEMMA UpdateKnown == TypeOK => update \in Updates
  BY StoriesAssumption DEF TypeOK, update, Updates

\* A declared resource belongs to the nodes.
LEMMA GoalIsNodes == TypeOK => update.goal \subseteq Nodes
  BY UpdateKnown DEF Nodes

\* In an update that has nothing left to provision, what is no longer declared and
\* no stale resource waits for, nothing that stays waits for.
LEMMA StaleIsFree ==
    ASSUME TypeOK, NEW n \in state, Deletable(n)
    PROVE  \A m \in state \ {n} : n.urn \notin m.deps
<1> TAKE m \in state \ {n}
<1>1. CASE m \in Stale
  BY <1>1 DEF Deletable
<1>2. CASE m \notin Stale
  <2>1. PICK g \in update.goal : g.urn = m.urn
    BY <1>2 DEF Stale, UrnsOf
  <2>2. g \in state
    BY DEF Deletable, Pending
  <2>3. g = m
    BY <2>1, <2>2 DEF TypeOK
  <2>4. m.deps \subseteq UrnsOf(update.goal)
    <3>1. /\ m.deps \subseteq update.waits[m.urn]
          /\ update.waits[m.urn] \subseteq UrnsOf(update.goal)
      BY <2>3, UpdateKnown, UpdatesAssumption
    <3> QED BY <3>1
  <2>5. n.urn \notin UrnsOf(update.goal)
    BY DEF Deletable, Stale
  <2> QED BY <2>4, <2>5
<1> QED BY <1>1, <1>2

\* Provisioning keeps every URN of the state file, and adds the resource's.
LEMMA ProvisionKeeps ==
    ASSUME NEW n, Provision(n)
    PROVE  UrnsOf(state) \cup {n.urn} \subseteq UrnsOf(state')
<1>1. state' = {m \in state : m.urn # n.urn} \cup {n}
  BY DEF Provision
<1> QED BY <1>1 DEF UrnsOf

\* What is ready depends on nothing that is not in the state file.
LEMMA ReadyHasDeps ==
    ASSUME TypeOK, NEW n \in update.goal, Ready(n)
    PROVE  n.deps \subseteq UrnsOf(state)
<1>1. n.deps \subseteq update.waits[n.urn]
  BY UpdateKnown, UpdatesAssumption
<1> QED BY <1>1 DEF Ready, UrnsOf

LEMMA InitInv == Init => Inv
<1> SUFFICES ASSUME Init PROVE Inv
  OBVIOUS
<1>1. TypeOK
  <2>1. turn \in 1 .. Len(Stories[story])
    BY StoriesAssumption DEF Init
  <2> QED BY <2>1, MaxFailuresAssumption DEF Init, TypeOK
<1>2. Closed
  BY DEF Init, Closed
<1> QED BY <1>1, <1>2 DEF Inv

LEMMA NextInv == Inv /\ [Next]_vars => Inv'
<1> SUFFICES ASSUME Inv, [Next]_vars PROVE Inv'
  OBVIOUS
<1> USE DEF Inv
<1>a. TypeOK /\ Closed
  OBVIOUS
<1>1. ASSUME NEW n \in update.goal, Provision(n) PROVE Inv'
  <2>1. state' = {m \in state : m.urn # n.urn} \cup {n} /\ UNCHANGED <<story, turn, status, failures>>
    BY <1>1 DEF Provision
  <2>2. TypeOK'
    <3>1. n \in Nodes
      BY GoalIsNodes
    <3> QED BY <2>1, <3>1 DEF TypeOK
  <2>3. Closed'
    <3>1. UrnsOf(state) \subseteq UrnsOf(state')
      BY <1>1, ProvisionKeeps
    <3>2. n.deps \subseteq UrnsOf(state)
      BY <1>1, ReadyHasDeps DEF Provision
    <3>3. \A m \in state' : m.deps \subseteq UrnsOf(state)
      BY <1>a, <2>1, <3>2 DEF Closed
    <3> QED BY <3>1, <3>3 DEF Closed, UrnsOf
  <2> QED BY <2>2, <2>3
<1>2. ASSUME NEW n \in state, Delete(n) PROVE Inv'
  <2>1. Deletable(n) /\ state' = state \ {n} /\ UNCHANGED <<story, turn, status, failures>>
    BY <1>2 DEF Delete
  <2>2. TypeOK'
    BY <2>1 DEF TypeOK
  <2>3. Closed'
    <3>1. ASSUME NEW m \in state', NEW d \in m.deps PROVE d \in UrnsOf(state')
      <4>1. m \in state \ {n}
        BY <2>1
      <4>2. d # n.urn
        BY <2>1, <3>1, <4>1, StaleIsFree
      <4>3. PICK k \in state : k.urn = d
        BY <3>1, <4>1 DEF Closed, UrnsOf
      <4> QED BY <2>1, <4>2, <4>3 DEF UrnsOf
    <3> QED BY <3>1 DEF Closed, UrnsOf
  <2> QED BY <2>2, <2>3
<1>3. ASSUME UNCHANGED state, UNCHANGED story, turn' \in 1 .. Len(Stories[story]),
             status' \in {"running", "failed", "succeeded"}, failures' \in 0 .. MaxFailures
      PROVE  Inv'
  BY <1>3 DEF TypeOK, Closed, UrnsOf
<1>4. ASSUME NEW n, ProvisionFails(n) \/ DeleteFails(n) PROVE Inv'
  BY <1>3, <1>4, MaxFailuresAssumption DEF ProvisionFails, DeleteFails, TypeOK
<1>5. ASSUME NEW n, Refuse(n) PROVE Inv'
  BY <1>3, <1>5 DEF Refuse, TypeOK
<1>6. CASE Abort \/ Succeed \/ Retry
  BY <1>3, <1>6 DEF Abort, Succeed, Retry, TypeOK
<1>7. CASE NextUpdate
  <2>1. Len(Stories[story]) \in Nat
    BY StoriesAssumption DEF TypeOK
  <2> QED BY <1>3, <1>7, <2>1 DEF NextUpdate, TypeOK
<1>8. CASE UNCHANGED vars
  BY <1>3, <1>8 DEF vars, TypeOK
<1> QED BY <1>1, <1>2, <1>4, <1>5, <1>6, <1>7, <1>8 DEF Next

LEMMA Invariance == Spec => []Inv
  BY InitInv, NextInv, PTL DEF Spec

\* The state file holds resources of the programs, and each URN once, for any
\* programs, edits and failures.
THEOREM TypeCorrect == Spec => []TypeOK
<1>1. Inv => TypeOK
  BY DEF Inv
<1> QED BY <1>1, Invariance, PTL

\* Whatever exists waits for nothing that does not.
THEOREM ClosedHolds == Spec => []Closed
<1>1. Inv => Closed
  BY DEF Inv
<1> QED BY <1>1, Invariance, PTL

-----------------------------------------------------------------------------
(* The refinement *)

LEMMA InitStore == Init => Store!Init
  BY DEF Init, Store!Init

LEMMA NextStore == Inv /\ [Next]_vars => [Store!Next]_state
<1> SUFFICES ASSUME Inv, [Next]_vars PROVE Store!Next \/ UNCHANGED state
  OBVIOUS
<1>1. TypeOK
  BY DEF Inv
<1>2. ASSUME NEW n \in update.goal, Provision(n) PROVE Store!Next
  <2>1. n \in Nodes
    BY <1>1, GoalIsNodes
  <2>2. n.deps \subseteq UrnsOf(state)
    BY <1>1, <1>2, ReadyHasDeps DEF Provision
  <2>3. Store!Put(n)
    BY <1>2, <2>2 DEF Store!Put, Store!UrnsOf, UrnsOf, Provision
  <2> QED BY <2>1, <2>3 DEF Store!Next
<1>3. ASSUME NEW n \in state, Delete(n) PROVE Store!Next
  <2>1. Deletable(n)
    BY <1>3 DEF Delete
  <2>2. \A m \in state \ {n} : n.urn \notin m.deps
    BY <1>1, <2>1, StaleIsFree
  <2>3. Store!Drop(n)
    BY <1>3, <2>2 DEF Store!Drop, Delete
  <2> QED BY <2>3 DEF Store!Next
<1>4. ASSUME NEW n, ProvisionFails(n) \/ DeleteFails(n) \/ Refuse(n) PROVE UNCHANGED state
  BY <1>4 DEF ProvisionFails, DeleteFails, Refuse
<1>5. CASE Abort \/ Succeed \/ Retry \/ NextUpdate
  BY <1>5 DEF Abort, Succeed, Retry, NextUpdate
<1>6. CASE UNCHANGED vars
  BY <1>6 DEF vars
<1> QED BY <1>2, <1>3, <1>4, <1>5, <1>6 DEF Next

\* A deployment implements ClosedStore: whatever fails and whatever is edited, a
\* resource is provisioned when all it depends on is there and deleted when nothing
\* that stays depends on it.
THEOREM Implementation == Spec => Implements
  BY InitStore, NextStore, Invariance, PTL DEF Spec, Implements, Store!Spec

-----------------------------------------------------------------------------
(* What holds of the programs that do their part *)

\* When every resource waits for what it names, nothing that exists names what does
\* not: not after a failure, not between two steps of an edit.
THEOREM NoDanglingHolds ==
    ASSUME Declared
    PROVE  Spec => []NoDangling
<1>1. Inv => NoDangling
  <2> SUFFICES ASSUME Inv, NEW n \in state PROVE n.uses \subseteq UrnsOf(state)
    BY DEF NoDangling
  <2>1. n \in Nodes /\ n.deps \subseteq UrnsOf(state)
    BY DEF Inv, TypeOK, Closed
  <2> QED BY <2>1, Declared DEF Declared
<1> QED BY <1>1, Invariance, PTL

\* When the writes to an object are chained, no two creations or updates of them are
\* due together, wherever an earlier update of the same programs was interrupted.
\* Nothing is said of deletions, which the state file's direct dependencies order.
THEOREM OnePutAtATimeHolds ==
    ASSUME Chained
    PROVE  Spec => []OnePutAtATime
<1>1. ASSUME Inv, NEW n \in update.goal, NEW m \in update.goal, Ready(n), Ready(m)
      PROVE  n.urn \notin update.waits[m.urn]
  <2> SUFFICES ASSUME n.urn \in update.waits[m.urn] PROVE FALSE
    OBVIOUS
  <2>1. PICK k \in update.goal \cap state : k.urn = n.urn
    BY <1>1 DEF Ready, UrnsOf
  <2>2. update \in Updates
    BY <1>1, UpdateKnown DEF Inv
  <2>3. k = n
    BY <2>1, <2>2, UpdatesAssumption
  <2> QED BY <1>1, <2>1, <2>3 DEF Ready, Pending
<1>2. Inv => OnePutAtATime
  <2> SUFFICES ASSUME Inv, NEW n \in update.goal, NEW m \in update.goal,
                      Ready(n), Ready(m), n.lock = m.lock, n.lock # <<>>, n # m
               PROVE  FALSE
    BY DEF OnePutAtATime
  <2>1. update \in Updates
    BY UpdateKnown DEF Inv
  <2>2. n.urn \in update.waits[m.urn] \/ m.urn \in update.waits[n.urn]
    BY <2>1, Chained DEF Chained
  <2>3. n.urn \notin update.waits[m.urn] /\ m.urn \notin update.waits[n.urn]
    BY <1>1
  <2> QED BY <2>2, <2>3
<1> QED BY <1>2, Invariance, PTL

\* An update that succeeds leaves the stack exactly as the program declares it,
\* whatever the updates before it left behind.
Settled == status = "succeeded" => state = update.goal

THEOREM SettledHolds == Spec => []Settled
<1>1. Init => Settled
  BY DEF Init, Settled
<1>2. Inv /\ Settled /\ [Next]_vars => Settled'
  <2> SUFFICES ASSUME Inv, Settled, [Next]_vars, status' = "succeeded"
               PROVE  state' = update'.goal
    BY DEF Settled
  <2>1. CASE Succeed
    <3>1. Pending = {} /\ Stale = {} /\ UNCHANGED <<story, turn, state>>
      BY <2>1 DEF Succeed
    <3>2. update.goal \subseteq state
      BY <3>1 DEF Pending
    <3>3. ASSUME NEW n \in state PROVE n \in update.goal
      <4>1. PICK g \in update.goal : g.urn = n.urn
        BY <3>1 DEF Stale, UrnsOf
      <4> QED BY <3>2, <4>1 DEF Inv, TypeOK
    <3>4. update' = update
      BY <3>1 DEF update
    <3> QED BY <3>1, <3>2, <3>3, <3>4
  <2>2. CASE UNCHANGED vars
    BY <2>2 DEF vars, Settled, update
  <2>3. ASSUME NEW n, Provision(n) \/ ProvisionFails(n) \/ Refuse(n) \/ Delete(n) \/ DeleteFails(n)
        PROVE  FALSE
    BY <2>3 DEF Provision, ProvisionFails, Refuse, Delete, DeleteFails
  <2>4. ~(Abort \/ Retry \/ NextUpdate)
    BY DEF Abort, Retry, NextUpdate
  <2> QED BY <2>1, <2>2, <2>3, <2>4 DEF Next
<1> QED BY <1>1, <1>2, Invariance, PTL DEF Spec
=============================================================================
