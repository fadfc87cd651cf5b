-------------------------- MODULE RegistrationProofs --------------------------
(***************************************************************************)
(* Theorems about registering tables, for any number of tables,             *)
(* administrators and registrations.                                        *)
(*                                                                         *)
(* All but the type invariant need DistinctNames: no two of the tables have *)
(* one name in different schemas. Without it they are false, as the run     *)
(* registration_owners shows.                                               *)
(*                                                                         *)
(* The inductive invariant has two parts. OwnInv says whose a registration  *)
(* id is, wherever it is written down or on its way. WorkInv says what a    *)
(* call has achieved that no other call on its table has overlapped.        *)
(***************************************************************************)
EXTENDS Registration, TLAPS

DistinctNames == \A t, u \in Table : t.name = u.name => t = u

Labels == {"idle", "insert", "deregister", "register", "reg_end", "update",
           "lookup", "drop", "cleanup"}

\* A session has an argument while it is in a call, and no entry but its
\* argument's; it has a registration once it has begun one.
CallInv ==
  \A s \in Session :
    /\ pc[s] = "idle" <=> arg[s] = NoTable
    /\ inserted[s] \in {NoTable, arg[s]}
    /\ pc[s] \in {"reg_end", "update"} => l_regid[s] \in RegId

\* A registration of t with this id exists or is about to be made.
Claimed(id, t) ==
  \/ \E r \in regs : r.id = id /\ r.table = t
  \/ \E s \in Session : pc[s] = "reg_end" /\ l_regid[s] = id /\ arg[s] = t

\* Somebody takes the id for that of t's registration.
Believed(id, t) ==
  \/ Claimed(id, t)
  \/ regid[t] = id
  \/ \E s \in Session : pc[s] \in {"update", "drop"} /\ l_regid[s] = id /\ arg[s] = t

\* Whoever takes an id for that of a table's registration is right, and the id
\* has been handed out.
OwnInv ==
  \A id \in RegId, t \in Table :
    Believed(id, t) => /\ id <= lastReg
                       /\ \A u \in Table : Claimed(id, u) => u = t

\* Two calls about one table know of each other.
OverlapInv ==
  \A s, q \in Session :
    s # q /\ arg[s] = arg[q] /\ arg[s] # NoTable => s \in overlapped

RegsOf(t) == {r \in regs : r.table = t}

\* A call that nobody has overlapped still has the entry it has read, has
\* dropped all registrations of its table, and has made one.
WorkInv ==
  \A s \in Session \ overlapped :
    /\ pc[s] \in {"register", "reg_end", "update"} => Defined(s, arg[s])
    /\ pc[s] \in {"register", "reg_end"} => RegsOf(arg[s]) = {}
    /\ pc[s] = "update" => RegsOf(arg[s]) = {[id |-> l_regid[s], table |-> arg[s]]}

\* What holds of calls about tables of any names.
BasicInv == TypeOK /\ CallInv

Inv ==
  /\ BasicInv
  /\ OwnInv
  /\ OverlapInv
  /\ WorkInv
  /\ RegisteredIsCaptured

-----------------------------------------------------------------------------
(* Types *)

LEMMA Types ==
  ASSUME TypeOK
  PROVE  /\ pc \in [Session -> Labels] /\ arg \in [Session -> Table \cup {NoTable}]
         /\ inserted \in [Session -> Table \cup {NoTable}]
         /\ l_regid \in [Session -> Nat] /\ regid \in [Table -> Nat]
         /\ present \subseteq Table /\ lastReg \in Nat /\ NoTable \notin Table
         /\ \A r \in regs : r.id \in RegId /\ r.table \in Table
         /\ NullId \notin RegId /\ RegId \subseteq Nat
<1>1. MaxRegs \in Nat /\ NoTable \notin Table
  BY RegistrationAssumption DEF RegistrationAssumption
<1>2. NullId \notin RegId /\ RegId \subseteq Nat /\ NullId \in Nat
  BY <1>1 DEF NullId, RegId
<1>3. l_regid \in [Session -> Nat] /\ regid \in [Table -> Nat]
  BY <1>2 DEF TypeOK
<1>4. QED
  BY <1>1, <1>2, <1>3 DEF TypeOK, Labels

LEMMA InitBasic == Init => BasicInv
<1> SUFFICES ASSUME Init PROVE BasicInv
  OBVIOUS
<1>1. MaxRegs \in Nat /\ NoTable \notin Table
  BY RegistrationAssumption DEF RegistrationAssumption
<1>2. TypeOK
  BY <1>1 DEF Init, TypeOK
<1>3. CallInv
  BY DEF Init, CallInv
<1>4. QED
  BY <1>2, <1>3 DEF BasicInv

\* In a call the argument is a table.
LEMMA Argument ==
  ASSUME BasicInv, NEW s \in Session, pc[s] # "idle"
  PROVE  arg[s] \in Table
BY Types DEF BasicInv, CallInv

\* The end of a call keeps the types.
LEMMA ReturnBasic ==
  ASSUME BasicInv, NEW s \in Session, Return(s),
         empty' \subseteq Table, present' \subseteq Table,
         regid' \in [Table -> RegId \cup {NullId}],
         regs' \subseteq [id : RegId, table : Table], lastReg' \in 0..MaxRegs,
         intact' \subseteq Table
  PROVE  BasicInv'
<1>1. /\ pc' = [pc EXCEPT ![s] = "idle"]
      /\ arg' = [arg EXCEPT ![s] = NoTable]
      /\ inserted' = [inserted EXCEPT ![s] = NoTable]
      /\ l_regid' = [l_regid EXCEPT ![s] = NullId]
      /\ overlapped' = overlapped \ {s}
  BY DEF Return, Goto
<1>2. TypeOK'
  BY <1>1 DEF BasicInv, TypeOK
<1>3. CallInv'
  BY <1>1, Types DEF BasicInv, TypeOK, CallInv
<1>4. QED
  BY <1>2, <1>3 DEF BasicInv

\* Another statement of the call of session s keeps them.
LEMMA StatementBasic ==
  ASSUME BasicInv, NEW s \in Session, pc[s] # "idle",
         NEW label \in Labels \ {"idle"}, Goto(s, label),
         regs' \subseteq [id : RegId, table : Table], lastReg' \in 0..MaxRegs,
         inserted' \in [Session -> Table \cup {NoTable}],
         inserted'[s] \in {NoTable, arg[s]},
         l_regid' \in [Session -> RegId \cup {NullId}],
         label \in {"reg_end", "update"} => l_regid'[s] \in RegId,
         \A q \in Session \ {s} : inserted'[q] = inserted[q] /\ l_regid'[q] = l_regid[q],
         UNCHANGED <<empty, present, regid, arg, overlapped, intact>>
  PROVE  BasicInv'
<1>1. pc' = [pc EXCEPT ![s] = label]
  BY DEF Goto
<1>2. TypeOK'
  BY <1>1 DEF BasicInv, TypeOK, Labels
<1>3. CallInv'
  BY <1>1, Types DEF BasicInv, TypeOK, CallInv
<1>4. QED
  BY <1>2, <1>3 DEF BasicInv

LEMMA StepBasic ==
  ASSUME BasicInv, NEW s \in Session, Step(s)
  PROVE  BasicInv'
<1>0. TypeOK /\ CallInv
  BY DEF BasicInv
<1>1. CASE InsertEntry(s)
  <2>1. arg[s] \in Table
    BY <1>1, Argument DEF InsertEntry
  <2>2. /\ inserted' \in [Session -> Table \cup {NoTable}]
        /\ inserted'[s] \in {NoTable, arg[s]}
        /\ \A q \in Session \ {s} : inserted'[q] = inserted[q]
    BY <1>0, <1>1, <2>1 DEF InsertEntry, TypeOK
  <2>3. QED
    BY <1>0, <1>1, <2>2, StatementBasic DEF InsertEntry, TypeOK, Labels
<1>2. CASE DeregisterLoop(s) \/ DropRegistration(s)
  <2>1. regs' \subseteq regs
    BY <1>2 DEF DeregisterLoop, DropRegistration
  <2>2. QED
    BY <1>0, <1>2, <2>1, StatementBasic
    DEF DeregisterLoop, DropRegistration, TypeOK, CallInv, Labels
<1>3. CASE EntryGone(s) \/ FindFails(s) \/ DropFails(s)
  <2>1. /\ Return(s) /\ intact' \subseteq intact
        /\ UNCHANGED <<empty, present, regid, lastReg, regs>>
    BY <1>3 DEF EntryGone, FindFails, DropFails, Raise
  <2>2. QED
    BY <1>0, <2>1, ReturnBasic DEF TypeOK
<1>4. ASSUME lastReg < MaxRegs PROVE lastReg + 1 \in RegId /\ lastReg + 1 \in 0..MaxRegs
  BY <1>0, <1>4, RegistrationAssumption DEF TypeOK, RegId, RegistrationAssumption
<1>5. CASE QueryTable(s)
  <2>1. /\ l_regid' \in [Session -> RegId \cup {NullId}] /\ l_regid'[s] \in RegId
        /\ \A q \in Session \ {s} : l_regid'[q] = l_regid[q]
        /\ lastReg' \in 0..MaxRegs
    BY <1>0, <1>4, <1>5 DEF QueryTable, TypeOK
  <2>2. QED
    BY <1>0, <1>5, <2>1, StatementBasic DEF QueryTable, TypeOK, CallInv, Labels
<1>6. CASE QueryEmpty(s)
  <2>1. arg[s] \in Table
    BY <1>6, Argument DEF QueryEmpty
  <2>2. /\ regs' \subseteq [id : RegId, table : Table] /\ lastReg' \in 0..MaxRegs
        /\ Return(s) /\ intact' \subseteq intact /\ UNCHANGED <<empty, present, regid>>
    BY <1>0, <1>4, <1>6, <2>1 DEF QueryEmpty, TypeOK
  <2>3. QED
    BY <1>0, <2>2, ReturnBasic DEF TypeOK
<1>7. CASE EndRegistration(s)
  <2>1. arg[s] \in Table /\ l_regid[s] \in RegId
    BY <1>0, <1>7, Argument DEF EndRegistration, CallInv
  <2>2. regs' \subseteq [id : RegId, table : Table]
    BY <1>0, <1>7, <2>1 DEF EndRegistration, TypeOK
  <2>3. QED
    BY <1>0, <1>7, <2>1, <2>2, StatementBasic DEF EndRegistration, TypeOK, CallInv, Labels
<1>8. CASE StoreRegid(s)
  <2>1. arg[s] \in Table
    BY <1>8, Argument DEF StoreRegid
  <2>2. present' \subseteq Table
    BY <1>0, <1>8 DEF StoreRegid, TypeOK
  <2>3. regid' \in [Table -> RegId \cup {NullId}]
    BY <1>0, <1>8 DEF StoreRegid, TypeOK
  <2>4. intact' \subseteq Table
    BY <1>0, <1>8, <2>1 DEF StoreRegid, TypeOK
  <2>5. QED
    BY <1>0, <1>8, <2>2, <2>3, <2>4, ReturnBasic DEF StoreRegid, TypeOK
<1>9. CASE FindStored(s) \/ FindByTable(s)
  <2>1. PICK id \in RegId \cup {NullId} : l_regid' = [l_regid EXCEPT ![s] = id]
    BY <1>0, <1>9, Types DEF FindStored, FindByTable, IdsOf, TypeOK
  <2>2. /\ l_regid' \in [Session -> RegId \cup {NullId}]
        /\ \A q \in Session \ {s} : l_regid'[q] = l_regid[q]
    BY <1>0, <2>1 DEF TypeOK
  <2>3. QED
    BY <1>0, <1>9, <2>2, StatementBasic DEF FindStored, FindByTable, TypeOK, CallInv, Labels
<1>10. CASE Cleanup(s) \/ KeepEntry(s)
  <2>1. /\ Return(s) /\ present' \subseteq present /\ intact' \subseteq intact
        /\ regid' \in [Table -> RegId \cup {NullId}]
        /\ UNCHANGED <<empty, regs, lastReg>>
    BY <1>0, <1>10 DEF Cleanup, KeepEntry, TypeOK
  <2>2. QED
    BY <1>0, <2>1, ReturnBasic DEF TypeOK
<1>11. QED
  BY <1>1, <1>2, <1>3, <1>5, <1>6, <1>7, <1>8, <1>9, <1>10 DEF Step

LEMMA BasicInductive == BasicInv /\ [Next]_vars => BasicInv'
<1> SUFFICES ASSUME BasicInv, [Next]_vars PROVE BasicInv'
  OBVIOUS
<1>0. TypeOK /\ CallInv
  BY DEF BasicInv
<1>1. ASSUME NEW t \in Table, FillOrEmpty(t) \/ AddEntry(t) PROVE BasicInv'
  <2>1. /\ empty' \subseteq Table /\ present' \subseteq Table
        /\ UNCHANGED <<regid, regs, lastReg, pc, arg, inserted, l_regid, overlapped, intact>>
    BY <1>0, <1>1 DEF FillOrEmpty, AddEntry, TypeOK
  <2>2. QED
    BY <1>0, <2>1 DEF BasicInv, TypeOK, CallInv
<1>2. ASSUME NEW s \in Session, NEW t \in Table, CallRegister(s, t) \/ CallDeregister(s, t)
      PROVE  BasicInv'
  <2>1. PICK label \in {"insert", "lookup"} : Call(s, t, label)
    BY <1>2 DEF CallRegister, CallDeregister
  <2>2. /\ pc[s] = "idle" /\ pc' = [pc EXCEPT ![s] = label]
        /\ arg' = [arg EXCEPT ![s] = t] /\ overlapped' \subseteq Session
        /\ UNCHANGED <<empty, present, regid, regs, lastReg, inserted, l_regid, intact>>
    BY <1>0, <2>1 DEF Call, Goto, TypeOK
  <2>3. inserted[s] = NoTable /\ t # NoTable
    BY <1>0, <2>2, Types DEF CallInv
  <2>4. TypeOK'
    BY <1>0, <2>2 DEF TypeOK
  <2>5. CallInv'
    BY <1>0, <2>2, <2>3, Types DEF CallInv
  <2>6. QED
    BY <2>4, <2>5 DEF BasicInv
<1>3. ASSUME NEW s \in Session, Step(s) PROVE BasicInv'
  BY <1>3, StepBasic
<1>4. CASE UNCHANGED vars
  BY <1>0, <1>4 DEF vars, BasicInv, TypeOK, CallInv
<1>5. QED
  BY <1>1, <1>2, <1>3, <1>4 DEF Next

LEMMA BasicInvariance == Spec => []BasicInv
BY InitBasic, BasicInductive, PTL DEF Spec

\* The package's variables keep their types, whatever the tables are called.
THEOREM TypeCorrect == Spec => []TypeOK
<1>1. BasicInv => TypeOK
  BY DEF BasicInv
<1>2. QED
  BY <1>1, BasicInvariance, PTL

-----------------------------------------------------------------------------
(* What one session's step leaves to the others *)

\* The call of session s goes on.
Continue(s) ==
  /\ \E label \in Labels \ {"idle"} : Goto(s, label)
  /\ UNCHANGED <<arg, overlapped>>
  /\ \E t \in Table \cup {NoTable} : inserted' = [inserted EXCEPT ![s] = t]
  /\ \E id \in RegId \cup {NullId} : l_regid' = [l_regid EXCEPT ![s] = id]

LEMMA Unassigned ==
  ASSUME NEW S, NEW T, NEW f \in [S -> T], NEW x \in S
  PROVE  \E y \in T : f = [f EXCEPT ![x] = y]
<1>1. f = [f EXCEPT ![x] = f[x]]
  OBVIOUS
<1>2. QED
  BY <1>1

LEMMA StepKinds ==
  ASSUME BasicInv, NEW s \in Session, Step(s)
  PROVE  /\ Return(s) \/ Continue(s)
         /\ pc[s] # "idle"
         /\ arg[s] \in Table
<1>0. TypeOK /\ CallInv
  BY DEF BasicInv
<1>1. pc[s] # "idle"
  BY DEF Step, InsertEntry, DeregisterLoop, EntryGone, QueryTable, QueryEmpty,
         EndRegistration, StoreRegid, FindStored, FindByTable, FindFails,
         DropRegistration, DropFails, Cleanup, KeepEntry
<1>2. arg[s] \in Table
  BY <1>1, Argument
<1>3. /\ \E t \in Table \cup {NoTable} : inserted = [inserted EXCEPT ![s] = t]
      /\ \E id \in RegId \cup {NullId} : l_regid = [l_regid EXCEPT ![s] = id]
  BY <1>0, Unassigned DEF TypeOK
<1>4. CASE InsertEntry(s)
  BY <1>1, <1>2, <1>3, <1>4 DEF InsertEntry, Continue, Labels
<1>5. CASE DeregisterLoop(s) \/ EndRegistration(s) \/ DropRegistration(s)
  BY <1>1, <1>2, <1>3, <1>5 DEF DeregisterLoop, EndRegistration, DropRegistration, Continue, Labels
<1>6. CASE QueryTable(s)
  <2>1. lastReg + 1 \in RegId
    BY <1>0, <1>6, RegistrationAssumption
    DEF QueryTable, TypeOK, RegId, RegistrationAssumption
  <2>2. QED
    BY <1>1, <1>2, <1>3, <1>6, <2>1 DEF QueryTable, Continue, Labels
<1>7. CASE FindStored(s) \/ FindByTable(s)
  <2>1. \E id \in RegId \cup {NullId} : l_regid' = [l_regid EXCEPT ![s] = id]
    BY <1>0, <1>7, Types DEF FindStored, FindByTable, IdsOf, TypeOK
  <2>2. QED
    BY <1>1, <1>2, <1>3, <1>7, <2>1 DEF FindStored, FindByTable, Continue, Labels
<1>8. CASE \/ EntryGone(s) \/ FindFails(s) \/ DropFails(s) \/ QueryEmpty(s)
           \/ StoreRegid(s) \/ Cleanup(s) \/ KeepEntry(s)
  BY <1>1, <1>2, <1>8 DEF EntryGone, FindFails, DropFails, Raise, QueryEmpty, StoreRegid, Cleanup, KeepEntry
<1>9. QED
  BY <1>1, <1>2, <1>4, <1>5, <1>6, <1>7, <1>8 DEF Step

\* A step of session s is one of its call only.
LEMMA StepOthers ==
  ASSUME BasicInv, NEW s \in Session, Step(s)
  PROVE  /\ \A q \in Session \ {s} :
              /\ pc'[q] = pc[q] /\ arg'[q] = arg[q]
              /\ inserted'[q] = inserted[q] /\ l_regid'[q] = l_regid[q]
              /\ q \in overlapped' <=> q \in overlapped
         /\ \/ pc'[s] = "idle" /\ arg'[s] = NoTable
            \/ pc'[s] # "idle" /\ arg'[s] = arg[s] /\ overlapped' = overlapped
<1>0. TypeOK
  BY DEF BasicInv
<1>1. CASE Return(s)
  BY <1>0, <1>1 DEF Return, Goto, TypeOK
<1>2. CASE Continue(s)
  BY <1>0, <1>2 DEF Continue, Goto, TypeOK
<1>3. QED
  BY <1>1, <1>2, StepKinds

-----------------------------------------------------------------------------
(* Whose a registration id is *)

LEMMA OwnInit == Init => OwnInv
<1> SUFFICES ASSUME Init, NEW id \in RegId, NEW t \in Table PROVE ~Believed(id, t)
  BY DEF OwnInv
<1>1. id # NullId
  BY RegistrationAssumption DEF RegId, NullId, RegistrationAssumption
<1>2. QED
  BY <1>1 DEF Init, Believed, Claimed

\* Ownership holds while nobody takes an id for a table's who did not before,
\* the next id excepted: one step may claim it for one table.
LEMMA OwnPreserved ==
  ASSUME OwnInv, lastReg \in Nat, lastReg' \in Nat, NEW u \in Table,
         \/ lastReg' = lastReg
         \/ lastReg' = lastReg + 1,
         \A id \in RegId, t \in Table :
           /\ Claimed(id, t)' => Claimed(id, t) \/ (id = lastReg + 1 /\ lastReg' = id /\ t = u)
           /\ Believed(id, t)' => Believed(id, t) \/ (id = lastReg + 1 /\ lastReg' = id /\ t = u)
  PROVE  OwnInv'
<1> SUFFICES ASSUME NEW id \in RegId, NEW t \in Table, Believed(id, t)'
             PROVE  /\ id <= lastReg'
                    /\ \A v \in Table : Claimed(id, v)' => v = t
  BY DEF OwnInv
<1>1. id \in Nat
  BY RegistrationAssumption DEF RegId, RegistrationAssumption
<1>2. CASE Believed(id, t)
  <2>1. id <= lastReg /\ \A v \in Table : Claimed(id, v) => v = t
    BY <1>2 DEF OwnInv
  <2>2. id # lastReg + 1 /\ id <= lastReg'
    BY <1>1, <2>1
  <2>3. QED
    BY <2>1, <2>2
<1>3. CASE id = lastReg + 1 /\ lastReg' = id /\ t = u
  <2>1. \A v \in Table : ~Claimed(id, v)
    BY <1>1, <1>3 DEF OwnInv, Believed
  <2>2. QED
    BY <1>1, <1>3, <2>1
<1>4. QED
  BY <1>2, <1>3

\* The end of a call gives up what the call claimed.
LEMMA OwnReturn ==
  ASSUME BasicInv, OwnInv, NEW s \in Session, Step(s), Return(s),
         regs' = regs, lastReg' = lastReg,
         \A t \in Table : \/ regid'[t] \in {regid[t], NullId}
                          \/ Believed(regid'[t], t)
  PROVE  OwnInv'
<1>0. lastReg \in Nat /\ NullId \notin RegId /\ arg[s] \in Table
  BY Types, StepKinds DEF BasicInv
<1>1. pc'[s] = "idle" /\ \A q \in Session \ {s} :
        pc'[q] = pc[q] /\ arg'[q] = arg[q] /\ l_regid'[q] = l_regid[q]
  BY StepOthers DEF BasicInv, TypeOK, Return, Goto
<1>2. ASSUME NEW id \in RegId, NEW t \in Table
      PROVE  /\ Claimed(id, t)' => Claimed(id, t)
             /\ Believed(id, t)' => Believed(id, t)
  <2>1. Claimed(id, t)' => Claimed(id, t)
    BY <1>1 DEF Claimed
  <2>2. regid'[t] = id => Believed(id, t)
    BY <1>0 DEF Believed
  <2>3. (\E q \in Session : pc'[q] \in {"update", "drop"} /\ l_regid'[q] = id /\ arg'[q] = t)
          => Believed(id, t)
    BY <1>1 DEF Believed
  <2>4. QED
    BY <2>1, <2>2, <2>3 DEF Believed
<1>3. QED
  BY <1>0, <1>2, OwnPreserved

\* Another statement may write down what is believed, or claim the next id.
LEMMA OwnContinue ==
  ASSUME BasicInv, OwnInv, NEW s \in Session, Step(s), Continue(s),
         regid' = regid,
         \/ lastReg' = lastReg
         \/ lastReg' = lastReg + 1,
         \A id \in RegId, t \in Table :
           (\E r \in regs' : r.id = id /\ r.table = t) => Claimed(id, t),
         pc'[s] = "reg_end" =>
           Claimed(l_regid'[s], arg[s]) \/ (l_regid'[s] = lastReg + 1 /\ lastReg' = lastReg + 1),
         pc'[s] \in {"update", "drop"} =>
           l_regid'[s] = NullId \/ Believed(l_regid'[s], arg[s])
  PROVE  OwnInv'
<1>0. /\ lastReg \in Nat /\ lastReg' \in Nat
      /\ NullId \notin RegId /\ arg[s] \in Table /\ arg' = arg
  BY Types, StepKinds DEF BasicInv, Continue
<1>1. \A q \in Session \ {s} :
        pc'[q] = pc[q] /\ arg'[q] = arg[q] /\ l_regid'[q] = l_regid[q]
  BY StepOthers
<1>2. ASSUME NEW id \in RegId, NEW t \in Table
      PROVE  /\ Claimed(id, t)' =>
                  Claimed(id, t) \/ (id = lastReg + 1 /\ lastReg' = id /\ t = arg[s])
             /\ Believed(id, t)' =>
                  Believed(id, t) \/ (id = lastReg + 1 /\ lastReg' = id /\ t = arg[s])
  <2>1. ASSUME NEW q \in Session, pc'[q] = "reg_end", l_regid'[q] = id, arg'[q] = t
        PROVE  Claimed(id, t) \/ (id = lastReg + 1 /\ lastReg' = id /\ t = arg[s])
    <3>1. CASE q = s
      BY <1>0, <2>1, <3>1
    <3>2. CASE q # s
      BY <1>1, <2>1, <3>2 DEF Claimed
    <3>3. QED
      BY <3>1, <3>2
  <2>2. Claimed(id, t)' =>
          Claimed(id, t) \/ (id = lastReg + 1 /\ lastReg' = id /\ t = arg[s])
    BY <2>1 DEF Claimed
  <2>3. ASSUME NEW q \in Session, pc'[q] \in {"update", "drop"}, l_regid'[q] = id, arg'[q] = t
        PROVE  Believed(id, t)
    <3>1. CASE q = s
      BY <1>0, <2>3, <3>1
    <3>2. CASE q # s
      BY <1>1, <2>3, <3>2 DEF Believed
    <3>3. QED
      BY <3>1, <3>2
  <2>4. QED
    BY <2>2, <2>3 DEF Believed
<1>3. QED
  BY <1>0, <1>2, OwnPreserved

LEMMA NoNamesakes ==
  ASSUME DistinctNames, NEW t \in Table
  PROVE  SameName(t) = {t}
BY DEF DistinctNames, SameName

LEMMA OwnStep ==
  ASSUME DistinctNames, BasicInv, OwnInv, NEW s \in Session, Step(s)
  PROVE  OwnInv'
<1>0. /\ TypeOK /\ CallInv /\ lastReg \in Nat /\ NullId \notin RegId /\ arg[s] \in Table
      /\ \A r \in regs : r.id \in RegId /\ r.table \in Table
      /\ SameName(arg[s]) = {arg[s]}
  BY Types, StepKinds, NoNamesakes DEF BasicInv
<1>1. ASSUME NEW id \in RegId, NEW t \in Table, regs' \subseteq regs,
             \E r \in regs' : r.id = id /\ r.table = t
      PROVE  Claimed(id, t)
  BY <1>1 DEF Claimed
<1>2. CASE InsertEntry(s) \/ DeregisterLoop(s) \/ DropRegistration(s)
  <2>1. regs' \subseteq regs /\ lastReg' = lastReg /\ regid' = regid
    BY <1>2 DEF InsertEntry, DeregisterLoop, DropRegistration
  <2>2. pc'[s] \in {"deregister", "register", "cleanup"}
    BY <1>0, <1>2 DEF InsertEntry, DeregisterLoop, DropRegistration, Goto, TypeOK
  <2>3. Continue(s)
    BY <1>2, <2>2, StepKinds, <1>0 DEF Return, Goto, TypeOK
  <2>4. QED
    BY <1>1, <2>1, <2>2, <2>3, OwnContinue
<1>3. CASE \/ EntryGone(s) \/ FindFails(s) \/ DropFails(s) \/ Cleanup(s) \/ KeepEntry(s)
  <2>1. Return(s) /\ regs' = regs /\ lastReg' = lastReg
    BY <1>3 DEF EntryGone, FindFails, DropFails, Cleanup, KeepEntry, Raise
  <2>2. \A t \in Table : regid'[t] \in {regid[t], NullId}
    BY <1>3 DEF EntryGone, FindFails, DropFails, Cleanup, KeepEntry, Raise
  <2>3. QED
    BY <2>1, <2>2, OwnReturn
<1>4. CASE StoreRegid(s)
  <2>1. Return(s) /\ regs' = regs /\ lastReg' = lastReg
    BY <1>4 DEF StoreRegid
  <2>2. Believed(l_regid[s], arg[s])
    BY <1>4 DEF StoreRegid, Believed
  <2>3. \A t \in Table : regid'[t] = regid[t] \/ (t = arg[s] /\ regid'[t] = l_regid[s])
    BY <1>0, <1>4 DEF StoreRegid
  <2>4. QED
    BY <2>1, <2>2, <2>3, OwnReturn
<1>5. CASE QueryTable(s)
  <2>1. regs' = regs /\ lastReg' = lastReg + 1 /\ regid' = regid
    BY <1>5 DEF QueryTable
  <2>2. pc'[s] = "reg_end" /\ l_regid'[s] = lastReg + 1
    BY <1>0, <1>5 DEF QueryTable, Goto, TypeOK
  <2>3. Continue(s)
    BY <1>0, <2>2, StepKinds DEF Return, Goto, TypeOK
  <2>4. QED
    BY <1>1, <2>1, <2>2, <2>3, OwnContinue
<1>6. CASE QueryEmpty(s)
  <2>1. /\ lastReg' = lastReg + 1 /\ regid' = regid /\ Return(s)
        /\ regs' \subseteq regs \cup {[id |-> lastReg + 1, table |-> arg[s]]}
    BY <1>6 DEF QueryEmpty
  <2>2. pc'[s] = "idle" /\ \A q \in Session \ {s} :
          pc'[q] = pc[q] /\ arg'[q] = arg[q] /\ l_regid'[q] = l_regid[q]
    BY <1>0, <2>1, StepOthers DEF TypeOK, Return, Goto
  <2>3. ASSUME NEW id \in RegId, NEW t \in Table
        PROVE  /\ Claimed(id, t)' =>
                    Claimed(id, t) \/ (id = lastReg + 1 /\ lastReg' = id /\ t = arg[s])
               /\ Believed(id, t)' =>
                    Believed(id, t) \/ (id = lastReg + 1 /\ lastReg' = id /\ t = arg[s])
    <3>1. Claimed(id, t)' =>
            Claimed(id, t) \/ (id = lastReg + 1 /\ lastReg' = id /\ t = arg[s])
      BY <2>1, <2>2 DEF Claimed
    <3>2. (\E q \in Session : pc'[q] \in {"update", "drop"} /\ l_regid'[q] = id /\ arg'[q] = t)
            => Believed(id, t)
      BY <2>2 DEF Believed
    <3>3. QED
      BY <2>1, <3>1, <3>2 DEF Believed
  <2>4. QED
    BY <1>0, <2>1, <2>3, OwnPreserved
<1>7. CASE EndRegistration(s)
  <2>1. regid' = regid /\ lastReg' = lastReg /\ l_regid' = l_regid
        /\ regs' = regs \cup {[id |-> l_regid[s], table |-> arg[s]]}
    BY <1>7 DEF EndRegistration
  <2>2. Claimed(l_regid[s], arg[s])
    BY <1>7 DEF EndRegistration, Claimed
  <2>3. pc'[s] = "update"
    BY <1>0, <1>7 DEF EndRegistration, Goto, TypeOK
  <2>4. Continue(s)
    BY <1>0, <2>3, StepKinds DEF Return, Goto, TypeOK
  <2>5. \A id \in RegId, t \in Table :
          (\E r \in regs' : r.id = id /\ r.table = t) => Claimed(id, t)
    BY <2>1, <2>2 DEF Claimed
  <2>6. Believed(l_regid'[s], arg[s])
    BY <2>1, <2>2 DEF Believed
  <2>7. QED
    BY <2>1, <2>3, <2>4, <2>5, <2>6, OwnContinue
<1>8. CASE FindStored(s)
  <2>1. regs' = regs /\ regid' = regid /\ lastReg' = lastReg /\ l_regid'[s] = regid[arg[s]]
    BY <1>0, <1>8 DEF FindStored, TypeOK
  <2>2. pc'[s] = "drop"
    BY <1>0, <1>8 DEF FindStored, Goto, TypeOK
  <2>3. Continue(s)
    BY <1>0, <2>2, StepKinds DEF Return, Goto, TypeOK
  <2>4. Believed(l_regid'[s], arg[s])
    BY <2>1 DEF Believed
  <2>5. QED
    BY <1>1, <2>1, <2>2, <2>3, <2>4, OwnContinue
<1>9. CASE FindByTable(s)
  <2>1. regs' = regs /\ regid' = regid /\ lastReg' = lastReg
    BY <1>9 DEF FindByTable
  <2>2. l_regid'[s] = NullId \/ \E r \in regs : r.table = arg[s] /\ r.id = l_regid'[s]
    BY <1>0, <1>9 DEF FindByTable, IdsOf, TypeOK
  <2>3. pc'[s] = "drop"
    BY <1>0, <1>9 DEF FindByTable, Goto, TypeOK
  <2>4. Continue(s)
    BY <1>0, <2>3, StepKinds DEF Return, Goto, TypeOK
  <2>5. l_regid'[s] = NullId \/ Believed(l_regid'[s], arg[s])
    BY <2>2 DEF Believed, Claimed
  <2>6. QED
    BY <1>1, <2>1, <2>3, <2>4, <2>5, OwnContinue
<1>10. QED
  BY <1>2, <1>3, <1>4, <1>5, <1>6, <1>7, <1>8, <1>9 DEF Step

-----------------------------------------------------------------------------
(* What a call nobody overlaps achieves *)

\* A step of session s leaves the registrations and the entries of the other
\* tables alone.
LEMMA StepForeign ==
  ASSUME DistinctNames, BasicInv, OwnInv, NEW s \in Session, Step(s),
         NEW t \in Table, t # arg[s]
  PROVE  /\ RegsOf(t)' = RegsOf(t)
         /\ regid'[t] = regid[t]
         /\ t \in present' <=> t \in present
         /\ t \in intact' <=> t \in intact
<1>0. /\ TypeOK /\ CallInv /\ NullId \notin RegId /\ arg[s] \in Table
      /\ \A r \in regs : r.id \in RegId /\ r.table \in Table
      /\ SameName(arg[s]) = {arg[s]} /\ inserted[s] \in {NoTable, arg[s]}
  BY Types, StepKinds, NoNamesakes DEF BasicInv, CallInv
<1>1. /\ regid'[t] = regid[t]
      /\ t \in present' <=> t \in present
      /\ t \in intact' <=> t \in intact
  <2>1. CASE StoreRegid(s)
    BY <1>0, <2>1 DEF StoreRegid
  <2>2. CASE Cleanup(s)
    BY <1>0, <2>2 DEF Cleanup
  <2>3. CASE ~StoreRegid(s) /\ ~Cleanup(s)
    BY <2>3 DEF Step, InsertEntry, DeregisterLoop, EntryGone, QueryTable, QueryEmpty,
         EndRegistration, FindStored, FindByTable, FindFails,
         DropRegistration, DropFails, KeepEntry, Raise
  <2>4. QED
    BY <2>1, <2>2, <2>3
<1>2. ASSUME NEW r \in regs, r.table = t, NEW id, Believed(id, arg[s]) PROVE r.id # id
  <2>1. Claimed(r.id, t) /\ r.id \in RegId
    BY <1>0, <1>2 DEF Claimed
  <2>2. QED
    BY <1>0, <1>2, <2>1 DEF OwnInv
<1>3. RegsOf(t)' = RegsOf(t)
  <2>1. CASE DeregisterLoop(s)
    <3>1. Believed(regid[arg[s]], arg[s])
      BY DEF Believed
    <3>2. \A r \in regs : r.table = t => r.id # regid[arg[s]] /\ r.id # NullId
      BY <1>0, <1>2, <3>1
    <3>3. QED
      BY <2>1, <3>2 DEF DeregisterLoop, RegsOf
  <2>2. CASE DropRegistration(s)
    <3>1. Believed(l_regid[s], arg[s])
      BY <2>2 DEF DropRegistration, Believed
    <3>2. \A r \in regs : r.table = t => r.id # l_regid[s]
      BY <1>2, <3>1
    <3>3. QED
      BY <2>2, <3>2 DEF DropRegistration, RegsOf
  <2>3. CASE QueryEmpty(s)
    BY <2>3 DEF QueryEmpty, RegsOf
  <2>4. CASE EndRegistration(s)
    BY <2>4 DEF EndRegistration, RegsOf
  <2>5. CASE regs' = regs
    BY <2>5 DEF RegsOf
  <2>6. QED
    BY <2>1, <2>2, <2>3, <2>4, <2>5
    DEF Step, InsertEntry, EntryGone, QueryTable, StoreRegid, FindStored, FindByTable,
        FindFails, DropFails, Cleanup, KeepEntry, Raise
<1>4. QED
  BY <1>1, <1>3

LEMMA OverlapStep ==
  ASSUME BasicInv, OverlapInv, NEW s \in Session, Step(s)
  PROVE  OverlapInv'
<1> SUFFICES ASSUME NEW p \in Session, NEW q \in Session, p # q,
                    arg'[p] = arg'[q], arg'[p] # NoTable
             PROVE  p \in overlapped'
  BY DEF OverlapInv
<1>1. \A r \in Session : arg'[r] # NoTable => arg'[r] = arg[r]
  BY StepOthers
<1>2. p \in overlapped
  BY <1>1 DEF OverlapInv
<1>3. QED
  BY <1>2, StepOthers

LEMMA WorkStep ==
  ASSUME DistinctNames, BasicInv, OwnInv, OverlapInv, WorkInv, NEW s \in Session, Step(s)
  PROVE  WorkInv'
<1>0. /\ TypeOK /\ CallInv /\ CallInv' /\ TypeOK' /\ arg[s] \in Table
      /\ arg \in [Session -> Table \cup {NoTable}] /\ NoTable \notin Table
  BY Types, StepKinds, StepBasic DEF BasicInv
<1>1. ASSUME NEW q \in Session \ {s}, q \notin overlapped',
             pc'[q] \in {"register", "reg_end", "update"}
      PROVE  /\ Defined(q, arg[q])'
             /\ pc'[q] \in {"register", "reg_end"} => RegsOf(arg[q])' = {}
             /\ pc'[q] = "update" => RegsOf(arg[q])' = {[id |-> l_regid'[q], table |-> arg[q]]}
             /\ arg'[q] = arg[q]
  <2>1. q \notin overlapped /\ pc'[q] = pc[q] /\ arg'[q] = arg[q]
        /\ inserted'[q] = inserted[q] /\ l_regid'[q] = l_regid[q]
    BY <1>1, StepOthers
  <2>2. arg[q] \in Table /\ arg[q] # arg[s]
    BY <1>0, <1>1, <2>1, Argument DEF OverlapInv
  <2>3. RegsOf(arg[q])' = RegsOf(arg[q])
    <3>1. \A t \in Table : t # arg[s] => RegsOf(t)' = RegsOf(t)
      BY StepForeign
    <3>2. QED
      BY <2>2, <3>1, <2>1 DEF RegsOf
  <2>4. arg[q] \in present' <=> arg[q] \in present
    BY <2>2, StepForeign
  <2>5. Defined(q, arg[q]) => Defined(q, arg[q])'
    BY <2>1, <2>4 DEF Defined
  <2>6. QED
    BY <1>1, <2>1, <2>3, <2>5 DEF WorkInv
<1>2. ASSUME s \notin overlapped', pc'[s] \in {"register", "reg_end", "update"}
      PROVE  /\ Defined(s, arg[s])'
             /\ pc'[s] \in {"register", "reg_end"} => RegsOf(arg[s])' = {}
             /\ pc'[s] = "update" => RegsOf(arg[s])' = {[id |-> l_regid'[s], table |-> arg[s]]}
             /\ arg'[s] = arg[s]
  <2>0. arg' = arg /\ overlapped' = overlapped /\ arg'[s] = arg[s]
    <3>1. ~Return(s)
      BY <1>0, <1>2 DEF Return, Goto, TypeOK
    <3>2. QED
      BY <3>1, StepKinds DEF Continue
  <2>1. CASE DeregisterLoop(s)
    <3>1. pc'[s] = "register" /\ RegsOf(arg[s])' = {}
      BY <1>0, <2>0, <2>1 DEF DeregisterLoop, Goto, TypeOK, RegsOf
    <3>2. Defined(s, arg[s])'
      BY <2>0, <2>1 DEF DeregisterLoop, Defined
    <3>3. QED
      BY <2>0, <3>1, <3>2
  <2>2. CASE QueryTable(s)
    <3>1. pc[s] = "register" /\ pc'[s] = "reg_end" /\ regs' = regs
          /\ present' = present /\ inserted' = inserted
      BY <1>0, <2>2 DEF QueryTable, Goto, TypeOK
    <3>2. Defined(s, arg[s]) /\ RegsOf(arg[s]) = {}
      BY <1>2, <2>0, <3>1 DEF WorkInv
    <3>3. QED
      BY <2>0, <3>1, <3>2 DEF Defined, RegsOf
  <2>3. CASE EndRegistration(s)
    <3>1. pc[s] = "reg_end" /\ pc'[s] = "update" /\ l_regid' = l_regid
          /\ regs' = regs \cup {[id |-> l_regid[s], table |-> arg[s]]}
          /\ present' = present /\ inserted' = inserted
      BY <1>0, <2>3 DEF EndRegistration, Goto, TypeOK
    <3>2. Defined(s, arg[s]) /\ RegsOf(arg[s]) = {}
      BY <1>2, <2>0, <3>1 DEF WorkInv
    <3>3. RegsOf(arg[s])' = {[id |-> l_regid[s], table |-> arg[s]]}
      BY <2>0, <3>1, <3>2 DEF RegsOf
    <3>4. QED
      BY <2>0, <3>1, <3>2, <3>3 DEF Defined
  <2>4. CASE \/ InsertEntry(s) \/ FindStored(s) \/ FindByTable(s) \/ DropRegistration(s)
    BY <1>0, <1>2, <2>4
    DEF InsertEntry, FindStored, FindByTable, DropRegistration, Goto, TypeOK
  <2>5. ~Return(s)
    BY <1>0, <1>2 DEF Return, Goto, TypeOK
  <2>6. QED
    BY <2>1, <2>2, <2>3, <2>4, <2>5
    DEF Step, EntryGone, QueryEmpty, StoreRegid, FindFails, DropFails, Cleanup, KeepEntry, Raise
<1>3. ASSUME NEW q \in Session, q \notin overlapped'
      PROVE  /\ pc'[q] \in {"register", "reg_end", "update"} => Defined(q, arg[q])'
             /\ pc'[q] \in {"register", "reg_end"} => RegsOf(arg[q])' = {}
             /\ pc'[q] = "update" => RegsOf(arg[q])' = {[id |-> l_regid'[q], table |-> arg'[q]]}
  <2>1. CASE q = s
    BY <1>2, <1>3, <2>1 DEF Defined, RegsOf
  <2>2. CASE q # s
    BY <1>1, <1>3, <2>2 DEF Defined, RegsOf
  <2>3. QED
    BY <2>1, <2>2
<1>4. QED
  BY <1>3 DEF WorkInv

LEMMA CapturedStep ==
  ASSUME DistinctNames, Inv, NEW s \in Session, Step(s)
  PROVE  RegisteredIsCaptured'
<1>0. /\ TypeOK /\ TypeOK' /\ arg[s] \in Table
      /\ arg \in [Session -> Table \cup {NoTable}] /\ NoTable \notin Table
      /\ intact' \subseteq Table
  BY Types, StepKinds, StepBasic DEF Inv, BasicInv, TypeOK
<1> SUFFICES ASSUME NEW t \in intact', Idle(t)'
             PROVE  t \in present' /\ RegsOf(t)' = {[id |-> regid'[t], table |-> t]}
  BY DEF RegisteredIsCaptured, RegsOf
<1>1. t \in Table /\ SameName(t) = {t} /\ \A q \in Session : arg'[q] # t
  BY <1>0, NoNamesakes DEF Idle
<1>2. CASE t # arg[s]
  <2>1. /\ RegsOf(t)' = RegsOf(t) /\ regid'[t] = regid[t]
        /\ t \in present' <=> t \in present
        /\ t \in intact
    BY <1>1, <1>2, StepForeign DEF Inv
  <2>2. Idle(t)
    BY <1>1, <1>2, StepOthers DEF Idle, Inv
  <2>3. t \in present /\ RegsOf(t) = {[id |-> regid[t], table |-> t]}
    BY <2>1, <2>2 DEF Inv, RegisteredIsCaptured, RegsOf
  <2>4. QED
    BY <2>1, <2>3
<1>3. CASE t = arg[s]
  <2>1. Return(s)
    BY <1>0, <1>1, <1>3, StepKinds DEF Inv, Continue
  <2>2. CASE StoreRegid(s)
    <3>1. s \notin overlapped /\ pc[s] = "update"
      BY <1>3, <2>2 DEF StoreRegid
    <3>2. Defined(s, t) /\ RegsOf(t) = {[id |-> l_regid[s], table |-> t]}
      BY <1>3, <3>1 DEF Inv, WorkInv
    <3>3. t \in present'
      BY <1>0, <1>3, <2>2, <3>2 DEF StoreRegid, Defined
    <3>4. regid'[t] = l_regid[s] /\ regs' = regs
      BY <1>1, <1>3, <2>2, <3>3 DEF StoreRegid
    <3>5. QED
      BY <3>2, <3>3, <3>4 DEF RegsOf
  <2>3. CASE ~StoreRegid(s)
    <3>1. pc'[s] = "idle"
      BY <1>0, <2>1 DEF Return, Goto, TypeOK
    <3>2. t \notin intact'
      BY <1>0, <1>3, <2>3, <3>1
      DEF Step, InsertEntry, DeregisterLoop, EntryGone, QueryTable, QueryEmpty,
          EndRegistration, FindStored, FindByTable, FindFails, DropRegistration,
          DropFails, Cleanup, KeepEntry, Raise, Goto, TypeOK
    <3>3. QED
      BY <3>2
  <2>4. QED
    BY <2>2, <2>3
<1>4. QED
  BY <1>2, <1>3

-----------------------------------------------------------------------------
(* The invariant *)

LEMMA InvInit == Init => Inv
<1> SUFFICES ASSUME Init PROVE Inv
  OBVIOUS
<1>1. BasicInv /\ OwnInv
  BY InitBasic, OwnInit
<1>2. OverlapInv /\ WorkInv /\ RegisteredIsCaptured
  BY DEF Init, OverlapInv, WorkInv, RegisteredIsCaptured
<1>3. QED
  BY <1>1, <1>2 DEF Inv

\* The applications' rows and the form's entries change no registration.
LEMMA OutsideStep ==
  ASSUME Inv, BasicInv', NEW t \in Table, FillOrEmpty(t) \/ AddEntry(t)
  PROVE  Inv'
<1>1. /\ present \subseteq present'
      /\ UNCHANGED <<regid, regs, lastReg, pc, arg, inserted, l_regid, overlapped, intact>>
  BY DEF FillOrEmpty, AddEntry
<1>2. OwnInv'
  BY <1>1 DEF Inv, OwnInv, Believed, Claimed
<1>3. OverlapInv'
  BY <1>1 DEF Inv, OverlapInv
<1>4. WorkInv'
  BY <1>1 DEF Inv, WorkInv, Defined, RegsOf
<1>5. RegisteredIsCaptured'
  BY <1>1 DEF Inv, RegisteredIsCaptured, Idle
<1>6. QED
  BY <1>2, <1>3, <1>4, <1>5 DEF Inv

\* A new call makes itself known to those on its table.
LEMMA CallStep ==
  ASSUME Inv, BasicInv', NEW s \in Session, NEW t \in Table,
         CallRegister(s, t) \/ CallDeregister(s, t)
  PROVE  Inv'
<1>0. /\ TypeOK /\ CallInv /\ TypeOK' /\ lastReg \in Nat /\ t # NoTable
      /\ NoTable \notin Table
  BY Types DEF Inv, BasicInv
<1>1. PICK label \in {"insert", "lookup"} : Call(s, t, label)
  BY DEF CallRegister, CallDeregister
<1>2. /\ pc[s] = "idle" /\ arg[s] = NoTable
      /\ pc'[s] \in {"insert", "lookup"} /\ arg'[s] = t
      /\ \A q \in Session \ {s} : pc'[q] = pc[q] /\ arg'[q] = arg[q]
      /\ UNCHANGED <<empty, present, regid, regs, lastReg, inserted, l_regid, intact>>
      /\ overlapped \subseteq overlapped'
  BY <1>0, <1>1 DEF Call, Goto, TypeOK, CallInv
<1>3. OwnInv'
  <2>1. ASSUME NEW id \in RegId, NEW u \in Table
        PROVE  /\ Claimed(id, u)' => Claimed(id, u)
               /\ Believed(id, u)' => Believed(id, u)
    <3>1. Claimed(id, u)' => Claimed(id, u)
      BY <1>2 DEF Claimed
    <3>2. (\E q \in Session : pc'[q] \in {"update", "drop"} /\ l_regid'[q] = id /\ arg'[q] = u)
            => Believed(id, u)
      BY <1>2 DEF Believed
    <3>3. QED
      BY <1>2, <3>1, <3>2 DEF Believed
  <2>2. QED
    BY <1>0, <1>2, <2>1, OwnPreserved DEF Inv
<1>4. OverlapInv'
  <2>1. ASSUME NEW q \in Session \ {s}, arg[q] = t
        PROVE  q \in overlapped' /\ s \in overlapped'
    BY <1>1, <2>1 DEF Call
  <2>2. QED
    BY <1>2, <2>1 DEF Inv, OverlapInv
<1>5. WorkInv'
  <2>1. ASSUME NEW q \in Session, q \notin overlapped'
        PROVE  /\ pc'[q] \in {"register", "reg_end", "update"} => Defined(q, arg[q])'
               /\ pc'[q] \in {"register", "reg_end"} => RegsOf(arg[q])' = {}
               /\ pc'[q] = "update" =>
                    RegsOf(arg[q])' = {[id |-> l_regid'[q], table |-> arg'[q]]}
    <3>1. CASE q = s
      BY <1>2, <3>1
    <3>2. CASE q # s
      BY <1>2, <2>1, <3>2 DEF Inv, WorkInv, Defined, RegsOf
    <3>3. QED
      BY <3>1, <3>2
  <2>2. QED
    BY <2>1 DEF WorkInv
<1>6. RegisteredIsCaptured'
  <2>1. ASSUME NEW u \in Table, Idle(u)' PROVE Idle(u)
    BY <1>0, <1>2, <2>1 DEF Idle, SameName
  <2>2. QED
    BY <1>0, <1>2, <2>1 DEF Inv, RegisteredIsCaptured, TypeOK
<1>7. QED
  BY <1>3, <1>4, <1>5, <1>6 DEF Inv

LEMMA InvInductive ==
  ASSUME DistinctNames
  PROVE  Inv /\ [Next]_vars => Inv'
<1> SUFFICES ASSUME Inv, [Next]_vars PROVE Inv'
  OBVIOUS
<1>0. BasicInv'
  BY BasicInductive DEF Inv
<1>1. ASSUME NEW t \in Table, FillOrEmpty(t) \/ AddEntry(t) PROVE Inv'
  BY <1>0, <1>1, OutsideStep
<1>2. ASSUME NEW s \in Session, NEW t \in Table, CallRegister(s, t) \/ CallDeregister(s, t)
      PROVE  Inv'
  BY <1>0, <1>2, CallStep
<1>3. ASSUME NEW s \in Session, Step(s) PROVE Inv'
  <2>1. OwnInv' /\ OverlapInv' /\ WorkInv' /\ RegisteredIsCaptured'
    BY <1>3, OwnStep, OverlapStep, WorkStep, CapturedStep DEF Inv
  <2>2. QED
    BY <1>0, <2>1 DEF Inv
<1>4. CASE UNCHANGED vars
  <2>1. OwnInv' /\ OverlapInv'
    BY <1>4 DEF vars, Inv, OwnInv, OverlapInv, Believed, Claimed
  <2>2. WorkInv' /\ RegisteredIsCaptured'
    BY <1>4 DEF vars, Inv, WorkInv, RegisteredIsCaptured, Defined, RegsOf, Idle
  <2>3. QED
    BY <1>0, <2>1, <2>2 DEF Inv
<1>5. QED
  BY <1>1, <1>2, <1>3, <1>4 DEF Next

LEMMA InvInvariance ==
  ASSUME DistinctNames
  PROVE  Spec => []Inv
BY InvInit, InvInductive, PTL DEF Spec

\* Where no two tables have one name, a table whose last call registered it,
\* overlapped by no other call about it, has its entry and exactly one
\* registration, the one the entry names: whatever calls failed, found the
\* table empty, skipped the cleanup or worked on other tables meanwhile.
THEOREM RegisteredIsCapturedHolds ==
  ASSUME DistinctNames
  PROVE  Spec => []RegisteredIsCaptured
<1>1. Inv => RegisteredIsCaptured
  BY DEF Inv
<1>2. QED
  BY <1>1, InvInvariance, PTL

\* Where no two tables have one name, the id in a table's entry is never that
\* of another table's registration: dropping by id hits no other table.
THEOREM RegidIsOwnHolds ==
  ASSUME DistinctNames
  PROVE  Spec => []RegidIsOwn
<1>1. Inv => RegidIsOwn
  <2> SUFFICES ASSUME Inv, NEW t \in present, NEW r \in regs, r.id = regid[t]
               PROVE  r.table = t
    BY DEF RegidIsOwn
  <2>1. t \in Table /\ r.id \in RegId /\ r.table \in Table
    BY Types DEF Inv, BasicInv
  <2>2. Believed(r.id, t) /\ Claimed(r.id, r.table)
    BY DEF Believed, Claimed
  <2>3. QED
    BY <2>1, <2>2 DEF Inv, OwnInv
<1>2. QED
  BY <1>1, InvInvariance, PTL
=============================================================================
