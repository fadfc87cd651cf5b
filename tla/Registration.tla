---------------------------- MODULE Registration ----------------------------
(***************************************************************************)
(* register_table, change_registration and deregister_table of package     *)
(* az_change_notifications: which tables have an entry in oqf_tables, and  *)
(* which have a change notification registration.                          *)
(*                                                                         *)
(* Several administrators may call them at a time. An entry inserted by a  *)
(* call is invisible to the others, and holds its primary key, until the   *)
(* call commits; registering and deregistering take effect at once,        *)
(* whatever becomes of the transaction (they are Oracle's). A registration *)
(* is made for the objects of a query run between new_reg_start and        *)
(* reg_end; the query raises no_data_found when the table is empty, and    *)
(* then nothing says whether the open registration survives.               *)
(***************************************************************************)
EXTENDS Naturals, FiniteSets

CONSTANTS
  Table,    \* the tables: records [owner, name]
  Session,  \* the sessions calling the package
  MaxRegs,  \* bound: registrations ever made
  NoTable   \* no uncommitted entry

ASSUME RegistrationAssumption ==
  /\ MaxRegs \in Nat
  /\ NoTable \notin Table

NullId == 0
RegId == 1..MaxRegs

VARIABLES
  empty,     \* the tables without rows
  present,   \* the tables with a committed entry in oqf_tables
  regid,     \* Table -> regid of its entry
  regs,      \* the registrations: records [id, table]
  lastReg,   \* the last registration id handed out
  pc,        \* Session -> the next statement of its call
  arg,       \* Session -> the table the call is about
  inserted,  \* Session -> its uncommitted entry
  l_regid,   \* Session -> the registration id the call works with
  overlapped, \* history: the sessions whose call overlapped another about its table
  intact     \* history: tables whose last call registered them without overlap

vars == <<empty, present, regid, regs, lastReg, pc, arg, inserted, l_regid,
          overlapped, intact>>

TypeOK ==
  /\ empty \subseteq Table
  /\ present \subseteq Table
  /\ regid \in [Table -> RegId \cup {NullId}]
  /\ regs \subseteq [id : RegId, table : Table]
  /\ lastReg \in 0..MaxRegs
  /\ pc \in [Session -> {"idle", "insert", "deregister", "register", "reg_end",
                         "update", "lookup", "drop", "cleanup"}]
  /\ arg \in [Session -> Table \cup {NoTable}]
  /\ inserted \in [Session -> Table \cup {NoTable}]
  /\ l_regid \in [Session -> RegId \cup {NullId}]
  /\ overlapped \subseteq Session
  /\ intact \subseteq Table

Init ==
  /\ empty \in SUBSET Table
  /\ present = {}
  /\ regid = [t \in Table |-> NullId]
  /\ regs = {}
  /\ lastReg = 0
  /\ pc = [s \in Session |-> "idle"]
  /\ arg = [s \in Session |-> NoTable]
  /\ inserted = [s \in Session |-> NoTable]
  /\ l_regid = [s \in Session |-> NullId]
  /\ overlapped = {}
  /\ intact = {}

Goto(s, label) == pc' = [pc EXCEPT ![s] = label]

SameName(t) == {u \in Table : u.name = t.name}

\* The entry of t as session s sees it.
Defined(s, t) == t \in present \/ inserted[s] = t

\* The call ends, with its entry committed or rolled back.
Return(s) ==
  /\ Goto(s, "idle")
  /\ arg' = [arg EXCEPT ![s] = NoTable]
  /\ inserted' = [inserted EXCEPT ![s] = NoTable]
  /\ l_regid' = [l_regid EXCEPT ![s] = NullId]
  /\ overlapped' = overlapped \ {s}

\* The call raises and its transaction is rolled back.
Raise(s) ==
  /\ Return(s)
  /\ intact' = intact \ {arg[s]}
  /\ UNCHANGED <<empty, present, regid, lastReg>>

-----------------------------------------------------------------------------
\* The applications fill or empty a table.
FillOrEmpty(t) ==
  /\ empty' = IF t \in empty THEN empty \ {t} ELSE empty \cup {t}
  /\ UNCHANGED <<present, regid, regs, lastReg, pc, arg, inserted, l_regid, overlapped, intact>>

\* The Edit Table form adds an entry of its own, without a regid.
AddEntry(t) ==
  /\ t \notin present /\ \A q \in Session : inserted[q] # t
  /\ present' = present \cup {t}
  /\ UNCHANGED <<empty, regid, regs, lastReg, pc, arg, inserted, l_regid, overlapped, intact>>

\* A session calls the package, possibly while another works on the same table.
Call(s, t, label) ==
  LET others == {q \in Session : arg[q] = t} IN
  /\ pc[s] = "idle"
  /\ Goto(s, label)
  /\ arg' = [arg EXCEPT ![s] = t]
  /\ overlapped' = IF others = {} THEN overlapped ELSE overlapped \cup others \cup {s}
  /\ UNCHANGED <<empty, present, regid, regs, lastReg, inserted, l_regid, intact>>

CallRegister(s, t) == Call(s, t, "insert")
CallDeregister(s, t) == Call(s, t, "lookup")

\* register_table inserts the entry, unless it is present; another session's
\* uncommitted insert of it is waited for.
InsertEntry(s) ==
  /\ pc[s] = "insert"
  /\ \A q \in Session : inserted[q] # arg[s]
  /\ inserted' = [inserted EXCEPT ![s] = IF arg[s] \in present THEN NoTable ELSE arg[s]]
  /\ Goto(s, "deregister")
  /\ UNCHANGED <<empty, present, regid, regs, lastReg, arg, l_regid, overlapped, intact>>

\* Mutant of DeregisterLoop: only the registration named by the entry is dropped.
DeregisterById(s) ==
  /\ pc[s] = "deregister" /\ Defined(s, arg[s])
  /\ regs' = {r \in regs : inserted[s] = arg[s] \/ r.id # regid[arg[s]]}
  /\ Goto(s, "register")
  /\ UNCHANGED <<empty, present, regid, lastReg, arg, inserted, l_regid, overlapped, intact>>

\* change_registration reads the entry and drops the registration with its
\* regid and those of the table.
DeregisterLoop(s) ==
  /\ pc[s] = "deregister" /\ Defined(s, arg[s])
  /\ LET own == IF inserted[s] = arg[s] THEN NullId ELSE regid[arg[s]]
     IN  regs' = {r \in regs : r.id # own /\ r.table # arg[s]}
  /\ Goto(s, "register")
  /\ UNCHANGED <<empty, present, regid, lastReg, arg, inserted, l_regid, overlapped, intact>>

\* The entry is gone: get_table raises.
EntryGone(s) ==
  /\ pc[s] = "deregister" /\ ~Defined(s, arg[s])
  /\ Raise(s)
  /\ UNCHANGED regs

\* A registration is started and the table queried in it.
QueryTable(s) ==
  /\ pc[s] = "register" /\ lastReg < MaxRegs
  /\ arg[s] \notin empty
  /\ lastReg' = lastReg + 1
  /\ l_regid' = [l_regid EXCEPT ![s] = lastReg + 1]
  /\ Goto(s, "reg_end")
  /\ UNCHANGED <<empty, present, regid, regs, arg, inserted, overlapped, intact>>

\* The table is empty: no_data_found leaves the registration open.
QueryEmpty(s) ==
  /\ pc[s] = "register" /\ lastReg < MaxRegs
  /\ arg[s] \in empty
  /\ lastReg' = lastReg + 1
  /\ regs' \in {regs, regs \cup {[id |-> lastReg + 1, table |-> arg[s]]}}
  /\ Return(s)
  /\ intact' = intact \ {arg[s]}
  /\ UNCHANGED <<empty, present, regid>>

\* Mutant of EndRegistration: the registration is known by the old regid.
EndWithOldId(s) ==
  /\ pc[s] = "reg_end"
  /\ regs' = regs \cup {[id |-> regid[arg[s]], table |-> arg[s]]}
  /\ Goto(s, "update")
  /\ UNCHANGED <<empty, present, regid, lastReg, arg, inserted, l_regid, overlapped, intact>>

\* The table has rows: the registration is made.
EndRegistration(s) ==
  /\ pc[s] = "reg_end"
  /\ regs' = regs \cup {[id |-> l_regid[s], table |-> arg[s]]}
  /\ Goto(s, "update")
  /\ UNCHANGED <<empty, present, regid, lastReg, arg, inserted, l_regid, overlapped, intact>>

\* Mutant of StoreRegid: the update has no condition at all.
StoreRegidEverywhere(s) ==
  /\ pc[s] = "update"
  /\ present' = present \cup ({inserted[s]} \ {NoTable})
  /\ regid' = [t \in Table |-> IF t \in present' THEN l_regid[s] ELSE regid[t]]
  /\ intact' = IF s \in overlapped THEN intact \ {arg[s]} ELSE intact \cup {arg[s]}
  /\ Return(s)
  /\ UNCHANGED <<empty, regs, lastReg>>

\* The new id is stored in every entry with the table's name, and committed
\* together with the entry.
StoreRegid(s) ==
  /\ pc[s] = "update"
  /\ present' = present \cup ({inserted[s]} \ {NoTable})
  /\ regid' = [t \in Table |->
       IF t \in SameName(arg[s]) \cap present' THEN l_regid[s] ELSE regid[t]]
  /\ intact' = IF s \in overlapped THEN intact \ {arg[s]} ELSE intact \cup {arg[s]}
  /\ Return(s)
  /\ UNCHANGED <<empty, regs, lastReg>>

-----------------------------------------------------------------------------
\* deregister_table reads the entry and takes its regid.
FindStored(s) ==
  /\ pc[s] = "lookup" /\ arg[s] \in present /\ regid[arg[s]] # NullId
  /\ l_regid' = [l_regid EXCEPT ![s] = regid[arg[s]]]
  /\ Goto(s, "drop")
  /\ UNCHANGED <<empty, present, regid, regs, lastReg, arg, inserted, overlapped, intact>>

IdsOf(t) == {r.id : r \in {q \in regs : q.table = t}}

\* An entry without a regid: the registration is looked up by table.
FindByTable(s) ==
  /\ pc[s] = "lookup" /\ arg[s] \in present /\ regid[arg[s]] = NullId
  /\ Cardinality(IdsOf(arg[s])) <= 1
  /\ \E id \in IF IdsOf(arg[s]) = {} THEN {NullId} ELSE IdsOf(arg[s]) :
       l_regid' = [l_regid EXCEPT ![s] = id]
  /\ Goto(s, "drop")
  /\ UNCHANGED <<empty, present, regid, regs, lastReg, arg, inserted, overlapped, intact>>

\* get_table raises for a missing entry, and too_many_rows is raised again.
FindFails(s) ==
  /\ pc[s] = "lookup"
  /\ \/ arg[s] \notin present
     \/ regid[arg[s]] = NullId /\ Cardinality(IdsOf(arg[s])) > 1
  /\ Raise(s)
  /\ UNCHANGED regs

DropRegistration(s) ==
  /\ pc[s] = "drop"
  /\ l_regid[s] = NullId \/ \E r \in regs : r.id = l_regid[s]
  /\ regs' = {r \in regs : r.id # l_regid[s]}
  /\ Goto(s, "cleanup")
  /\ UNCHANGED <<empty, present, regid, lastReg, arg, inserted, l_regid, overlapped, intact>>

\* DEREGISTER raises for an id that is not registered.
DropFails(s) ==
  /\ pc[s] = "drop"
  /\ l_regid[s] # NullId /\ \A r \in regs : r.id # l_regid[s]
  /\ Raise(s)
  /\ UNCHANGED regs

\* p_cleanup: the entries with the table's name are deleted and committed.
Cleanup(s) ==
  /\ pc[s] = "cleanup"
  /\ present' = present \ SameName(arg[s])
  /\ regid' = [t \in Table |-> IF t \in SameName(arg[s]) THEN NullId ELSE regid[t]]
  /\ intact' = intact \ {arg[s]}
  /\ Return(s)
  /\ UNCHANGED <<empty, regs, lastReg>>

\* Without p_cleanup the entry keeps its regid.
KeepEntry(s) ==
  /\ pc[s] = "cleanup"
  /\ intact' = intact \ {arg[s]}
  /\ Return(s)
  /\ UNCHANGED <<empty, present, regid, regs, lastReg>>

Step(s) ==
  \/ InsertEntry(s) \/ DeregisterLoop(s) \/ EntryGone(s)
  \/ QueryTable(s) \/ QueryEmpty(s) \/ EndRegistration(s) \/ StoreRegid(s)
  \/ FindStored(s) \/ FindByTable(s) \/ FindFails(s) \/ DropRegistration(s) \/ DropFails(s)
  \/ Cleanup(s) \/ KeepEntry(s)

Next ==
  \/ \E t \in Table : FillOrEmpty(t) \/ AddEntry(t)
  \/ \E s \in Session, t \in Table : CallRegister(s, t) \/ CallDeregister(s, t)
  \/ \E s \in Session : Step(s)

Spec == Init /\ [][Next]_vars

-----------------------------------------------------------------------------
(* Properties *)

Idle(t) == \A s \in Session : arg[s] \notin SameName(t)

\* A table whose last call registered it successfully has its entry and exactly
\* one live registration, the one the entry names, whatever calls failed, found
\* the table empty or skipped the cleanup before. Only calls about one table
\* that overlap are excepted: they may delete the entry under the registration.
RegisteredIsCaptured ==
  \A t \in intact :
    Idle(t) => /\ t \in present
               /\ {r \in regs : r.table = t} = {[id |-> regid[t], table |-> t]}

\* Registration ids are stored with the table they were made for: the id in
\* an entry is never that of another table's registration.
RegidIsOwn ==
  \A t \in present, r \in regs : r.id = regid[t] => r.table = t
=============================================================================
