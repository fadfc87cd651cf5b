--------------------------- MODULE EntraTokenProofs ---------------------------
(***************************************************************************)
(* The concurrent calls of entraAuthenticationToken keep the cached token  *)
(* consistent, never post without a token, and make a bounded number of    *)
(* requests, for any number of messages and any clock.                     *)
(***************************************************************************)
EXTENDS EntraToken, TLAPS

\* A token entry that may be cached: without a token it has expired, otherwise
\* it expires with its token or up to MaxLatency later.
Consistent(etok) ==
  \/ etok.payload = NoToken /\ etok.expires <= now
  \/ /\ etok.payload \in Int
     /\ etok.payload <= etok.expires
     /\ etok.expires <= etok.payload + MaxLatency

\* The answer of message m has travelled no longer than MaxLatency.
Recent(m) == since[m] <= now /\ now <= since[m] + MaxLatency

CallInv(m) ==
  /\ pc[m] = "insert" => l_etok[m].payload = NoToken /\ l_etok[m].expires <= now
  /\ pc[m] = "check" => Consistent(l_etok[m])
  /\ pc[m] = "parse" =>
       /\ Recent(m) /\ lifetime[m] \in Lifetimes
       /\ l_etok[m].payload = since[m] + lifetime[m]
  /\ pc[m] = "update" =>
       /\ Recent(m) /\ lifetime[m] \in Lifetimes
       /\ l_etok[m].payload = since[m] + lifetime[m]
       /\ l_etok[m].payload <= l_etok[m].expires
       /\ l_etok[m].expires <= l_etok[m].payload + MaxLatency
  /\ pc[m] = "post" =>
       /\ Recent(m)
       /\ l_etok[m].payload \in Int
       /\ since[m] < l_etok[m].payload + MaxLatency

CountInv(m) ==
  /\ pc[m] \in {"select", "insert", "check"} => attempts[m] = 0
  /\ pc[m] = "request" => attempts[m] < MaxAttempts
  /\ pc[m] \notin {"sent", "exception"} => failures[m] <= MaxRetries

\* Whoever has got past the row, or lost the race for it, has seen it, and it
\* stays; a call that has failed before it read the row may be set aside without.
RaceInv ==
  /\ row = NoRow =>
       \A m \in Message : pc[m] \in {"select", "insert", "exception"} /\ lost[m] = 0
  /\ \A m \in Message : lost[m] <= 1 /\ (pc[m] = "insert" => lost[m] = 0)

TokenInv == TypeOK /\ (row # NoRow => Consistent(row)) /\ \A m \in Message : CallInv(m)

-----------------------------------------------------------------------------
LEMMA Constants ==
  /\ MaxAttempts \in Nat /\ MaxAttempts >= 1
  /\ MaxRetries \in Nat /\ MaxLatency \in Nat /\ MaxTime \in Nat
  /\ NoToken \notin Int
  /\ \A life \in Lifetimes : life \in Nat /\ life >= 1
BY TokenAssumption DEF TokenAssumption

\* An entry is never the missing row: its expiry is a time.
LEMMA EtokIsRow == \A etok \in Etok : etok # NoRow
BY Constants DEF Etok, NoRow

LEMMA TokenInit == Init => TokenInv /\ (\A m \in Message : CountInv(m)) /\ RaceInv
<1>1. SUFFICES ASSUME Init
               PROVE  TokenInv /\ (\A m \in Message : CountInv(m)) /\ RaceInv
  OBVIOUS
<1>2. Unset \in Etok
  BY DEF Unset, Etok
<1>3. TypeOK
  BY <1>1, <1>2, Constants DEF Init, TypeOK, Label
<1>4. (row # NoRow => Consistent(row)) /\ \A m \in Message : CallInv(m)
  BY <1>1 DEF Init, CallInv
<1>5. (\A m \in Message : CountInv(m)) /\ RaceInv
  BY <1>1, Constants DEF Init, CountInv, RaceInv
<1>6. QED
  BY <1>3, <1>4, <1>5 DEF TokenInv

Inv == TokenInv /\ (\A m \in Message : CountInv(m)) /\ RaceInv

\* A call that raises forgets its variables: what is left of it is the row it
\* may have written and one failure more.
LEMMA FailKeeps ==
  ASSUME Inv, NEW m \in Message, Fail(m),
         pc[m] \notin {"sent", "exception"},
         now' = now, row' = row, requests' \in [Message -> Nat],
         \/ lost' = lost
         \/ /\ pc[m] = "insert" /\ row # NoRow
            /\ lost' = [lost EXCEPT ![m] = @ + 1]
  PROVE  Inv'
<1>1. Unset \in Etok
  BY DEF Unset, Etok
<1>2. /\ pc' = [pc EXCEPT ![m] = IF failures[m] < MaxRetries THEN "select" ELSE "exception"]
      /\ failures' = [failures EXCEPT ![m] = @ + 1]
      /\ attempts' = [attempts EXCEPT ![m] = 0]
      /\ l_etok' = [l_etok EXCEPT ![m] = Unset]
      /\ lifetime' = [lifetime EXCEPT ![m] = 0]
      /\ since' = [since EXCEPT ![m] = 0]
  BY DEF Fail, Leave, Goto
<1>3. TypeOK /\ CountInv(m) /\ failures[m] <= MaxRetries
  BY DEF Inv, TokenInv, CountInv
<1>4. TypeOK'
  BY <1>1, <1>2, <1>3, Constants DEF TypeOK, Label
<1>5. (row # NoRow => Consistent(row))'
  BY DEF Inv, TokenInv, Consistent
<1>6. ASSUME NEW n \in Message PROVE CallInv(n)' /\ CountInv(n)'
  <2>1. CASE n = m
    BY <1>2, <1>3, <2>1, Constants DEF TypeOK, CallInv, CountInv
  <2>2. CASE n # m
    BY <1>2, <1>3, <2>2 DEF Inv, TokenInv, TypeOK, CallInv, CountInv, Consistent, Recent
  <2>3. QED
    BY <2>1, <2>2
<1>7. RaceInv'
  <2>1. /\ \A n \in Message : n # m => pc'[n] = pc[n]
        /\ pc'[m] \in {"select", "exception"}
    BY <1>2, <1>3 DEF TypeOK
  <2>2. CASE lost' = lost
    BY <2>1, <2>2 DEF Inv, RaceInv
  <2>3. CASE /\ pc[m] = "insert" /\ row # NoRow
             /\ lost' = [lost EXCEPT ![m] = @ + 1]
    <3>1. lost[m] = 0
      BY <2>3 DEF Inv, RaceInv
    <3>2. lost'[m] = 1 /\ \A n \in Message : n # m => lost'[n] = lost[n]
      BY <1>3, <2>3, <3>1 DEF TypeOK
    <3>3. QED
      BY <2>1, <2>3, <3>2 DEF Inv, RaceInv
  <2>4. QED
    BY <2>2, <2>3
<1>8. QED
  BY <1>4, <1>5, <1>6, <1>7 DEF Inv, TokenInv

\* While a call requests, holds or posts a token, the row exists.
LEMMA RowExists ==
  ASSUME Inv, NEW m \in Message, pc[m] \notin {"select", "insert", "exception"}
  PROVE  row # NoRow
BY DEF Inv, RaceInv

\* The steps of a call up to the check of its copy of the row.
LEMMA LookupKeeps ==
  ASSUME Inv, NEW m \in Message,
         SelectToken(m) \/ SelectNone(m) \/ InsertRow(m) \/ UseCached(m) \/ StartRefresh(m)
  PROVE  Inv'
<1> USE DEF Goto
<1>1. TypeOK /\ CallInv(m) /\ CountInv(m)
  BY DEF Inv, TokenInv
<1>2. CASE SelectToken(m)
  <2>1. row \in Etok /\ Consistent(row)
    BY <1>1, <1>2 DEF SelectToken, Inv, TokenInv, TypeOK
  <2>2. TypeOK'
    BY <1>1, <1>2, <2>1 DEF SelectToken, TypeOK, Label
  <2>3. \A n \in Message : CallInv(n)'
    BY <1>1, <1>2, <2>1 DEF SelectToken, Inv, TokenInv, TypeOK, CallInv, Consistent, Recent
  <2>4. (row # NoRow => Consistent(row))' /\ (\A n \in Message : CountInv(n)') /\ RaceInv'
    BY <1>1, <1>2, <2>1 DEF SelectToken, Inv, TokenInv, TypeOK, CountInv, RaceInv, Consistent
  <2>5. QED
    BY <2>2, <2>3, <2>4 DEF Inv, TokenInv
<1>3. CASE SelectNone(m)
  <2>1. now \in Nat
    BY <1>1, Constants DEF TypeOK
  <2>2. TypeOK'
    BY <1>1, <1>3, <2>1 DEF SelectNone, TypeOK, Label, Etok
  <2>3. \A n \in Message : CallInv(n)'
    BY <1>1, <1>3, <2>1 DEF SelectNone, Inv, TokenInv, TypeOK, CallInv, Consistent, Recent
  <2>4. (row # NoRow => Consistent(row))' /\ (\A n \in Message : CountInv(n)') /\ RaceInv'
    BY <1>1, <1>3 DEF SelectNone, Inv, TokenInv, TypeOK, CountInv, RaceInv, Consistent
  <2>5. QED
    BY <2>2, <2>3, <2>4 DEF Inv, TokenInv
<1>4. CASE InsertRow(m)
  <2>1. l_etok[m] \in Etok /\ Consistent(l_etok[m]) /\ l_etok[m] # NoRow
    BY <1>1, <1>4, EtokIsRow DEF InsertRow, TypeOK, CallInv, Consistent
  <2>2. TypeOK'
    BY <1>1, <1>4, <2>1 DEF InsertRow, TypeOK, Label
  <2>3. (row # NoRow => Consistent(row))' /\ \A n \in Message : CallInv(n)'
    BY <1>1, <1>4, <2>1 DEF InsertRow, Inv, TokenInv, TypeOK, CallInv, Consistent, Recent
  <2>4. (\A n \in Message : CountInv(n)') /\ RaceInv'
    BY <1>1, <1>4, <2>1 DEF InsertRow, Inv, TokenInv, TypeOK, CountInv, RaceInv
  <2>5. QED
    BY <2>2, <2>3, <2>4 DEF Inv, TokenInv
<1>5. CASE UseCached(m)
  <2>1. row # NoRow
    BY <1>5, RowExists DEF UseCached
  <2>2. /\ now \in Nat /\ now \in 0..MaxTime /\ l_etok[m].expires \in Int
        /\ l_etok[m].payload \in Int /\ now < l_etok[m].payload + MaxLatency
    BY <1>1, <1>5, Constants DEF UseCached, Expired, TypeOK, Etok, CallInv, Consistent
  <2>3. TypeOK'
    BY <1>1, <1>5, <2>2 DEF UseCached, TypeOK, Label
  <2>4. (row # NoRow => Consistent(row))' /\ \A n \in Message : CallInv(n)'
    BY <1>1, <1>5, <2>2, Constants DEF UseCached, Inv, TokenInv, TypeOK, CallInv, Consistent, Recent
  <2>5. (\A n \in Message : CountInv(n)') /\ RaceInv'
    BY <1>1, <1>5, <2>1 DEF UseCached, Inv, TokenInv, TypeOK, CountInv, RaceInv
  <2>6. QED
    BY <2>3, <2>4, <2>5 DEF Inv, TokenInv
<1>6. CASE StartRefresh(m)
  <2>1. row # NoRow
    BY <1>6, RowExists DEF StartRefresh
  <2>2. TypeOK'
    BY <1>1, <1>6 DEF StartRefresh, TypeOK, Label
  <2>3. (row # NoRow => Consistent(row))' /\ \A n \in Message : CallInv(n)'
    BY <1>1, <1>6 DEF StartRefresh, Inv, TokenInv, TypeOK, CallInv, Consistent, Recent
  <2>4. (\A n \in Message : CountInv(n)') /\ RaceInv'
    BY <1>1, <1>6, <2>1, Constants DEF StartRefresh, Inv, TokenInv, TypeOK, CountInv, RaceInv
  <2>5. QED
    BY <2>2, <2>3, <2>4 DEF Inv, TokenInv
<1>7. QED
  BY <1>2, <1>3, <1>4, <1>5, <1>6

\* The token requests that do not raise, and the storing of the token.
LEMMA RefreshKeeps ==
  ASSUME Inv, NEW m \in Message,
         TokenIssued(m) \/ RequestRefused(m) \/ ParseAnswer(m) \/ UpdateRow(m)
  PROVE  Inv'
<1> USE DEF Goto
<1>1. TypeOK /\ CallInv(m) /\ CountInv(m) /\ now \in Nat
  BY Constants DEF Inv, TokenInv, TypeOK
<1>2. pc[m] \in {"request", "parse", "update"}
  BY DEF TokenIssued, RequestRefused, Request, ParseAnswer, UpdateRow
<1>3. row # NoRow
  BY <1>2, RowExists
<1>4. CASE TokenIssued(m)
  <2>1. pc[m] = "request" /\ attempts[m] \in Nat /\ attempts[m] < MaxAttempts
    BY <1>1, <1>4, Constants DEF TokenIssued, Request, CountInv, TypeOK
  <2>2. PICK life \in Lifetimes :
          /\ l_etok' = [l_etok EXCEPT ![m].payload = now + life]
          /\ lifetime' = [lifetime EXCEPT ![m] = life]
    BY <1>4 DEF TokenIssued
  <2>3. life \in Nat /\ life >= 1
    BY Constants
  <2>4. l_etok' \in [Message -> Etok] /\ l_etok'[m].payload = now + life
    BY <1>1, <2>2, <2>3 DEF TypeOK, Etok, Token
  <2>5. \A n \in Message : n # m => l_etok'[n] = l_etok[n]
    BY <1>1, <2>2 DEF TypeOK
  <2>6. TypeOK'
    BY <1>1, <1>4, <2>1, <2>2, <2>4, Constants DEF TokenIssued, Request, TypeOK, Label
  <2>7. CallInv(m)'
    BY <1>1, <1>4, <2>1, <2>2, <2>3, <2>4, Constants
    DEF TokenIssued, Request, TypeOK, CallInv, Recent
  <2>8. \A n \in Message : n # m => CallInv(n)'
    BY <1>1, <1>4, <2>2, <2>5
    DEF TokenIssued, Request, Inv, TokenInv, TypeOK, CallInv, Consistent, Recent
  <2>9. (row # NoRow => Consistent(row))' /\ (\A n \in Message : CountInv(n)') /\ RaceInv'
    BY <1>1, <1>3, <1>4, <2>1
    DEF TokenIssued, Request, Inv, TokenInv, TypeOK, CountInv, RaceInv, Consistent
  <2>10. QED
    BY <2>6, <2>7, <2>8, <2>9 DEF Inv, TokenInv
<1>5. CASE RequestRefused(m)
  <2>1. attempts[m] \in Nat /\ attempts[m] + 1 < MaxAttempts /\ pc[m] = "request"
    BY <1>1, <1>5, Constants DEF RequestRefused, Request, TypeOK
  <2>2. TypeOK'
    BY <1>1, <1>5, <2>1, Constants DEF RequestRefused, Request, TypeOK
  <2>3. (row # NoRow => Consistent(row))' /\ \A n \in Message : CallInv(n)'
    BY <1>1, <1>5 DEF RequestRefused, Request, Inv, TokenInv, CallInv, Consistent, Recent
  <2>4. (\A n \in Message : CountInv(n)') /\ RaceInv'
    BY <1>1, <1>3, <1>5, <2>1, Constants
    DEF RequestRefused, Request, Inv, TokenInv, TypeOK, CountInv, RaceInv
  <2>5. QED
    BY <2>2, <2>3, <2>4 DEF Inv, TokenInv
<1>6. CASE ParseAnswer(m)
  <2>1. /\ pc[m] = "parse" /\ Recent(m) /\ lifetime[m] \in Lifetimes /\ lifetime[m] \in Nat
        /\ l_etok[m].payload = since[m] + lifetime[m] /\ since[m] \in Nat
    BY <1>1, <1>6, Constants DEF ParseAnswer, CallInv, TypeOK
  <2>2. /\ l_etok' = [l_etok EXCEPT ![m].expires = now + lifetime[m]]
        /\ l_etok' \in [Message -> Etok]
        /\ l_etok'[m].expires = now + lifetime[m]
        /\ l_etok'[m].payload = l_etok[m].payload
    BY <1>1, <1>6, <2>1 DEF ParseAnswer, TypeOK, Etok
  <2>3. \A n \in Message : n # m => l_etok'[n] = l_etok[n]
    BY <1>1, <2>2 DEF TypeOK
  <2>4. TypeOK'
    BY <1>1, <1>6, <2>2 DEF ParseAnswer, TypeOK, Label
  <2>5. CallInv(m)'
    BY <1>1, <1>6, <2>1, <2>2, Constants DEF ParseAnswer, TypeOK, CallInv, Recent
  <2>6. \A n \in Message : n # m => CallInv(n)'
    BY <1>1, <1>6, <2>3 DEF ParseAnswer, Inv, TokenInv, TypeOK, CallInv, Consistent, Recent
  <2>7. (row # NoRow => Consistent(row))' /\ (\A n \in Message : CountInv(n)') /\ RaceInv'
    BY <1>1, <1>3, <1>6 DEF ParseAnswer, Inv, TokenInv, TypeOK, CountInv, RaceInv, Consistent
  <2>8. QED
    BY <2>4, <2>5, <2>6, <2>7 DEF Inv, TokenInv
<1>7. CASE UpdateRow(m)
  <2>1. /\ l_etok[m] \in Etok /\ l_etok[m] # NoRow /\ Consistent(l_etok[m]) /\ Recent(m)
        /\ l_etok[m].payload \in Int /\ since[m] < l_etok[m].payload + MaxLatency
    BY <1>1, <1>7, EtokIsRow, Constants DEF UpdateRow, CallInv, TypeOK, Consistent
  <2>2. TypeOK'
    BY <1>1, <1>7, <2>1 DEF UpdateRow, TypeOK, Label
  <2>3. (row # NoRow => Consistent(row))' /\ \A n \in Message : CallInv(n)'
    BY <1>1, <1>7, <2>1 DEF UpdateRow, Inv, TokenInv, TypeOK, CallInv, Consistent, Recent
  <2>4. (\A n \in Message : CountInv(n)') /\ RaceInv'
    BY <1>1, <1>3, <1>7, <2>1 DEF UpdateRow, Inv, TokenInv, TypeOK, CountInv, RaceInv
  <2>5. QED
    BY <2>2, <2>3, <2>4 DEF Inv, TokenInv
<1>8. QED
  BY <1>4, <1>5, <1>6, <1>7

\* The steps that end a call.
LEMMA EndKeeps ==
  ASSUME Inv, NEW m \in Message,
         \/ LookupFails(m) \/ InsertDuplicate(m) \/ AuthError(m) \/ RequestRaises(m)
         \/ StoreRaises(m) \/ PostFails(m) \/ PostAccepted(m)
  PROVE  Inv'
<1>1. TypeOK /\ CountInv(m)
  BY DEF Inv, TokenInv
<1>2. CASE LookupFails(m) \/ StoreRaises(m) \/ PostFails(m)
  <2>1. /\ Fail(m) /\ pc[m] \in {"select", "insert", "parse", "update", "post"} /\ lost' = lost
        /\ now' = now /\ row' = row /\ requests' \in [Message -> Nat]
    BY <1>1, <1>2 DEF LookupFails, StoreRaises, PostFails, TypeOK
  <2>2. QED
    BY <2>1, FailKeeps
<1>3. CASE AuthError(m) \/ RequestRaises(m)
  <2>1. /\ Fail(m) /\ pc[m] = "request" /\ lost' = lost
        /\ now' = now /\ row' = row /\ requests' \in [Message -> Nat]
    BY <1>1, <1>3 DEF AuthError, RequestRaises, Request, TypeOK
  <2>2. QED
    BY <2>1, FailKeeps
<1>4. CASE InsertDuplicate(m)
  <2>1. /\ Fail(m) /\ pc[m] = "insert" /\ row # NoRow
        /\ lost' = [lost EXCEPT ![m] = @ + 1]
        /\ now' = now /\ row' = row /\ requests' \in [Message -> Nat]
    BY <1>1, <1>4 DEF InsertDuplicate, TypeOK
  <2>2. QED
    BY <2>1, FailKeeps
<1>5. CASE PostAccepted(m)
  <2>1. row # NoRow /\ Unset \in Etok
    BY <1>5, RowExists DEF PostAccepted, Unset, Etok
  <2>2. TypeOK'
    BY <1>1, <1>5, <2>1, Constants DEF PostAccepted, Leave, Goto, TypeOK, Label
  <2>3. (row # NoRow => Consistent(row))' /\ \A n \in Message : CallInv(n)'
    BY <1>1, <1>5 DEF PostAccepted, Leave, Goto, Inv, TokenInv, TypeOK, CallInv, Consistent, Recent
  <2>4. (\A n \in Message : CountInv(n)') /\ RaceInv'
    BY <1>1, <1>5, <2>1 DEF PostAccepted, Leave, Goto, Inv, TokenInv, TypeOK, CountInv, RaceInv
  <2>5. QED
    BY <2>2, <2>3, <2>4 DEF Inv, TokenInv
<1>6. QED
  BY <1>2, <1>3, <1>4, <1>5

\* Time makes entries expire, never valid, and waits for no answer too long.
LEMMA TickKeeps == Inv /\ Tick => Inv'
<1>1. SUFFICES ASSUME Inv, Tick PROVE Inv'
  OBVIOUS
<1>2. TypeOK /\ now \in Nat /\ now' = now + 1
  BY <1>1, Constants DEF Inv, TokenInv, TypeOK, Tick
<1>3. TypeOK'
  BY <1>1, <1>2, Constants DEF Tick, TypeOK
<1>4. (row # NoRow => Consistent(row))'
  <2>1. row \in Etok \cup {NoRow}
    BY <1>2 DEF TypeOK
  <2>2. QED
    BY <1>1, <1>2, <2>1 DEF Tick, Inv, TokenInv, Etok, Consistent
<1>5. ASSUME NEW m \in Message PROVE CallInv(m)'
  <2>1. /\ CallInv(m) /\ l_etok[m].expires \in Int /\ since[m] \in Nat
        /\ UNCHANGED <<pc, l_etok, lifetime, since>>
        /\ pc[m] \in {"parse", "update", "post"} => now - since[m] < MaxLatency
    BY <1>1, <1>2, Constants DEF Inv, TokenInv, Tick, TypeOK, Etok
  <2>2. pc[m] \in {"parse", "update", "post"} /\ Recent(m) => Recent(m)'
    BY <1>2, <2>1, Constants DEF Recent
  <2>3. QED
    BY <1>2, <2>1, <2>2 DEF CallInv, Consistent
<1>6. (\A m \in Message : CountInv(m)') /\ RaceInv'
  BY <1>1 DEF Tick, Inv, CountInv, RaceInv
<1>7. QED
  BY <1>3, <1>4, <1>5, <1>6 DEF Inv, TokenInv

LEMMA InvInductive == Inv /\ [Next]_vars => Inv'
<1>1. SUFFICES ASSUME Inv, [Next]_vars PROVE Inv'
  OBVIOUS
<1>2. CASE UNCHANGED vars
  BY <1>1, <1>2
  DEF vars, Inv, TokenInv, TypeOK, CallInv, CountInv, RaceInv, Consistent, Recent
<1>3. CASE Tick
  BY <1>1, <1>3, TickKeeps
<1>4. ASSUME NEW m \in Message, Step(m) PROVE Inv'
  <2>1. CASE SelectToken(m) \/ SelectNone(m) \/ InsertRow(m) \/ UseCached(m) \/ StartRefresh(m)
    BY <1>1, <2>1, LookupKeeps
  <2>2. CASE TokenIssued(m) \/ RequestRefused(m) \/ ParseAnswer(m) \/ UpdateRow(m)
    BY <1>1, <2>2, RefreshKeeps
  <2>3. CASE \/ LookupFails(m) \/ InsertDuplicate(m) \/ AuthError(m) \/ RequestRaises(m)
             \/ StoreRaises(m) \/ PostFails(m) \/ PostAccepted(m)
    BY <1>1, <2>3, EndKeeps
  <2>4. QED
    BY <1>4, <2>1, <2>2, <2>3 DEF Step
<1>5. QED
  BY <1>1, <1>2, <1>3, <1>4 DEF Next

LEMMA Invariance == Spec => []Inv
<1>1. Init => Inv
  BY TokenInit DEF Inv
<1>2. QED
  BY <1>1, InvInductive, PTL DEF Spec

-----------------------------------------------------------------------------
\* The variables of the calls and the cached row keep their types.
THEOREM TypeCorrect == Spec => []TypeOK
<1>1. Inv => TypeOK
  BY DEF Inv, TokenInv
<1>2. QED
  BY <1>1, Invariance, PTL

\* Concurrent refreshes leave a row whose expiry is its token's, or off by at
\* most the latency of one answer.
THEOREM CacheConsistentHolds == Spec => []CacheConsistent
<1>1. Inv => CacheConsistent
  BY Constants DEF Inv, TokenInv, CacheConsistent, Consistent, Expired
<1>2. QED
  BY <1>1, Invariance, PTL

\* No message is ever posted without a token, or with one that expired more
\* than two latencies ago.
THEOREM TokenFreshHolds == Spec => []TokenFresh
<1>1. ASSUME Inv, NEW m \in Message, pc[m] = "post"
      PROVE  l_etok[m].payload # NoToken /\ now <= l_etok[m].payload + 2 * MaxLatency
  <2>1. /\ l_etok[m].payload \in Int /\ since[m] \in Nat /\ now \in Nat
        /\ since[m] < l_etok[m].payload + MaxLatency
        /\ now <= since[m] + MaxLatency
    BY <1>1, Constants DEF Inv, TokenInv, TypeOK, CallInv, Recent
  <2>2. QED
    BY <2>1, Constants
<1>2. Inv => TokenFresh
  BY <1>1 DEF TokenFresh
<1>3. QED
  BY <1>2, Invariance, PTL

\* The race for the first row fails a message at most once, although its calls
\* may have failed for other reasons before.
THEOREM InsertRaceOnceHolds == Spec => []InsertRaceOnce
<1>1. Inv => InsertRaceOnce
  BY DEF Inv, RaceInv, InsertRaceOnce
<1>2. QED
  BY <1>1, Invariance, PTL


-----------------------------------------------------------------------------
\* One failure more is worth MaxAttempts requests.
LEMMA OneMoreFailure ==
  ASSUME NEW f \in Nat PROVE MaxAttempts * (f + 1) = MaxAttempts * f + MaxAttempts
BY Constants

\* A call that raises has its requests paid for by the failure.
LEMMA FailPays ==
  ASSUME TypeOK, RequestBound, NEW m \in Message, Fail(m),
         requests' = requests
         \/ /\ requests' = [requests EXCEPT ![m] = @ + 1]
            /\ attempts[m] < MaxAttempts
  PROVE  RequestBound'
<1> DEFINE spent == MaxAttempts * failures[m]
<1>1. /\ failures[m] \in Nat /\ failures'[m] = failures[m] + 1
      /\ attempts[m] \in Nat /\ attempts[m] <= MaxAttempts /\ attempts'[m] = 0
      /\ requests[m] \in Nat
  BY Constants DEF Fail, TypeOK
<1>2. spent \in Nat /\ MaxAttempts * failures'[m] = spent + MaxAttempts
  BY <1>1, OneMoreFailure, Constants
<1>3. requests[m] <= spent + attempts[m]
  BY DEF RequestBound
<1>4. \/ requests'[m] = requests[m]
      \/ requests'[m] = requests[m] + 1 /\ attempts[m] < MaxAttempts
  BY DEF TypeOK
<1> HIDE DEF spent
<1>5. requests'[m] <= MaxAttempts * failures'[m] + attempts'[m]
  <2>1. requests'[m] <= spent + MaxAttempts
    BY <1>1, <1>2, <1>3, <1>4, Constants
  <2>2. QED
    BY <2>1, <1>1, <1>2, Constants
<1>6. \A n \in Message : n # m =>
        /\ requests'[n] = requests[n] /\ failures'[n] = failures[n]
        /\ attempts'[n] = attempts[n]
  BY DEF Fail, TypeOK
<1>7. QED
  BY <1>5, <1>6 DEF RequestBound

LEMMA RequestsInductive == Inv /\ RequestBound /\ [Next]_vars => RequestBound'
<1> SUFFICES ASSUME Inv, RequestBound, [Next]_vars PROVE RequestBound'
  OBVIOUS
<1>1. TypeOK /\ \A m \in Message : CountInv(m)
  BY DEF Inv, TokenInv
<1>2. CASE Tick \/ UNCHANGED vars
  BY <1>2 DEF Tick, vars, RequestBound
<1>3. ASSUME NEW m \in Message, Step(m) PROVE RequestBound'
  <2>1. CASE \/ SelectToken(m) \/ SelectNone(m) \/ InsertRow(m) \/ UseCached(m)
             \/ StartRefresh(m) \/ ParseAnswer(m) \/ UpdateRow(m) \/ PostAccepted(m)
    BY <2>1 DEF SelectToken, SelectNone, InsertRow, UseCached, StartRefresh, ParseAnswer,
                UpdateRow, PostAccepted, RequestBound
  <2>2. CASE LookupFails(m) \/ InsertDuplicate(m) \/ StoreRaises(m) \/ PostFails(m)
    BY <2>2, <1>1, FailPays DEF LookupFails, InsertDuplicate, StoreRaises, PostFails
  <2>3. CASE AuthError(m) \/ RequestRaises(m)
    <3>1. attempts[m] < MaxAttempts
      BY <2>3, <1>1 DEF AuthError, RequestRaises, Request, CountInv
    <3>2. Fail(m) /\ requests' = [requests EXCEPT ![m] = @ + 1]
      BY <2>3 DEF AuthError, RequestRaises, Request
    <3>3. QED
      BY <3>1, <3>2, <1>1, FailPays
  <2>4. CASE TokenIssued(m) \/ RequestRefused(m)
    <3> DEFINE spent(n) == MaxAttempts * failures[n]
    <3>1. /\ requests' = [requests EXCEPT ![m] = @ + 1]
          /\ attempts' = [attempts EXCEPT ![m] = @ + 1]
          /\ failures' = failures
      BY <2>4 DEF TokenIssued, RequestRefused, Request
    <3>2. \A n \in Message : spent(n) \in Nat /\ requests[n] <= spent(n) + attempts[n]
      BY <1>1, Constants DEF TypeOK, RequestBound
    <3>3. requests[m] \in Nat /\ attempts[m] \in Nat
      BY <1>1, Constants DEF TypeOK
    <3>4. /\ requests'[m] = requests[m] + 1 /\ attempts'[m] = attempts[m] + 1
          /\ \A n \in Message : n # m => requests'[n] = requests[n] /\ attempts'[n] = attempts[n]
      BY <3>1, <1>1 DEF TypeOK
    <3> HIDE DEF spent
    <3>5. \A n \in Message : requests'[n] <= spent(n) + attempts'[n]
      BY <3>2, <3>3, <3>4
    <3>6. QED
      BY <3>1, <3>5 DEF spent, RequestBound
  <2>5. QED
    BY <1>3, <2>1, <2>2, <2>3, <2>4 DEF Step
<1>4. QED
  BY <1>2, <1>3 DEF Next

\* The requests of a message are bounded by its failed attempts, whatever the
\* numbers of attempts and retries are.
THEOREM RequestBoundHolds == Spec => []RequestBound
<1>1. Init => RequestBound
  <2>1. MaxAttempts * 0 = 0
    BY Constants
  <2>2. ASSUME Init, NEW m \in Message
        PROVE  requests[m] <= MaxAttempts * failures[m] + attempts[m]
    <3>1. requests[m] = 0 /\ failures[m] = 0 /\ attempts[m] = 0
      BY <2>2 DEF Init
    <3>2. MaxAttempts * failures[m] + attempts[m] = 0
      BY <2>1, <3>1
    <3>3. QED
      BY <3>1, <3>2
  <2>3. QED
    BY <2>2 DEF RequestBound
<1>2. QED
  BY <1>1, RequestsInductive, Invariance, PTL DEF Spec
=============================================================================
