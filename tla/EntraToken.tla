----------------------------- MODULE EntraToken -----------------------------
(***************************************************************************)
(* entraAuthenticationToken of package az_event_hubs and the part of send  *)
(* that uses it: messages sent concurrently share one cached token, the    *)
(* row of oqf_entra_tokens for their credential and scope.                 *)
(*                                                                         *)
(* Every call reads the row into l_etok, creates it when it is missing,    *)
(* and requests a new token when l_etok has expired. Nothing serialises    *)
(* the calls: two of them may both miss the row, or both refresh it. A     *)
(* call that raises fails the message's attempt, and the queue repeats it  *)
(* max_retries times (DmlQueue). It may do so before it has read the row:  *)
(* send looks up the queue and the credential first, and the credential is *)
(* looked up again.                                                        *)
(*                                                                         *)
(* A token is represented by the time it really expires. The code dates    *)
(* the expiry from the moment it parses the answer, not from the moment    *)
(* the token was issued; at most MaxLatency passes from the issue, or from *)
(* the check of a cached token, to the POST that carries it.               *)
(***************************************************************************)
EXTENDS Integers

CONSTANTS
  Message,      \* the messages being sent with this credential
  MaxAttempts,  \* l_max_retries
  MaxRetries,   \* max_retries of QUEUE_DML
  Lifetimes,    \* the values expires_in can have
  MaxLatency,   \* the longest time an answer travels
  MaxTime,      \* bound: the clock stops there
  NoToken       \* a null payload

ASSUME TokenAssumption ==
  /\ MaxAttempts \in Nat \ {0} /\ MaxRetries \in Nat
  /\ Lifetimes \subseteq Nat \ {0}
  /\ MaxLatency \in Nat /\ MaxTime \in Nat
  /\ NoToken \notin Int

Token == Int
Etok == [payload : Token \cup {NoToken}, expires : Int]
NoRow == [payload |-> NoToken, expires |-> NoToken]

VARIABLES
  now,       \* systimestamp
  row,       \* the row of oqf_entra_tokens, NoRow when there is none
  pc,        \* Message -> the next statement of its call
  l_etok,    \* Message -> the call's copy of the row
  lifetime,  \* Message -> expires_in of the answer it has got
  since,     \* Message -> when that token was issued or last checked
  attempts,  \* Message -> requests made by the call
  failures,  \* Message -> calls that raised
  requests,  \* Message -> token requests made for the message in all
  lost       \* Message -> races for the first row it has lost

vars == <<now, row, pc, l_etok, lifetime, since, attempts, failures, requests, lost>>

Label == {"select", "insert", "check", "request", "parse", "update", "post",
          "sent", "exception"}

TypeOK ==
  /\ now \in 0..MaxTime
  /\ row \in Etok \cup {NoRow}
  /\ pc \in [Message -> Label]
  /\ l_etok \in [Message -> Etok]
  /\ lifetime \in [Message -> Lifetimes \cup {0}]
  /\ since \in [Message -> 0..MaxTime]
  /\ attempts \in [Message -> 0..MaxAttempts]
  /\ failures \in [Message -> 0..MaxRetries + 1]
  /\ requests \in [Message -> Nat]
  /\ lost \in [Message -> Nat]

Expired(etok) == etok.expires <= now

Unset == [payload |-> NoToken, expires |-> 0]

Init ==
  /\ now = 0
  /\ row = NoRow
  /\ pc = [m \in Message |-> "select"]
  /\ l_etok = [m \in Message |-> Unset]
  /\ lifetime = [m \in Message |-> 0]
  /\ since = [m \in Message |-> 0]
  /\ attempts = [m \in Message |-> 0]
  /\ failures = [m \in Message |-> 0]
  /\ requests = [m \in Message |-> 0]
  /\ lost = [m \in Message |-> 0]

Goto(m, label) == pc' = [pc EXCEPT ![m] = label]

\* send is left, and its variables with it.
Leave(m) ==
  /\ l_etok' = [l_etok EXCEPT ![m] = Unset]
  /\ lifetime' = [lifetime EXCEPT ![m] = 0]
  /\ since' = [since EXCEPT ![m] = 0]

\* Mutant of Fail: one repetition more than max_retries.
FailOneMore(m) ==
  /\ failures' = [failures EXCEPT ![m] = @ + 1]
  /\ Goto(m, IF failures[m] <= MaxRetries THEN "select" ELSE "exception")
  /\ attempts' = [attempts EXCEPT ![m] = 0]
  /\ Leave(m)

\* The call raises: the attempt to send the message has failed, and the queue
\* repeats it or sets the message aside.
Fail(m) ==
  /\ failures' = [failures EXCEPT ![m] = @ + 1]
  /\ Goto(m, IF failures[m] < MaxRetries THEN "select" ELSE "exception")
  /\ attempts' = [attempts EXCEPT ![m] = 0]
  /\ Leave(m)

-----------------------------------------------------------------------------
\* The queue or the credential cannot be looked up: the call raises before it
\* has read the row.
LookupFails(m) ==
  /\ pc[m] = "select"
  /\ Fail(m)
  /\ UNCHANGED <<now, row, requests, lost>>

\* The cached row is found.
SelectToken(m) ==
  /\ pc[m] = "select" /\ row # NoRow
  /\ l_etok' = [l_etok EXCEPT ![m] = row]
  /\ Goto(m, "check")
  /\ UNCHANGED <<now, row, lifetime, since, attempts, failures, requests, lost>>

\* Mutant of SelectNone: the empty row is given an expiry to come.
SelectNoneValid(m) ==
  /\ pc[m] = "select" /\ row = NoRow
  /\ l_etok' = [l_etok EXCEPT ![m] = [payload |-> NoToken, expires |-> now + 1]]
  /\ Goto(m, "insert")
  /\ UNCHANGED <<now, row, lifetime, since, attempts, failures, requests, lost>>

\* no_data_found: the call prepares a row that has already expired.
SelectNone(m) ==
  /\ pc[m] = "select" /\ row = NoRow
  /\ l_etok' = [l_etok EXCEPT ![m] = [payload |-> NoToken, expires |-> now - 1]]
  /\ Goto(m, "insert")
  /\ UNCHANGED <<now, row, lifetime, since, attempts, failures, requests, lost>>

\* The empty row is inserted and committed.
InsertRow(m) ==
  /\ pc[m] = "insert" /\ row = NoRow
  /\ row' = l_etok[m]
  /\ Goto(m, "check")
  /\ UNCHANGED <<now, l_etok, lifetime, since, attempts, failures, requests, lost>>

\* Another call has inserted the row: the unique constraint is violated and
\* nothing handles the exception.
InsertDuplicate(m) ==
  /\ pc[m] = "insert" /\ row # NoRow
  /\ lost' = [lost EXCEPT ![m] = @ + 1]
  /\ Fail(m)
  /\ UNCHANGED <<now, row, requests>>

\* The cached token is returned as it is.
UseCached(m) ==
  /\ pc[m] = "check" /\ ~Expired(l_etok[m])
  /\ since' = [since EXCEPT ![m] = now]
  /\ Goto(m, "post")
  /\ UNCHANGED <<now, row, l_etok, lifetime, attempts, failures, requests, lost>>

StartRefresh(m) ==
  /\ pc[m] = "check" /\ Expired(l_etok[m])
  /\ Goto(m, "request")
  /\ UNCHANGED <<now, row, l_etok, lifetime, since, attempts, failures, requests, lost>>

\* One more request to the token endpoint.
Request(m) ==
  /\ pc[m] = "request"
  /\ requests' = [requests EXCEPT ![m] = @ + 1]
  /\ UNCHANGED <<now, row, lost>>

\* It answers with a token.
TokenIssued(m) ==
  /\ Request(m)
  /\ \E life \in Lifetimes :
       /\ l_etok' = [l_etok EXCEPT ![m].payload = now + life]
       /\ lifetime' = [lifetime EXCEPT ![m] = life]
  /\ since' = [since EXCEPT ![m] = now]
  /\ attempts' = [attempts EXCEPT ![m] = @ + 1]
  /\ Goto(m, "parse")
  /\ UNCHANGED failures

\* It answers with another status code, and the loop has attempts left.
RequestRefused(m) ==
  /\ attempts[m] + 1 < MaxAttempts
  /\ Request(m)
  /\ attempts' = [attempts EXCEPT ![m] = @ + 1]
  /\ UNCHANGED <<pc, l_etok, lifetime, since, failures>>

\* Mutant of AuthError: the row is deleted with its token.
AuthErrorForgets(m) ==
  /\ pc[m] = "request" /\ attempts[m] + 1 = MaxAttempts
  /\ requests' = [requests EXCEPT ![m] = @ + 1]
  /\ row' = NoRow
  /\ Fail(m)
  /\ UNCHANGED <<now, lost>>

\* The last attempt is refused as well: e_auth_error.
AuthError(m) ==
  /\ attempts[m] + 1 = MaxAttempts
  /\ Request(m)
  /\ Fail(m)

\* Mutant of RequestRaises: the exception is swallowed and the attempt not counted.
RequestSwallowed(m) ==
  /\ Request(m)
  /\ UNCHANGED <<pc, l_etok, lifetime, since, attempts, failures>>

\* make_rest_request_b raises: the remaining attempts are not made.
RequestRaises(m) ==
  /\ Request(m)
  /\ Fail(m)

\* The expiry is dated from the moment the answer is parsed.
ParseAnswer(m) ==
  /\ pc[m] = "parse"
  /\ l_etok' = [l_etok EXCEPT ![m].expires = now + lifetime[m]]
  /\ Goto(m, "update")
  /\ UNCHANGED <<now, row, lifetime, since, attempts, failures, requests, lost>>

\* The row cannot be inserted or updated, or the answer not be parsed: the call
\* raises and the row stays as it was.
StoreRaises(m) ==
  /\ pc[m] \in {"insert", "parse", "update"}
  /\ Fail(m)
  /\ UNCHANGED <<now, row, requests, lost>>

\* Mutant of UpdateRow: only the payload is stored.
UpdatePayload(m) ==
  /\ pc[m] = "update"
  /\ row' = [row EXCEPT !.payload = l_etok[m].payload]
  /\ Goto(m, "post")
  /\ UNCHANGED <<now, l_etok, lifetime, since, attempts, failures, requests, lost>>

\* The row is overwritten, whatever another call has written meanwhile.
UpdateRow(m) ==
  /\ pc[m] = "update"
  /\ row' = l_etok[m]
  /\ Goto(m, "post")
  /\ UNCHANGED <<now, l_etok, lifetime, since, attempts, failures, requests, lost>>

\* The Event Hub accepts the message if the token is still valid.
PostAccepted(m) ==
  /\ pc[m] = "post" /\ now < l_etok[m].payload
  /\ Goto(m, "sent")
  /\ Leave(m)
  /\ UNCHANGED <<now, row, attempts, failures, requests, lost>>

\* Mutant of PostFails: the POST is repeated with the token the call has.
PostAgain(m) ==
  /\ pc[m] = "post"
  /\ UNCHANGED vars

\* It refuses an expired token, and the call may raise for other reasons once
\* it has its token.
PostFails(m) ==
  /\ pc[m] = "post"
  /\ Fail(m)
  /\ UNCHANGED <<now, row, requests, lost>>

\* Time passes, but no answer travels longer than MaxLatency.
Tick ==
  /\ now < MaxTime
  /\ \A m \in Message : pc[m] \in {"parse", "update", "post"} => now - since[m] < MaxLatency
  /\ now' = now + 1
  /\ UNCHANGED <<row, pc, l_etok, lifetime, since, attempts, failures, requests, lost>>

Step(m) ==
  \/ LookupFails(m) \/ SelectToken(m) \/ SelectNone(m)
  \/ InsertRow(m) \/ InsertDuplicate(m)
  \/ UseCached(m) \/ StartRefresh(m)
  \/ TokenIssued(m) \/ RequestRefused(m) \/ AuthError(m) \/ RequestRaises(m)
  \/ ParseAnswer(m) \/ StoreRaises(m) \/ UpdateRow(m)
  \/ PostAccepted(m) \/ PostFails(m)

Next == Tick \/ \E m \in Message : Step(m)

Spec == Init /\ [][Next]_vars

\* A call that has begun runs on, and the queue repeats failed attempts.
FairSpec == Spec /\ \A m \in Message : WF_vars(Step(m))

-----------------------------------------------------------------------------
(* Properties *)

\* Whatever the concurrent calls have written, the cached row is consistent:
\* a row without a token has expired, and its expiry never exceeds the
\* token's own by more than the latency of the answer.
CacheConsistent ==
  row # NoRow =>
    IF row.payload = NoToken
    THEN Expired(row)
    ELSE row.payload <= row.expires /\ row.expires <= row.payload + MaxLatency

\* send never posts without a token, even when the row it shares has just
\* been created empty by another call, and the token it posts is at most two
\* latencies past its expiry.
TokenFresh ==
  \A m \in Message : pc[m] = "post" =>
    /\ l_etok[m].payload # NoToken
    /\ now <= l_etok[m].payload + 2 * MaxLatency

\* A message costs at most MaxAttempts token requests for each time the queue
\* delivers it, so at most MaxAttempts * (MaxRetries + 1) before it is set aside.
RequestBound ==
  \A m \in Message :
    requests[m] <= MaxAttempts * failures[m] + attempts[m]

\* A message loses the race for the first row at most once, however often its
\* calls raise before or after the row is read: whoever won has committed a row
\* that no failure takes away again, so the repeated call finds it.
InsertRaceOnce == \A m \in Message : lost[m] <= 1

\* Every message is sent or set aside, however the requests end.
EventuallySettled ==
  \A m \in Message : <>(pc[m] \in {"sent", "exception"})
=============================================================================
