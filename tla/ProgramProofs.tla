--------------------------- MODULE ProgramProofs ---------------------------
(***************************************************************************)
(* What the programs of the components owe a deployment, for every         *)
(* configuration: lists of any length, any names, every option.            *)
(*                                                                         *)
(* The theorems of DeploymentProofs ask of the programs that a resource     *)
(* waits for whatever it names, and that of two writes to one object one    *)
(* waits for the other.  Here the definitions of the components are shown   *)
(* to see to it.  Lists are folded by FlattenSeq and what a statement waits  *)
(* for is a recursive function, so these are proofs by induction: the        *)
(* principle is derived from the well-foundedness of < on the naturals and  *)
(* applied to sets of naturals, as every backend can.                       *)
(***************************************************************************)
EXTENDS Bases, DeploymentProofs, FiniteSetTheorems, SequenceTheorems, WellFoundedInduction

-----------------------------------------------------------------------------
(* Induction *)

\* A non-empty set of naturals has a least element.
LEMMA LeastNatural ==
    ASSUME NEW T \in SUBSET Nat, T # {}
    PROVE  \E n \in T : \A m \in T : n <= m
<1> DEFINE R == OpToRel(<, Nat)
<1>1. IsWellFoundedOn(R, Nat)
  BY NatLessThanWellFounded
<1>2. R = {ss \in Nat \X Nat : ss[1] < ss[2]}
  BY DEF OpToRel
<1> HIDE DEF R
<1>3. PICK n \in T : \A m \in T : ~(<<m, n>> \in R)
  BY <1>1, WFMin
<1>4. ASSUME NEW m \in T PROVE n <= m
  <2>1. m \in Nat /\ n \in Nat
    OBVIOUS
  <2>2. <<m, n>> \in Nat \X Nat /\ <<m, n>>[1] = m /\ <<m, n>>[2] = n
    BY <2>1
  <2>3. ~(m < n)
    BY <1>2, <1>3, <2>2
  <2> QED BY <2>1, <2>3
<1> QED BY <1>4

\* Induction, for the numbers that have a property.
LEMMA Induction ==
    ASSUME NEW n \in Nat, NEW S, 0 \in S, \A m \in Nat : m \in S => m + 1 \in S
    PROVE  n \in S
<1> DEFINE T == {m \in Nat : m \notin S}
<1> SUFFICES ASSUME T # {} PROVE FALSE
  OBVIOUS
<1>1. PICK m \in T : \A k \in T : m <= k
  BY LeastNatural
<1>2. m - 1 \in Nat /\ m - 1 \notin T
  BY <1>1
<1> QED BY <1>1, <1>2

-----------------------------------------------------------------------------
(* Lists *)

\* A finite sequence, whatever it holds.
IsList(l) == l \in Seq(ToSet(l))

\* A sequence over any set is a list, and its elements are at its positions.
LEMMA ListSet ==
    ASSUME NEW S, NEW p \in Seq(S)
    PROVE  IsList(p) /\ ToSet(p) = {p[i] : i \in 1 .. Len(p)}
<1>1. ToSet(p) = {p[i] : i \in 1 .. Len(p)}
  BY DEF ToSet
<1>2. p \in Seq(ToSet(p))
  BY <1>1, LenProperties
<1> QED BY <1>1, <1>2 DEF IsList

\* A list has a length, and its elements at its positions.
LEMMA ListLen ==
    ASSUME NEW l, IsList(l)
    PROVE  Len(l) \in Nat /\ ToSet(l) = {l[i] : i \in 1 .. Len(l)}
  BY ListSet, LenProperties DEF IsList

\* A function on an initial segment of the naturals is a list.
LEMMA ListOf ==
    ASSUME NEW f, NEW n \in Nat, f = [i \in 1 .. n |-> f[i]]
    PROVE  IsList(f) /\ Len(f) = n
<1> DEFINE S == {f[i] : i \in 1 .. n}
<1>1. f \in [1 .. n -> S]
  OBVIOUS
<1>2. f \in Seq(S)
  <2> HIDE DEF S
  <2> QED BY <1>1, SeqDef
<1>3. Len(f) \in Nat /\ DOMAIN f = 1 .. Len(f) /\ DOMAIN f = 1 .. n
  BY <1>1, <1>2, LenProperties
<1>4. Len(f) = n
  BY <1>3
<1> QED BY <1>2, <1>4, ListSet

\* Where the elements of a concatenation are.
LEMMA ConcatLists ==
    ASSUME NEW p, NEW q, IsList(p), IsList(q)
    PROVE  /\ IsList(p \o q)
           /\ Len(p \o q) = Len(p) + Len(q)
           /\ \A i \in 1 .. Len(p) : (p \o q)[i] = p[i]
           /\ \A i \in 1 .. Len(q) : (p \o q)[Len(p) + i] = q[i]
           /\ ToSet(p \o q) = ToSet(p) \cup ToSet(q)
<1> DEFINE S == ToSet(p) \cup ToSet(q)
<1>1. p \in Seq(S) /\ q \in Seq(S)
  BY SeqMonotonic DEF IsList
<1>2. Len(p) \in Nat /\ Len(q) \in Nat
  BY <1>1, LenProperties
<1> HIDE DEF S
<1>3. /\ p \o q \in Seq(S)
      /\ Len(p \o q) = Len(p) + Len(q)
      /\ \A i \in 1 .. Len(p) + Len(q) : (p \o q)[i] = IF i <= Len(p) THEN p[i] ELSE q[i - Len(p)]
  BY <1>1, ConcatProperties
<1>4. /\ \A i \in 1 .. Len(p) : (p \o q)[i] = p[i]
      /\ \A i \in 1 .. Len(q) : (p \o q)[Len(p) + i] = q[i]
  BY <1>2, <1>3
<1>5. ToSet(p \o q) = ToSet(p) \cup ToSet(q)
  <2>1. /\ ToSet(p \o q) = {(p \o q)[i] : i \in 1 .. Len(p) + Len(q)}
        /\ ToSet(p) = {p[i] : i \in 1 .. Len(p)}
        /\ ToSet(q) = {q[i] : i \in 1 .. Len(q)}
    BY <1>1, <1>3, ListSet
  <2>2. \A i \in 1 .. Len(p) + Len(q) : i \in 1 .. Len(p) \/ i - Len(p) \in 1 .. Len(q)
    BY <1>2
  <2>3. ToSet(p \o q) \subseteq ToSet(p) \cup ToSet(q)
    BY <1>2, <1>3, <2>1, <2>2
  <2>4. \A i \in 1 .. Len(p) : i \in 1 .. Len(p) + Len(q)
    BY <1>2
  <2>5. \A i \in 1 .. Len(q) : Len(p) + i \in 1 .. Len(p) + Len(q)
    BY <1>2
  <2>6. ToSet(p) \subseteq ToSet(p \o q)
    BY <1>4, <2>1, <2>4
  <2>7. ToSet(q) \subseteq ToSet(p \o q)
    BY <1>4, <2>1, <2>5
  <2> QED BY <2>3, <2>6, <2>7
<1>6. IsList(p \o q)
  BY <1>3, ListSet
<1> QED BY <1>3, <1>4, <1>5, <1>6

\* FlattenSeq concatenates its elements one after the other.
LEMMA FlattenSteps ==
    ASSUME NEW seqs, Len(seqs) \in Nat, Len(seqs) # 0
    PROVE  \E f : /\ FlattenSeq(seqs) = f[Len(seqs)]
                  /\ f[1] = seqs[1]
                  /\ \A i \in 2 .. Len(seqs) : f[i] = f[i - 1] \o seqs[i]
<1> DEFINE n == Len(seqs)
           Step(f, i) == IF i = 1 THEN seqs[i] ELSE f[i - 1] \o seqs[i]
           Computes(f, k) == f = [i \in 1 .. k |-> Step(f, i)]
           Reached == {k \in Nat : \E f : Computes(f, k)}
<1>1. 0 \in Reached
  <2>1. Computes(<<>>, 0)
    OBVIOUS
  <2> QED BY <2>1
<1>2. ASSUME NEW k \in Nat, k \in Reached PROVE k + 1 \in Reached
  <2>1. PICK f : Computes(f, k)
    BY <1>2
  <2> DEFINE g == [i \in 1 .. k + 1 |-> IF i \in 1 .. k THEN f[i] ELSE Step(f, i)]
  <2>2. ASSUME NEW i \in 1 .. k + 1 PROVE g[i] = Step(g, i)
    <3>1. i = 1 \/ (i - 1 \in 1 .. k /\ g[i - 1] = f[i - 1])
      OBVIOUS
    <3>2. ASSUME i \in 1 .. k PROVE f[i] = Step(f, i)
      <4> DEFINE ff == [j \in 1 .. k |-> Step(f, j)]
      <4>1. ff[i] = Step(f, i)
        BY <3>2
      <4>2. f = ff
        BY <2>1
      <4> QED BY <4>1, <4>2, Zenon
    <3> QED BY <3>1, <3>2
  <2>3. Computes(g, k + 1)
    BY <2>2
  <2>4. k + 1 \in Nat
    OBVIOUS
  <2> HIDE DEF g, Computes
  <2> QED BY <2>3, <2>4
<1>3. n \in Reached
  BY <1>1, <1>2, Induction
<1> DEFINE flatten[i \in 1 .. n] == IF i = 1 THEN seqs[i] ELSE flatten[i - 1] \o seqs[i]
<1>4. flatten = [i \in 1 .. n |-> IF i = 1 THEN seqs[i] ELSE flatten[i - 1] \o seqs[i]]
  BY <1>3
<1>5. FlattenSeq(seqs) = flatten[n]
  BY DEF FlattenSeq
<1> HIDE DEF flatten
<1>6. flatten[1] = seqs[1] /\ \A i \in 2 .. n : flatten[i] = flatten[i - 1] \o seqs[i]
  <2> DEFINE ff == [i \in 1 .. n |-> IF i = 1 THEN seqs[i] ELSE flatten[i - 1] \o seqs[i]]
  <2>1. flatten = ff
    BY <1>4
  <2>2. ff[1] = seqs[1]
    BY 1 \in 1 .. n
  <2>3. ASSUME NEW i \in 2 .. n PROVE ff[i] = flatten[i - 1] \o seqs[i]
    BY i \in 1 .. n /\ i # 1
  <2> HIDE DEF ff
  <2> QED BY <2>1, <2>2, <2>3, Zenon
<1> QED BY <1>5, <1>6

\* The elements of a flattened list of lists are theirs.
LEMMA FlattenList ==
    ASSUME NEW f, IsList(f), \A i \in 1 .. Len(f) : IsList(f[i])
    PROVE  /\ IsList(FlattenSeq(f))
           /\ ToSet(FlattenSeq(f)) = UNION {ToSet(f[i]) : i \in 1 .. Len(f)}
<1>1. Len(f) \in Nat
  BY ListLen
<1>2. CASE Len(f) = 0
  <2>1. f = <<>> /\ FlattenSeq(f) = f
    BY <1>2, EmptySeq DEF IsList, FlattenSeq
  <2>2. ToSet(f) = {} /\ 1 .. Len(f) = {}
    BY <1>2, ListLen
  <2> QED BY <2>1, <2>2
<1>3. CASE Len(f) # 0
  <2>1. PICK g : /\ FlattenSeq(f) = g[Len(f)]
                 /\ g[1] = f[1]
                 /\ \A i \in 2 .. Len(f) : g[i] = g[i - 1] \o f[i]
    BY <1>1, <1>3, FlattenSteps
  <2> DEFINE Holds(k) == IsList(g[k]) /\ ToSet(g[k]) = UNION {ToSet(f[i]) : i \in 1 .. k}
             T == {k \in Nat : k + 1 \in 1 .. Len(f) => Holds(k + 1)}
  <2>2. 0 \in T
    <3>1. UNION {ToSet(f[i]) : i \in 1 .. 1} = ToSet(f[1])
      OBVIOUS
    <3> QED BY <2>1, <3>1
  <2>3. ASSUME NEW k \in Nat, k \in T PROVE k + 1 \in T
    <3>1. ASSUME k + 2 \in 1 .. Len(f) PROVE Holds(k + 2)
      <4>1. k + 1 \in 1 .. Len(f) /\ k + 2 \in 2 .. Len(f) /\ (k + 2) - 1 = k + 1
        BY <1>1, <3>1
      <4>2. Holds(k + 1) /\ IsList(f[k + 2])
        BY <2>3, <3>1, <4>1
      <4>3. g[k + 2] = g[k + 1] \o f[k + 2]
        BY <2>1, <4>1
      <4>4. IsList(g[k + 2]) /\ ToSet(g[k + 2]) = ToSet(g[k + 1]) \cup ToSet(f[k + 2])
        BY <4>2, <4>3, ConcatLists
      <4>5. 1 .. (k + 2) = (1 .. (k + 1)) \cup {k + 2}
        OBVIOUS
      <4> QED BY <4>2, <4>4, <4>5
    <3>2. (k + 1) + 1 = k + 2 /\ k + 1 \in Nat
      OBVIOUS
    <3> HIDE DEF Holds
    <3> QED BY <3>1, <3>2
  <2>4. Len(f) - 1 \in Nat /\ (Len(f) - 1) + 1 = Len(f) /\ Len(f) \in 1 .. Len(f)
    BY <1>1, <1>3
  <2>5. Len(f) - 1 \in T
    <3> HIDE DEF T
    <3> QED BY <2>2, <2>3, <2>4, Induction
  <2> QED BY <2>1, <2>4, <2>5
<1> QED BY <1>2, <1>3

-----------------------------------------------------------------------------
(* What the engine makes of a program *)

\* The engine gets the beginning of a program, up to what goes wrong.
LEMMA RegisteredIsPrefix ==
    ASSUME NEW p, IsList(p)
    PROVE  /\ IsList(Registered(p))
           /\ Len(Registered(p)) \in Nat /\ Len(Registered(p)) <= Len(p)
           /\ \A i \in 1 .. Len(Registered(p)) : Registered(p)[i] = p[i] /\ ~Faulty(p, i)
<1> DEFINE faults == {i \in 1 .. Len(p) : Faulty(p, i)}
<1>1. Len(p) \in Nat
  BY ListLen
<1>2. CASE \E s \in ToSet(p) : s.early
  <2>1. Registered(p) = <<>>
    BY <1>2 DEF Registered
  <2>2. IsList(<<>>) /\ Len(<<>>) = 0
    BY ListSet, EmptySeq
  <2> QED BY <1>1, <2>1, <2>2
<1>3. CASE ~(\E s \in ToSet(p) : s.early) /\ faults = {}
  <2>1. Registered(p) = p
    BY <1>3 DEF Registered
  <2> QED BY <1>1, <1>3, <2>1
<1>4. CASE ~(\E s \in ToSet(p) : s.early) /\ faults # {}
  <2>1. Registered(p) = SubSeq(p, 1, Min(faults) - 1)
    BY <1>4 DEF Registered
  <2>2. Min(faults) \in faults /\ \A i \in faults : Min(faults) <= i
    <3>1. \E n \in faults : \A i \in faults : n <= i
      <4>1. faults \in SUBSET Nat
        BY <1>1
      <4> HIDE DEF faults
      <4> QED BY <1>4, <4>1, LeastNatural
    <3> HIDE DEF faults
    <3> QED BY <3>1 DEF Min
  <2> DEFINE m == Min(faults) - 1
  <2>3. m \in Nat /\ m \in Int /\ m <= Len(p) /\ \A i \in 1 .. m : i \in 1 .. Len(p) /\ i \notin faults
    <3>1. Min(faults) \in 1 .. Len(p)
      BY <2>2
    <3>2. \A i \in 1 .. m : i \in 1 .. Len(p) /\ ~(Min(faults) <= i)
      BY <1>1, <3>1
    <3> QED BY <1>1, <2>2, <3>1, <3>2
  <2>4. \A i \in 1 .. m : p[i] \in ToSet(p)
    BY <2>3, ListLen
  <2> HIDE DEF m
  <2>5. /\ SubSeq(p, 1, m) \in Seq(ToSet(p))
        /\ Len(SubSeq(p, 1, m)) = m
        /\ \A i \in 1 .. m : SubSeq(p, 1, m)[i] = p[i]
    <3>1. /\ SubSeq(p, 1, m) \in Seq(ToSet(p))
          /\ Len(SubSeq(p, 1, m)) = IF 1 <= m THEN m - 1 + 1 ELSE 0
          /\ \A i \in 1 .. m - 1 + 1 : SubSeq(p, 1, m)[i] = p[1 + i - 1]
      BY <2>3, <2>4, SubSeqProperties
    <3>2. m - 1 + 1 = m /\ \A i \in 1 .. m : 1 + i - 1 = i
      BY <2>3
    <3>3. 1 <= m \/ m = 0
      BY <2>3
    <3> QED BY <3>1, <3>2, <3>3
  <2>6. Registered(p) = SubSeq(p, 1, m)
    BY <2>1 DEF m
  <2>7. \A i \in 1 .. m : ~Faulty(p, i)
    BY <2>3
  <2> HIDE DEF faults
  <2> QED BY <2>3, <2>5, <2>6, <2>7, ListSet
<1> QED BY <1>2, <1>3, <1>4

\* What a statement waits for: what it says itself, and what that waits for.
LEMMA WaitsSteps ==
    ASSUME NEW p, IsList(p), NEW i \in 1 .. Len(p)
    PROVE  Waits(p)[i] = p[i].deps \cup
             UNION {Waits(p)[j] : j \in {k \in 1 .. i - 1 : p[k].urn \in p[i].deps}}
<1> DEFINE n == Len(p)
           Before(l) == {k \in 1 .. l - 1 : p[k].urn \in p[l].deps}
           Step(f, l) == p[l].deps \cup UNION {f[j] : j \in Before(l)}
           Computes(f, k) == f = [l \in 1 .. k |-> Step(f, l)]
           Reached == {k \in Nat : \E f : Computes(f, k)}
<1>1. n \in Nat
  BY ListLen
<1>2. 0 \in Reached
  <2>1. Computes(<<>>, 0)
    OBVIOUS
  <2> QED BY <2>1
<1>3. ASSUME NEW k \in Nat, k \in Reached PROVE k + 1 \in Reached
  <2>1. PICK f : Computes(f, k)
    BY <1>3
  <2> DEFINE g == [l \in 1 .. k + 1 |-> IF l \in 1 .. k THEN f[l] ELSE Step(f, l)]
  <2>2. ASSUME NEW l \in 1 .. k + 1 PROVE g[l] = Step(g, l)
    <3>1. \A j \in Before(l) : j \in 1 .. k /\ j \in 1 .. k + 1
      OBVIOUS
    <3>2. \A j \in 1 .. k : g[j] = f[j]
      OBVIOUS
    <3>3. Step(g, l) = Step(f, l)
      <4> HIDE DEF g, Before
      <4> QED BY <3>1, <3>2
    <3>4. ASSUME l \in 1 .. k PROVE f[l] = Step(f, l)
      <4> DEFINE ff == [j \in 1 .. k |-> Step(f, j)]
      <4>1. ff[l] = Step(f, l)
        BY <3>4
      <4>2. f = ff
        BY <2>1
      <4> QED BY <4>1, <4>2, Zenon
    <3> HIDE DEF Step
    <3> QED BY <3>3, <3>4
  <2>3. Computes(g, k + 1)
    <3> HIDE DEF Step
    <3> QED BY <2>2
  <2>4. k + 1 \in Nat
    OBVIOUS
  <2> HIDE DEF g, Computes
  <2> QED BY <2>3, <2>4
<1>4. n \in Reached
  <2> HIDE DEF Reached, n
  <2> QED BY <1>1, <1>2, <1>3, Induction
<1> DEFINE waits[l \in 1 .. n] == p[l].deps \cup UNION {waits[j] : j \in {k \in 1 .. l - 1 : p[k].urn \in p[l].deps}}
<1>5. waits = [l \in 1 .. n |-> Step(waits, l)]
  BY <1>4
<1>6. Waits(p) = waits
  BY DEF Waits
<1> HIDE DEF waits
<1>7. waits[i] = Step(waits, i)
  <2> DEFINE ff == [l \in 1 .. n |-> Step(waits, l)]
  <2>1. ff[i] = Step(waits, i)
    OBVIOUS
  <2>2. waits = ff
    BY <1>5
  <2> HIDE DEF ff, Step
  <2> QED BY <2>1, <2>2, Zenon
<1> QED BY <1>6, <1>7

\* A statement has the fields of one; only what is no resource exports an output.
IsStatement(s) == DOMAIN s = DOMAIN Statement /\ (s.output # <<>> => s.comp)

\* A program, as the components build it.
IsProgram(p) == IsList(p) /\ \A s \in ToSet(p) : IsStatement(s)

\* The fields of a statement.
LEMMA Fields ==
    DOMAIN Statement = {"urn", "comp", "inside", "deps", "uses", "takes", "lock", "keys",
                        "output", "raises", "early"}
  BY DEF Statement

\* A node of the goal is a resource of the program, as it is declared.
LEMMA GoalNode ==
    ASSUME NEW p, IsProgram(p), NEW n \in Update(p).goal
    PROVE  \E i \in 1 .. Len(Registered(p)) :
              i \in 1 .. Len(p) /\ ~p[i].comp /\ n = p[i] /\ Registered(p)[i] = p[i]
<1> DEFINE r == Registered(p)
<1>1. /\ Len(r) \in Nat /\ Len(p) \in Nat /\ Len(r) <= Len(p)
      /\ \A i \in 1 .. Len(r) : r[i] = p[i]
  BY RegisteredIsPrefix, ListLen DEF IsProgram
<1>2. PICK i \in 1 .. Len(r) : ~r[i].comp /\ n = r[i]
  BY DEF Update
<1> HIDE DEF r
<1>3. i \in 1 .. Len(p) /\ r[i] = p[i]
  BY <1>1
<1> QED BY <1>2, <1>3 DEF r

\* What it waits for is what the resources of its URN wait for.
LEMMA GoalWaits ==
    ASSUME NEW p, NEW n \in Update(p).goal
    PROVE  Update(p).waits[n.urn] =
             UNION {Waits(Registered(p))[i] : i \in
                      {k \in 1 .. Len(Registered(p)) : ~Registered(p)[k].comp /\ Registered(p)[k].urn = n.urn}}
<1> DEFINE r == Registered(p)
           resources == {i \in 1 .. Len(r) : ~r[i].comp}
           goal == {r[i] : i \in resources}
           Of(u) == UNION {Waits(r)[i] : i \in {k \in resources : r[k].urn = u}}
           waits == [u \in Urns(goal) |-> Of(u)]
<1>1. Update(p).goal = goal /\ Update(p).waits = waits
  BY DEF Update
<1>2. n.urn \in Urns(goal)
  BY <1>1 DEF Urns
<1>3. waits[n.urn] = Of(n.urn)
  <2> HIDE DEF Of, goal
  <2> QED BY <1>2
<1>4. Of(n.urn) = UNION {Waits(r)[i] : i \in {k \in 1 .. Len(r) : ~r[k].comp /\ r[k].urn = n.urn}}
  OBVIOUS
<1> QED BY <1>1, <1>3, <1>4

\* Whatever a program declares, the goal knows a URN once: the engine refuses the
\* second declaration.
THEOREM UrnsDiffer ==
    ASSUME NEW p, IsProgram(p)
    PROVE  \A n, m \in Update(p).goal : n.urn = m.urn => n = m
<1> SUFFICES ASSUME NEW n \in Update(p).goal, NEW m \in Update(p).goal, n.urn = m.urn
             PROVE  n = m
  OBVIOUS
<1> DEFINE r == Registered(p)
<1>1. PICK i \in 1 .. Len(r) : i \in 1 .. Len(p) /\ ~p[i].comp /\ n = p[i]
  BY GoalNode
<1>2. PICK j \in 1 .. Len(r) : j \in 1 .. Len(p) /\ ~p[j].comp /\ m = p[j]
  BY GoalNode
<1>3. p[i].output = <<>> /\ p[j].output = <<>>
  BY <1>1, <1>2, ListLen DEF IsProgram, IsStatement
<1>4. ~Faulty(p, i) /\ ~Faulty(p, j)
  BY RegisteredIsPrefix DEF IsProgram
<1>5. Len(p) \in Nat
  BY ListLen DEF IsProgram
<1>6. ~(i < j)
  <2>1. i < j => i \in 1 .. j - 1
    BY <1>1, <1>2, <1>5
  <2> QED BY <1>1, <1>2, <1>3, <1>4, <2>1 DEF Faulty
<1>7. ~(j < i)
  <2>1. j < i => j \in 1 .. i - 1
    BY <1>1, <1>2, <1>5
  <2> QED BY <1>1, <1>2, <1>3, <1>4, <2>1 DEF Faulty
<1>8. i = j
  BY <1>1, <1>2, <1>5, <1>6, <1>7
<1> QED BY <1>1, <1>2, <1>8

\* What a statement says it waits for is among what it waits for, and so is what
\* an earlier statement waits for, when it waits for that.
LEMMA WaitsInclude ==
    ASSUME NEW p, IsList(p), NEW i \in 1 .. Len(p)
    PROVE  /\ p[i].deps \subseteq Waits(p)[i]
           /\ \A j \in 1 .. i - 1 : p[j].urn \in p[i].deps => Waits(p)[j] \subseteq Waits(p)[i]
  BY WaitsSteps

-----------------------------------------------------------------------------
(* One creation or update at a time *)

\* Up to o nothing is locked, and after it each statement waits for the one before.
SerialFrom(p, o) ==
    \A i \in 1 .. Len(p) :
        IF i <= o THEN p[i].lock = <<>> ELSE i > o + 1 => p[i - 1].urn \in p[i].deps

\* ... wherever the first of them stands.
Serialised(p) == \E o \in Nat : SerialFrom(p, o)

\* In such a program a statement waits for all before it that may hold a lock.
LEMMA SerialWaits ==
    ASSUME NEW p, IsList(p), NEW o \in Nat, SerialFrom(p, o), NEW j \in 1 .. Len(p)
    PROVE  \A i \in 1 .. j - 1 : i > o => p[i].urn \in Waits(p)[j]
<1> DEFINE T == {k \in Nat : k \in 1 .. Len(p) =>
                   \A i \in 1 .. k - 1 : i > o => p[i].urn \in Waits(p)[k]}
<1>1. 0 \in T /\ Len(p) \in Nat /\ j \in Nat
  BY ListLen
<1>2. ASSUME NEW k \in Nat, k \in T PROVE k + 1 \in T
  <2>1. ASSUME k + 1 \in 1 .. Len(p), NEW i \in 1 .. (k + 1) - 1, i > o
        PROVE  p[i].urn \in Waits(p)[k + 1]
    <3>1. k \in 1 .. Len(p) /\ i \in 1 .. k /\ (k + 1) - 1 = k /\ k + 1 > o + 1 /\ ~(k + 1 <= o)
      BY <1>1, <2>1
    <3>2. p[k].urn \in p[k + 1].deps
      BY <2>1, <3>1 DEF SerialFrom
    <3>3. p[k + 1].deps \subseteq Waits(p)[k + 1] /\ Waits(p)[k] \subseteq Waits(p)[k + 1]
      BY <2>1, <3>1, <3>2, WaitsInclude
    <3>4. CASE i = k
      BY <3>2, <3>3, <3>4
    <3>5. CASE i # k
      <4>1. i \in 1 .. k - 1
        BY <3>1, <3>5
      <4> QED BY <1>2, <2>1, <3>1, <3>3, <4>1
    <3> QED BY <3>4, <3>5
  <2> QED BY <2>1
<1>3. j \in T
  <2> HIDE DEF T
  <2> QED BY <1>1, <1>2, Induction
<1> QED BY <1>3

\* In an update made of it, one of two that hold a lock waits for the other.
LEMMA SerialisedChains ==
    ASSUME NEW p, IsProgram(p), Serialised(p),
           NEW n \in Update(p).goal, NEW m \in Update(p).goal, n.lock # <<>>, m.lock # <<>>, n # m
    PROVE  n.urn \in Update(p).waits[m.urn] \/ m.urn \in Update(p).waits[n.urn]
<1> DEFINE r == Registered(p)
<1>1. PICK o \in Nat : SerialFrom(p, o)
  BY DEF Serialised
<1>2. /\ IsList(r) /\ Len(r) \in Nat /\ Len(p) \in Nat /\ Len(r) <= Len(p)
      /\ \A i \in 1 .. Len(r) : r[i] = p[i]
  BY RegisteredIsPrefix, ListLen DEF IsProgram
<1>3. PICK i \in 1 .. Len(r) : ~p[i].comp /\ n = p[i] /\ r[i] = p[i]
  BY GoalNode
<1>4. PICK j \in 1 .. Len(r) : ~p[j].comp /\ m = p[j] /\ r[j] = p[j]
  BY GoalNode
<1>41. Waits(r)[i] \subseteq Update(p).waits[n.urn]
  <2>1. i \in {k \in 1 .. Len(r) : ~r[k].comp /\ r[k].urn = n.urn}
    BY <1>3
  <2> HIDE DEF r
  <2>2. Update(p).waits[n.urn] = UNION {Waits(r)[k] : k \in {l \in 1 .. Len(r) : ~r[l].comp /\ r[l].urn = n.urn}}
    BY GoalWaits DEF r
  <2> QED BY <2>1, <2>2
<1>42. Waits(r)[j] \subseteq Update(p).waits[m.urn]
  <2>1. j \in {k \in 1 .. Len(r) : ~r[k].comp /\ r[k].urn = m.urn}
    BY <1>4
  <2> HIDE DEF r
  <2>2. Update(p).waits[m.urn] = UNION {Waits(r)[k] : k \in {l \in 1 .. Len(r) : ~r[l].comp /\ r[l].urn = m.urn}}
    BY GoalWaits DEF r
  <2> QED BY <2>1, <2>2
<1> HIDE DEF r
<1>5. i \in 1 .. Len(p) /\ j \in 1 .. Len(p) /\ i \in Nat /\ j \in Nat
  BY <1>2
<1>6. i > o /\ j > o
  <2>1. ~(i <= o) /\ ~(j <= o)
    BY <1>1, <1>3, <1>4, <1>5 DEF SerialFrom
  <2> QED BY <1>5, <2>1
<1>7. SerialFrom(r, o)
  <2> SUFFICES ASSUME NEW k \in 1 .. Len(r)
               PROVE  IF k <= o THEN r[k].lock = <<>> ELSE k > o + 1 => r[k - 1].urn \in r[k].deps
    BY DEF SerialFrom
  <2>1. k \in 1 .. Len(p) /\ r[k] = p[k]
    BY <1>2
  <2>2. k > o + 1 => k - 1 \in 1 .. Len(r) /\ r[k - 1] = p[k - 1]
    BY <1>2
  <2> QED BY <1>1, <2>1, <2>2 DEF SerialFrom
<1>8. i # j
  BY <1>3, <1>4
<1>9. CASE i < j
  <2>1. i \in 1 .. j - 1 /\ r[i] = p[i]
    BY <1>2, <1>5, <1>9
  <2>2. p[i].urn \in Waits(r)[j]
    BY <1>2, <1>6, <1>7, <2>1, SerialWaits
  <2> QED BY <1>3, <1>42, <2>2
<1>10. CASE j < i
  <2>1. j \in 1 .. i - 1 /\ r[j] = p[j]
    BY <1>2, <1>5, <1>10
  <2>2. p[j].urn \in Waits(r)[i]
    BY <1>2, <1>6, <1>7, <2>1, SerialWaits
  <2> QED BY <1>4, <1>41, <2>2
<1> QED BY <1>5, <1>8, <1>9, <1>10

-----------------------------------------------------------------------------
(* Statements that wait for whatever they name *)

\* A statement whose resource waits for all that its arguments name.
Waiting(s) == IsStatement(s) /\ s.uses \subseteq s.deps

\* ... and lock nothing.
Plain(s) == Waiting(s) /\ s.lock = <<>>

\* Programs of such statements.
WaitingProgram(p) == IsList(p) /\ \A s \in ToSet(p) : Waiting(s)
PlainProgram(p) == IsList(p) /\ \A s \in ToSet(p) : Plain(s)

\* Of such a program, every node of the goal depends on whatever it names.
LEMMA WaitingGoal ==
    ASSUME NEW p, WaitingProgram(p), NEW n \in Update(p).goal
    PROVE  n.uses \subseteq n.deps
<1>1. IsProgram(p)
  BY DEF WaitingProgram, IsProgram, Waiting
<1>2. PICK i \in 1 .. Len(Registered(p)) : i \in 1 .. Len(p) /\ n = p[i]
  BY <1>1, GoalNode
<1>3. p[i].uses \subseteq p[i].deps
  BY <1>2, ListLen DEF WaitingProgram, Waiting
<1> QED BY <1>2, <1>3

\* A plain program is all that a deployment asks: it waits, and there is nothing to
\* serialise.
LEMMA PlainIsWaiting == \A p : PlainProgram(p) => WaitingProgram(p) /\ IsProgram(p) /\ Serialised(p)
<1> SUFFICES ASSUME NEW p, PlainProgram(p) PROVE WaitingProgram(p) /\ IsProgram(p) /\ Serialised(p)
  OBVIOUS
<1>1. WaitingProgram(p) /\ IsProgram(p)
  BY DEF PlainProgram, WaitingProgram, IsProgram, Plain, Waiting
<1>2. SerialFrom(p, Len(p)) /\ Len(p) \in Nat
  BY ListLen DEF PlainProgram, Plain, SerialFrom
<1> QED BY <1>1, <1>2 DEF Serialised

\* What the constructors make.
LEMMA PlainResource ==
    ASSUME NEW parent, NEW type, NEW name, NEW refs
    PROVE  /\ Plain(Resource(parent, type, name, refs))
           /\ Resource(parent, type, name, refs).urn = <<Ancestry(parent), type, name>>
           /\ Resource(parent, type, name, refs).deps = Gate(parent) \cup refs
           /\ Resource(parent, type, name, refs).uses = refs
           /\ ~Resource(parent, type, name, refs).comp
           /\ ~Resource(parent, type, name, refs).early
  BY DEF Resource, Plain, Waiting, IsStatement, Statement

\* A component names nothing and waits for its parent.
LEMMA PlainComponent ==
    ASSUME NEW parent, NEW type, NEW name
    PROVE  /\ Plain(Component(parent, type, name))
           /\ Component(parent, type, name).deps = Gate(parent)
           /\ Component(parent, type, name).comp
           /\ ~Component(parent, type, name).early
  BY DEF Component, Plain, Waiting, IsStatement, Statement

\* An export is plain, and waits for nothing.
LEMMA PlainExport ==
    ASSUME NEW key
    PROVE  /\ Plain(Export(key)) /\ Export(key).deps = {} /\ Export(key).comp /\ ~Export(key).early
  BY DEF Export, Plain, Waiting, IsStatement, Statement

\* A fixed name changes nothing about what is waited for.
LEMMA PlainFixed ==
    ASSUME NEW s, NEW name, IsStatement(s)
    PROVE  /\ IsStatement(Fixed(s, name))
           /\ Plain(s) => Plain(Fixed(s, name))
           /\ Fixed(s, name).urn = s.urn /\ Fixed(s, name).deps = s.deps /\ Fixed(s, name).uses = s.uses
           /\ Fixed(s, name).comp = s.comp /\ Fixed(s, name).early = s.early
           /\ Fixed(s, name).lock = s.lock
  BY Fields DEF Fixed, Plain, Waiting, IsStatement

\* Taking something else in Azure does not either.
LEMMA PlainTaking ==
    ASSUME NEW s, NEW what, IsStatement(s)
    PROVE  /\ IsStatement(Taking(s, what))
           /\ Plain(s) => Plain(Taking(s, what))
           /\ Taking(s, what).urn = s.urn /\ Taking(s, what).deps = s.deps /\ Taking(s, what).uses = s.uses
           /\ Taking(s, what).comp = s.comp /\ Taking(s, what).early = s.early
           /\ Taking(s, what).lock = s.lock
  BY Fields DEF Taking, Plain, Waiting, IsStatement

\* OneAtATime sets the lock and nothing else.
LEMMA WaitingOneAtATime ==
    ASSUME NEW s, NEW object, IsStatement(s)
    PROVE  /\ IsStatement(OneAtATime(s, object))
           /\ OneAtATime(s, object).urn = s.urn /\ OneAtATime(s, object).deps = s.deps
           /\ OneAtATime(s, object).uses = s.uses
           /\ OneAtATime(s, object).comp = s.comp /\ OneAtATime(s, object).early = s.early
           /\ OneAtATime(s, object).lock = object
  BY Fields DEF OneAtATime, IsStatement

\* depends_on adds to what is waited for.
LEMMA PlainDependsOn ==
    ASSUME NEW s, NEW waits, IsStatement(s)
    PROVE  /\ IsStatement(DependsOn(s, waits))
           /\ Plain(s) => Plain(DependsOn(s, waits))
           /\ DependsOn(s, waits).urn = s.urn /\ DependsOn(s, waits).deps = s.deps \cup waits
           /\ DependsOn(s, waits).uses = s.uses
           /\ DependsOn(s, waits).comp = s.comp /\ DependsOn(s, waits).early = s.early
           /\ DependsOn(s, waits).lock = s.lock
  BY Fields DEF DependsOn, Plain, Waiting, IsStatement

\* A name adds to what is used, and not to what is waited for.
LEMMA WaitingNaming ==
    ASSUME NEW s, NEW named, IsStatement(s)
    PROVE  /\ IsStatement(Naming(s, named))
           /\ Naming(s, named).urn = s.urn /\ Naming(s, named).deps = s.deps
           /\ Naming(s, named).uses = s.uses \cup named
           /\ Naming(s, named).comp = s.comp /\ Naming(s, named).early = s.early
           /\ Naming(s, named).lock = s.lock
           /\ Plain(s) /\ named \subseteq s.deps => Plain(Naming(s, named))
  BY Fields DEF Naming, Plain, Waiting, IsStatement

\* What programs are put together with.
LEMMA PlainAt ==
    ASSUME NEW S, NEW p \in Seq(S)
    PROVE  PlainProgram(p) <=> \A i \in 1 .. Len(p) : Plain(p[i])
  BY ListSet DEF PlainProgram

\* The empty program is plain.
LEMMA PlainEmpty == PlainProgram(<<>>)
<1>1. <<>> \in Seq({}) /\ Len(<<>>) = 0
  BY EmptySeq
<1>2. \A i \in 1 .. Len(<<>>) : FALSE
  BY <1>1
<1> QED BY <1>1, <1>2, PlainAt

\* So is a plain statement by itself.
LEMMA PlainOne ==
    ASSUME NEW s, Plain(s)
    PROVE  PlainProgram(<<s>>)
<1>1. <<s>> \in Seq({s}) /\ Len(<<s>>) = 1 /\ <<s>>[1] = s
  OBVIOUS
<1>2. \A i \in 1 .. Len(<<s>>) : <<s>>[i] = s
  BY <1>1
<1> QED BY <1>1, <1>2, PlainAt

\* ... two plain programs one after the other,
LEMMA PlainConcat ==
    ASSUME NEW p, NEW q, PlainProgram(p), PlainProgram(q)
    PROVE  PlainProgram(p \o q)
  BY ConcatLists DEF PlainProgram

\* ... two plain statements,
LEMMA PlainTwo ==
    ASSUME NEW s, NEW t, Plain(s), Plain(t)
    PROVE  PlainProgram(<<s, t>>)
<1>1. <<s, t>> \in Seq({s, t}) /\ Len(<<s, t>>) = 2 /\ <<s, t>>[1] = s /\ <<s, t>>[2] = t
  OBVIOUS
<1>2. \A i \in 1 .. Len(<<s, t>>) : <<s, t>>[i] = s \/ <<s, t>>[i] = t
  BY <1>1
<1> QED BY <1>1, <1>2, PlainAt

\* ... an exception,
LEMMA PlainRaise == PlainProgram(Raise)
<1>1. Plain([Statement EXCEPT !.raises = TRUE])
  BY DEF Plain, Waiting, IsStatement, Statement
<1> QED BY <1>1, PlainOne DEF Raise

\* ... an optional part,
LEMMA PlainWhen ==
    ASSUME NEW condition, NEW p, condition => PlainProgram(p)
    PROVE  PlainProgram(When(condition, p))
  BY PlainEmpty DEF When

\* ... what a validator accepts or refuses,
LEMMA PlainValidated ==
    ASSUME NEW accepted, NEW p, accepted => PlainProgram(p)
    PROVE  PlainProgram(Validated(accepted, p))
<1>1. Plain([Statement EXCEPT !.raises = TRUE, !.early = TRUE])
  BY DEF Plain, Waiting, IsStatement, Statement
<1> QED BY <1>1, PlainOne DEF Validated

\* ... a configuration read late,
LEMMA PlainReadHere ==
    ASSUME NEW p, PlainProgram(p)
    PROVE  PlainProgram(ReadHere(p))
  BY PlainRaise DEF ReadHere

\* ... and a plain program for every entry of a list.
LEMMA PlainAll ==
    ASSUME NEW f, NEW list, IsList(list), f = [i \in 1 .. Len(list) |-> f[i]],
           \A i \in 1 .. Len(list) : PlainProgram(f[i])
    PROVE  PlainProgram(FlattenSeq(f))
<1>1. IsList(f) /\ Len(f) = Len(list)
  BY ListLen, ListOf
<1> QED BY <1>1, FlattenList DEF PlainProgram

-----------------------------------------------------------------------------
(* Statements that wait for what comes before them *)

\* The resources that a program provides.
Provides(p) == {s.urn : s \in {t \in ToSet(p) : ~t.comp}}

\* Every statement waits for resources that come before it, or that `before' has.
Follows(p, before) ==
    \A i \in 1 .. Len(p) :
        p[i].deps \subseteq before \cup {p[j].urn : j \in {k \in 1 .. i - 1 : ~p[k].comp}}

\* All that a statement of such a program waits for comes before it.
LEMMA FollowsWaits ==
    ASSUME NEW p, IsList(p), Follows(p, {}), NEW i \in 1 .. Len(p)
    PROVE  Waits(p)[i] \subseteq {p[j].urn : j \in {k \in 1 .. i - 1 : ~p[k].comp}}
<1> DEFINE Before(l) == {p[j].urn : j \in {k \in 1 .. l - 1 : ~p[k].comp}}
           T == {k \in Nat : \A l \in 1 .. k : l \in 1 .. Len(p) => Waits(p)[l] \subseteq Before(l)}
<1>1. Len(p) \in Nat /\ i \in Nat
  BY ListLen
<1>2. 0 \in T
  OBVIOUS
<1>3. ASSUME NEW k \in Nat, k \in T PROVE k + 1 \in T
  <2>1. ASSUME k + 1 \in 1 .. Len(p) PROVE Waits(p)[k + 1] \subseteq Before(k + 1)
    <3>1. p[k + 1].deps \subseteq Before(k + 1)
      BY <2>1 DEF Follows
    <3>2. ASSUME NEW j \in 1 .. (k + 1) - 1 PROVE Waits(p)[j] \subseteq Before(k + 1)
      <4>1. j \in 1 .. k /\ j \in 1 .. Len(p)
        BY <1>1, <2>1
      <4>2. Waits(p)[j] \subseteq Before(j)
        BY <1>3, <4>1
      <4>3. Before(j) \subseteq Before(k + 1)
        <5>1. \A l \in 1 .. j - 1 : l \in 1 .. (k + 1) - 1
          BY <4>1
        <5> QED BY <5>1
      <4> QED BY <4>2, <4>3
    <3> HIDE DEF Before
    <3> QED BY <2>1, <3>1, <3>2, WaitsSteps
  <2>2. \A l \in 1 .. k + 1 : l \in 1 .. k \/ l = k + 1
    OBVIOUS
  <2> HIDE DEF Before
  <2> QED BY <1>3, <2>1, <2>2
<1>4. i \in T
  <2> HIDE DEF T
  <2> QED BY <1>1, <1>2, <1>3, Induction
<1> QED BY <1>1, <1>4

\* In an update made of it, a resource waits for what it depends on, and whatever it
\* waits for is declared, as a deployment assumes.
LEMMA FollowsFits ==
    ASSUME NEW p, IsProgram(p), Follows(p, {}), NEW n \in Update(p).goal
    PROVE  /\ n.deps \subseteq Update(p).waits[n.urn]
           /\ Update(p).waits[n.urn] \subseteq UrnsOf(Update(p).goal)
<1> DEFINE r == Registered(p)
           Same == {k \in 1 .. Len(r) : ~r[k].comp /\ r[k].urn = n.urn}
<1>1. /\ IsList(r) /\ Len(r) \in Nat /\ Len(p) \in Nat /\ Len(r) <= Len(p)
      /\ \A i \in 1 .. Len(r) : r[i] = p[i]
  BY RegisteredIsPrefix, ListLen DEF IsProgram
<1>2. Update(p).waits[n.urn] = UNION {Waits(r)[i] : i \in Same}
  BY GoalWaits
<1>3. Follows(r, {})
  <2> SUFFICES ASSUME NEW k \in 1 .. Len(r)
               PROVE  r[k].deps \subseteq {r[j].urn : j \in {l \in 1 .. k - 1 : ~r[l].comp}}
    BY DEF Follows
  <2> HIDE DEF r
  <2>1. k \in 1 .. Len(p) /\ r[k] = p[k] /\ \A j \in 1 .. k - 1 : r[j] = p[j]
    BY <1>1
  <2>2. p[k].deps \subseteq {p[j].urn : j \in {l \in 1 .. k - 1 : ~p[l].comp}}
    BY <2>1 DEF Follows
  <2> QED BY <2>1, <2>2
<1>4. ASSUME NEW j \in 1 .. Len(r), ~r[j].comp PROVE r[j].urn \in UrnsOf(Update(p).goal)
  <2>1. r[j] \in Update(p).goal
    BY <1>4 DEF Update
  <2> HIDE DEF r
  <2> QED BY <2>1 DEF UrnsOf
<1>5. PICK i \in 1 .. Len(r) : ~p[i].comp /\ n = p[i] /\ r[i] = p[i]
  BY GoalNode
<1> HIDE DEF r
<1>6. ASSUME NEW k \in Same PROVE Waits(r)[k] \subseteq UrnsOf(Update(p).goal)
  <2>1. k \in 1 .. Len(r)
    OBVIOUS
  <2>2. Waits(r)[k] \subseteq {r[j].urn : j \in {l \in 1 .. k - 1 : ~r[l].comp}}
    BY <1>1, <1>3, <2>1, FollowsWaits
  <2>3. \A j \in 1 .. k - 1 : j \in 1 .. Len(r)
    BY <1>1, <2>1
  <2> QED BY <1>4, <2>2, <2>3
<1>7. i \in Same
  BY <1>5
<1>8. r[i].deps \subseteq Waits(r)[i]
  BY <1>1, WaitsInclude
<1> HIDE DEF Same
<1>9. n.deps \subseteq UNION {Waits(r)[k] : k \in Same}
  BY <1>5, <1>7, <1>8
<1>10. UNION {Waits(r)[k] : k \in Same} \subseteq UrnsOf(Update(p).goal)
  BY <1>6
<1> QED BY <1>2, <1>9, <1>10

\* Every statement waits for what `before' has.
Among(p, before) == \A s \in ToSet(p) : s.deps \subseteq before

\* Who waits for what is there already waits for what comes before.
LEMMA AmongFollows ==
    ASSUME NEW p, NEW before, IsList(p), Among(p, before)
    PROVE  Follows(p, before)
  BY ListLen DEF Among, Follows

\* A program may wait for what the one before it provides.
LEMMA FollowsConcat ==
    ASSUME NEW p, NEW q, NEW before, IsList(p), IsList(q),
           Follows(p, before), Follows(q, before \cup Provides(p))
    PROVE  Follows(p \o q, before)
<1>1. Len(p) \in Nat /\ Len(q) \in Nat
  BY ListLen
<1>2. /\ Len(p \o q) = Len(p) + Len(q)
      /\ \A i \in 1 .. Len(p) : (p \o q)[i] = p[i]
      /\ \A i \in 1 .. Len(q) : (p \o q)[Len(p) + i] = q[i]
  BY ConcatLists
<1> DEFINE pq == p \o q
           Before(l) == {pq[j].urn : j \in {k \in 1 .. l - 1 : ~pq[k].comp}}
<1> HIDE DEF pq
<1>3. ASSUME NEW i \in 1 .. Len(p) PROVE pq[i].deps \subseteq before \cup Before(i)
  <2>1. pq[i] = p[i] /\ \A j \in 1 .. i - 1 : pq[j] = p[j]
    BY <1>1, <1>2 DEF pq
  <2>2. p[i].deps \subseteq before \cup {p[j].urn : j \in {k \in 1 .. i - 1 : ~p[k].comp}}
    BY DEF Follows
  <2> QED BY <2>1, <2>2
<1>4. ASSUME NEW i \in 1 .. Len(q) PROVE pq[Len(p) + i].deps \subseteq before \cup Before(Len(p) + i)
  <2>1. q[i].deps \subseteq before \cup Provides(p) \cup {q[j].urn : j \in {k \in 1 .. i - 1 : ~q[k].comp}}
    BY DEF Follows
  <2>2. Provides(p) \subseteq Before(Len(p) + i)
    <3>1. \A j \in 1 .. Len(p) : pq[j] = p[j] /\ j \in 1 .. (Len(p) + i) - 1
      BY <1>1, <1>2 DEF pq
    <3>2. Provides(p) = {p[j].urn : j \in {k \in 1 .. Len(p) : ~p[k].comp}}
      BY ListLen DEF Provides
    <3> QED BY <3>1, <3>2
  <2>3. ASSUME NEW j \in 1 .. i - 1, ~q[j].comp PROVE q[j].urn \in Before(Len(p) + i)
    <3>1. pq[Len(p) + j] = q[j] /\ Len(p) + j \in 1 .. (Len(p) + i) - 1
      BY <1>1, <1>2 DEF pq
    <3> QED BY <2>3, <3>1
  <2>4. pq[Len(p) + i] = q[i]
    BY <1>2 DEF pq
  <2> HIDE DEF Before
  <2> QED BY <2>1, <2>2, <2>3, <2>4
<1>5. \A l \in 1 .. Len(pq) : l \in 1 .. Len(p) \/ (l - Len(p) \in 1 .. Len(q) /\ l = Len(p) + (l - Len(p)))
  BY <1>1, <1>2 DEF pq
<1>6. \A l \in 1 .. Len(pq) : pq[l].deps \subseteq before \cup Before(l)
  <2> HIDE DEF Before
  <2> QED BY <1>3, <1>4, <1>5
<1> QED BY <1>6 DEF Follows, pq

\* Statements that lock nothing may come before.
LEMMA SerialConcat ==
    ASSUME NEW p, NEW q, NEW o \in Nat, IsList(p), IsList(q),
           \A s \in ToSet(p) : s.lock = <<>>, SerialFrom(q, o)
    PROVE  SerialFrom(p \o q, Len(p) + o)
<1>1. Len(p) \in Nat /\ Len(q) \in Nat
  BY ListLen
<1>2. /\ Len(p \o q) = Len(p) + Len(q)
      /\ \A i \in 1 .. Len(p) : (p \o q)[i] = p[i]
      /\ \A i \in 1 .. Len(q) : (p \o q)[Len(p) + i] = q[i]
  BY ConcatLists
<1> SUFFICES ASSUME NEW l \in 1 .. Len(p) + Len(q)
             PROVE  IF l <= Len(p) + o THEN (p \o q)[l].lock = <<>>
                    ELSE l > Len(p) + o + 1 => (p \o q)[l - 1].urn \in (p \o q)[l].deps
  BY <1>2 DEF SerialFrom
<1>3. CASE l \in 1 .. Len(p)
  <2>1. l <= Len(p) + o
    BY <1>1, <1>3
  <2>2. p[l].lock = <<>>
    BY <1>3, ListLen
  <2> QED BY <1>2, <1>3, <2>1, <2>2
<1>4. CASE l \notin 1 .. Len(p)
  <2> DEFINE i == l - Len(p)
  <2>1. i \in 1 .. Len(q) /\ l = Len(p) + i /\ l - 1 = Len(p) + (i - 1)
    BY <1>1, <1>4
  <2> HIDE DEF i
  <2>2. /\ l <= Len(p) + o <=> i <= o
        /\ l > Len(p) + o + 1 <=> i > o + 1
        /\ i > o + 1 => i - 1 \in 1 .. Len(q)
    BY <1>1, <2>1
  <2>3. IF i <= o THEN q[i].lock = <<>> ELSE i > o + 1 => q[i - 1].urn \in q[i].deps
    BY <2>1 DEF SerialFrom
  <2>4. (p \o q)[l] = q[i] /\ (i > o + 1 => (p \o q)[l - 1] = q[i - 1])
    BY <1>2, <2>1, <2>2
  <2> QED BY <2>2, <2>3, <2>4
<1> QED BY <1>3, <1>4

-----------------------------------------------------------------------------
(* The stack of a firewall: deploy_firewall, for any configuration *)

\* A list of programs of one statement each is the program of these statements.
LEMMA FlattenOnes ==
    ASSUME NEW e, IsList(e), NEW f, f = [i \in 1 .. Len(e) |-> <<e[i]>>]
    PROVE  FlattenSeq(f) = e
<1>1. Len(e) \in Nat /\ e \in Seq(ToSet(e)) /\ \A i \in 1 .. Len(e) : e[i] \in ToSet(e)
  BY ListLen DEF IsList
<1>2. \A i \in 1 .. Len(e) : f[i] = <<e[i]>>
  OBVIOUS
<1>3. IsList(f) /\ Len(f) = Len(e)
  BY <1>1, ListOf
<1> DEFINE S == ToSet(e)
<1> HIDE DEF S
<1>4. CASE Len(e) = 0
  <2>1. e = <<>> /\ f = <<>>
    BY <1>1, <1>3, <1>4, EmptySeq DEF IsList
  <2> QED BY <1>3, <1>4, <2>1 DEF FlattenSeq
<1>5. CASE Len(e) # 0
  <2>0. Len(f) \in Nat /\ Len(f) # 0
    BY <1>1, <1>3, <1>5
  <2>a. PICK g : /\ FlattenSeq(f) = g[Len(f)]
                 /\ g[1] = f[1]
                 /\ \A i \in 2 .. Len(f) : g[i] = g[i - 1] \o f[i]
    BY <2>0, FlattenSteps
  <2>1. /\ FlattenSeq(f) = g[Len(e)]
        /\ g[1] = f[1]
        /\ \A i \in 2 .. Len(e) : g[i] = g[i - 1] \o f[i]
    BY <1>3, <2>a
  <2> DEFINE Holds(k) == g[k] \in Seq(S) /\ Len(g[k]) = k /\ \A i \in 1 .. k : g[k][i] = e[i]
             T == {k \in Nat : k + 1 \in 1 .. Len(e) => Holds(k + 1)}
  <2>2. 0 \in T
    <3>1. 1 \in 1 .. Len(e) /\ e[1] \in S
      BY <1>1, <1>5 DEF S
    <3>2. g[1] = <<e[1]>>
      BY <1>2, <2>1, <3>1
    <3>3. <<e[1]>> \in Seq(S) /\ Len(<<e[1]>>) = 1 /\ <<e[1]>>[1] = e[1]
      BY <3>1
    <3>4. \A i \in 1 .. 1 : i = 1
      OBVIOUS
    <3>5. Holds(1)
      BY <3>2, <3>3, <3>4
    <3> HIDE DEF Holds
    <3> QED BY <3>5, 0 + 1 = 1
  <2>3. ASSUME NEW k \in Nat, k \in T PROVE k + 1 \in T
    <3>1. ASSUME k + 2 \in 1 .. Len(e) PROVE Holds(k + 2)
      <4>1. k + 1 \in 1 .. Len(e) /\ k + 2 \in 2 .. Len(e) /\ (k + 2) - 1 = k + 1
        BY <1>1, <3>1
      <4>2. Holds(k + 1)
        BY <2>3, <4>1
      <4>3. g[k + 2] = g[k + 1] \o <<e[k + 2]>>
        BY <1>2, <2>1, <3>1, <4>1
      <4>4. e[k + 2] \in S
        BY <1>1, <3>1 DEF S
      <4>5. <<e[k + 2]>> \in Seq(S) /\ Len(<<e[k + 2]>>) = 1 /\ <<e[k + 2]>>[1] = e[k + 2]
        BY <4>4
      <4>6. /\ g[k + 2] \in Seq(S)
            /\ Len(g[k + 2]) = (k + 1) + 1
            /\ \A i \in 1 .. (k + 1) + 1 :
                 g[k + 2][i] = IF i <= k + 1 THEN g[k + 1][i] ELSE <<e[k + 2]>>[i - (k + 1)]
        <5> DEFINE a == g[k + 1]
                   b == <<e[k + 2]>>
        <5>1. a \in Seq(S) /\ b \in Seq(S) /\ Len(a) = k + 1 /\ Len(b) = 1
          BY <4>2, <4>5
        <5>2. g[k + 2] = a \o b
          BY <4>3
        <5> HIDE DEF a, b
        <5>3. /\ a \o b \in Seq(S) /\ Len(a \o b) = Len(a) + Len(b)
              /\ \A i \in 1 .. Len(a) + Len(b) : (a \o b)[i] = IF i <= Len(a) THEN a[i] ELSE b[i - Len(a)]
          BY <5>1, ConcatProperties
        <5> QED BY <5>1, <5>2, <5>3 DEF a, b
      <4>7. \A i \in 1 .. k + 2 : i \in 1 .. k + 1 \/ (i = k + 2 /\ i - (k + 1) = 1)
        OBVIOUS
      <4>8. ASSUME NEW i \in 1 .. k + 2 PROVE g[k + 2][i] = e[i]
        <5>1. CASE i \in 1 .. k + 1
          BY <4>2, <4>6, <5>1
        <5>2. CASE i = k + 2
          BY <4>5, <4>6, <4>7, <5>2
        <5> QED BY <4>7, <5>1, <5>2
      <4> QED BY <4>6, <4>8
    <3>2. (k + 1) + 1 = k + 2 /\ k + 1 \in Nat
      OBVIOUS
    <3> HIDE DEF Holds
    <3> QED BY <3>1, <3>2
  <2>4. Len(e) - 1 \in Nat /\ (Len(e) - 1) + 1 = Len(e) /\ Len(e) \in 1 .. Len(e)
    BY <1>1, <1>5
  <2>5. Len(e) - 1 \in T
    <3> HIDE DEF T
    <3> QED BY <2>2, <2>3, <2>4, Induction
  <2>6. Holds(Len(e))
    <3> HIDE DEF Holds
    <3> QED BY <2>4, <2>5
  <2> QED BY <1>1, <2>1, <2>6, SeqEqual DEF S
<1> QED BY <1>4, <1>5

\* The resource group comes first in every program.
LEMMA GroupFacts ==
    /\ Plain(ResourceGroup) /\ ResourceGroup.deps = {} /\ ~ResourceGroup.comp /\ ResourceGroup.urn = RG
    /\ Gate(ResourceGroup) = {RG} /\ Gate(Root) = {}
<1>1. Gate(Root) = {}
  BY DEF Gate, Root, Statement
<1>2. Plain(ResourceGroup) /\ ResourceGroup.deps = {} /\ ~ResourceGroup.comp
  BY <1>1, PlainResource DEF ResourceGroup
<1> QED BY <1>1, <1>2 DEF Gate, RG

\* The beginning of every program provides the resource group.
LEMMA BeginFacts == PlainProgram(Begin) /\ Follows(Begin, {}) /\ Provides(Begin) = {RG}
<1>1. PlainProgram(Begin)
  BY GroupFacts, PlainExport, PlainTwo DEF Begin
<1>2. ToSet(Begin) = {ResourceGroup, Export(<<"stack">>)}
  BY DEF Begin, ToSet
<1>3. Among(Begin, {})
  BY <1>2, GroupFacts, PlainExport DEF Among
<1>4. Provides(Begin) = {RG}
  BY <1>2, GroupFacts, PlainExport DEF Provides
<1> QED BY <1>1, <1>3, <1>4, AmongFollows DEF PlainProgram

\* The firewall and its policy, what they wait for.
LEMMA FirewallFacts ==
    ASSUME NEW c
    PROVE  /\ Plain(FirewallComponent) /\ FirewallComponent.deps = {RG} /\ FirewallComponent.comp
           /\ Plain(FirewallPolicy(c)) /\ ~FirewallPolicy(c).comp
           /\ FirewallPolicy(c).deps = {RG} \cup UNION ToSet(c.log_workspace)
           /\ Plain(Firewall(c)) /\ ~Firewall(c).comp
           /\ Firewall(c).deps = {RG, FirewallPolicy(c).urn} \cup Urns(ToSet(FirewallIps(c)))
<1>1. Plain(FirewallComponent) /\ FirewallComponent.deps = {RG} /\ FirewallComponent.comp
  BY GroupFacts, PlainComponent DEF FirewallComponent
<1>2. /\ Plain(FirewallPolicy(c)) /\ ~FirewallPolicy(c).comp
      /\ FirewallPolicy(c).deps = {RG} \cup UNION ToSet(c.log_workspace)
  BY GroupFacts, PlainResource, PlainFixed DEF FirewallPolicy, Plain, Waiting
<1>3. Gate(FirewallPolicy(c)) = {FirewallPolicy(c).urn}
  BY <1>2 DEF Gate
<1>4. /\ Plain(Firewall(c)) /\ ~Firewall(c).comp
      /\ Firewall(c).deps = {FirewallPolicy(c).urn} \cup
                            ({RG, FirewallPolicy(c).urn} \cup Urns(ToSet(FirewallIps(c))))
  <2> DEFINE s == Resource(FirewallPolicy(c), "AzureFirewall", c.name,
                           {RG, FirewallPolicy(c).urn} \cup Urns(ToSet(FirewallIps(c))))
  <2>1. /\ Plain(s) /\ ~s.comp
        /\ s.deps = {FirewallPolicy(c).urn} \cup
                    ({RG, FirewallPolicy(c).urn} \cup Urns(ToSet(FirewallIps(c))))
    BY <1>3, PlainResource
  <2>2. Firewall(c) = Fixed(s, c.name)
    BY DEF Firewall
  <2> HIDE DEF s
  <2> QED BY <2>1, <2>2, PlainFixed DEF Plain, Waiting
<1> QED BY <1>1, <1>2, <1>4

\* A group waits for the policy and the firewall, and for the group before it.
LEMMA GroupOfPolicy ==
    ASSUME NEW c, NEW i
    PROVE  /\ Waiting(RuleCollectionGroup(c, i)) /\ ~RuleCollectionGroup(c, i).comp
           /\ RuleCollectionGroup(c, i).urn = PolicyGroup(c, c.rule_collection_groups[i]).urn
           /\ RuleCollectionGroup(c, i).deps =
                {RG, FirewallPolicy(c).urn, Firewall(c).urn} \cup
                (IF i = 1 THEN {} ELSE {PolicyGroup(c, c.rule_collection_groups[i - 1]).urn})
<1>1. ASSUME NEW group
      PROVE  /\ Waiting(PolicyGroup(c, group)) /\ ~PolicyGroup(c, group).comp
             /\ PolicyGroup(c, group).deps = {RG, FirewallPolicy(c).urn, Firewall(c).urn}
  <2> DEFINE s == Resource(Firewall(c), "RuleCollectionGroup", group.name, {RG, FirewallPolicy(c).urn})
             t == Fixed(s, group.name)
             u == OneAtATime(t, FirewallPolicy(c).urn)
  <2>1. Gate(Firewall(c)) = {Firewall(c).urn}
    BY FirewallFacts DEF Gate
  <2>2. IsStatement(s) /\ ~s.comp /\ s.uses = {RG, FirewallPolicy(c).urn}
        /\ s.deps = {Firewall(c).urn} \cup {RG, FirewallPolicy(c).urn}
    BY <2>1, PlainResource DEF Plain, Waiting
  <2> HIDE DEF s
  <2>3. IsStatement(t) /\ ~t.comp /\ t.uses = s.uses /\ t.deps = s.deps
    BY <2>2, PlainFixed
  <2> HIDE DEF t
  <2>4. IsStatement(u) /\ ~u.comp /\ u.uses = s.uses /\ u.deps = s.deps
    BY <2>3, WaitingOneAtATime
  <2> HIDE DEF u
  <2> DEFINE what == <<"group priority", <<FirewallPolicy(c).urn[3], group.priority>>>>
  <2>5. PolicyGroup(c, group) = Taking(u, what)
    BY DEF PolicyGroup, s, t, u
  <2> HIDE DEF what
  <2>6. IsStatement(PolicyGroup(c, group)) /\ ~PolicyGroup(c, group).comp
        /\ PolicyGroup(c, group).uses = s.uses /\ PolicyGroup(c, group).deps = s.deps
    BY <2>4, <2>5, PlainTaking
  <2> QED BY <2>2, <2>6 DEF Waiting
<1> QED BY <1>1, PlainDependsOn DEF RuleCollectionGroup, Waiting

\* What decides about the stack is well-formed: a list of groups, and a field for
\* the workspace that the base fills in.
FirewallConfiguration(c) ==
    /\ {"log_workspace", "rule_collection_groups"} \subseteq DOMAIN c
    /\ IsList(c.rule_collection_groups)

\* What stands before the groups.
FirewallHead(c) ==
    <<FirewallComponent, FirewallPolicy(c)>>
    \o FirewallIps(c) \o <<Firewall(c)>>
    \o Diagnostics(c, Firewall(c))

\* The groups, one statement each.
FirewallGroups(c) == [i \in 1 .. Len(c.rule_collection_groups) |-> RuleCollectionGroup(c, i)]

\* A single statement waits for what is there.
LEMMA AmongOne ==
    ASSUME NEW s, NEW before, s.deps \subseteq before
    PROVE  Among(<<s>>, before)
<1>1. ToSet(<<s>>) = {s}
  BY DEF ToSet
<1> QED BY <1>1 DEF Among

\* Two programs provide what each does.
LEMMA ProvidesConcat ==
    ASSUME NEW p, NEW q, IsList(p), IsList(q)
    PROVE  Provides(p \o q) = Provides(p) \cup Provides(q)
  BY ConcatLists DEF Provides

\* What is waited for may be among more.
LEMMA FollowsMore ==
    ASSUME NEW p, NEW before, NEW more, Follows(p, before), before \subseteq more
    PROVE  Follows(p, more)
  BY DEF Follows

\* The addresses of a firewall wait for the resource group.
LEMMA FirewallIpsFacts ==
    ASSUME NEW c
    PROVE  /\ PlainProgram(FirewallIps(c)) /\ Among(FirewallIps(c), {RG})
           /\ Provides(FirewallIps(c)) = Urns(ToSet(FirewallIps(c)))
<1>1. ASSUME NEW workload
      PROVE  LET s == PublicIp(FirewallComponent, workload) IN Plain(s) /\ ~s.comp /\ s.deps = {RG}
  <2>1. Gate(FirewallComponent) = {RG}
    BY FirewallFacts DEF Gate
  <2> QED BY <2>1, PlainResource DEF PublicIp
<1> DEFINE Good(p) == PlainProgram(p) /\ \A s \in ToSet(p) : ~s.comp /\ s.deps = {RG}
<1>2. ASSUME NEW workload, NEW condition
      PROVE  Good(When(condition, <<PublicIp(FirewallComponent, workload)>>))
  <2>1. PlainProgram(<<PublicIp(FirewallComponent, workload)>>)
        /\ ToSet(<<PublicIp(FirewallComponent, workload)>>) = {PublicIp(FirewallComponent, workload)}
    BY <1>1, PlainOne DEF ToSet
  <2>2. Good(<<>>)
    BY PlainEmpty DEF ToSet
  <2> QED BY <1>1, <2>1, <2>2 DEF When
<1>3. Good(FirewallIps(c))
  <2>1. \A p, q : Good(p) /\ Good(q) => Good(p \o q)
    BY PlainConcat, ConcatLists DEF PlainProgram
  <2> HIDE DEF Good
  <2> QED BY <1>2, <2>1 DEF FirewallIps
<1> QED BY <1>3 DEF Among, Provides, Urns

\* What stands before the groups waits for what comes before it, and has the firewall
\* and its policy.
LEMMA FirewallHeadFacts ==
    ASSUME NEW c, NEW before, IsList(c.log_workspace),
           {RG} \cup UNION ToSet(c.log_workspace) \subseteq before
    PROVE  /\ PlainProgram(FirewallHead(c))
           /\ Follows(FirewallHead(c), before)
           /\ {FirewallPolicy(c).urn, Firewall(c).urn} \subseteq Provides(FirewallHead(c))
<1> DEFINE a == <<FirewallComponent, FirewallPolicy(c)>>
           b == FirewallIps(c)
           f == <<Firewall(c)>>
           d == Diagnostics(c, Firewall(c))
<1>1. /\ PlainProgram(a) /\ Among(a, before) /\ Provides(a) = {FirewallPolicy(c).urn}
  <2>1. ToSet(a) = {FirewallComponent, FirewallPolicy(c)}
    BY DEF ToSet
  <2> QED BY <2>1, FirewallFacts, PlainTwo DEF Among, Provides
<1>2. PlainProgram(b) /\ Among(b, before \cup Provides(a)) /\ Provides(b) = Urns(ToSet(b))
  BY FirewallIpsFacts DEF Among
<1>3. PlainProgram(f) /\ Among(f, before \cup Provides(a) \cup Provides(b)) /\ Provides(f) = {Firewall(c).urn}
  <2> DEFINE s == Firewall(c)
  <2>1. Plain(s) /\ ~s.comp /\ s.deps = {RG, FirewallPolicy(c).urn} \cup Urns(ToSet(b))
    BY FirewallFacts
  <2>2. s.deps \subseteq before \cup Provides(a) \cup Provides(b)
    <3> HIDE DEF a, b, s
    <3> QED BY <1>1, <1>2, <2>1
  <2>3. f = <<s>> /\ ToSet(f) = {s}
    BY DEF ToSet
  <2> HIDE DEF a, b, s, f
  <2> QED BY <2>1, <2>2, <2>3, PlainOne DEF Among, Provides, s
<1>4. PlainProgram(d) /\ Among(d, before \cup {Firewall(c).urn})
  <2> DEFINE g == [i \in 1 .. Len(c.log_workspace) |->
                     <<DiagnosticSetting(Firewall(c), Firewall(c), c.log_workspace[i])>>]
  <2>1. d = FlattenSeq(g)
    BY DEF Diagnostics, ForEach
  <2>2. ASSUME NEW i \in 1 .. Len(c.log_workspace)
        PROVE  PlainProgram(g[i]) /\ Among(g[i], before \cup {Firewall(c).urn})
    <3> DEFINE s == DiagnosticSetting(Firewall(c), Firewall(c), c.log_workspace[i])
    <3>1. Plain(s) /\ s.deps = {Firewall(c).urn} \cup c.log_workspace[i]
      <4>1. Gate(Firewall(c)) = {Firewall(c).urn}
        BY FirewallFacts DEF Gate
      <4> QED BY <4>1, PlainResource DEF DiagnosticSetting
    <3>2. c.log_workspace[i] \subseteq before
      BY ListLen
    <3>3. g[i] = <<s>>
      OBVIOUS
    <3> HIDE DEF s, g
    <3> QED BY <3>1, <3>2, <3>3, PlainOne, AmongOne
  <2>3. IsList(g) /\ Len(g) = Len(c.log_workspace)
    BY ListLen, ListOf
  <2> HIDE DEF g
  <2>4. PlainProgram(FlattenSeq(g)) /\ ToSet(FlattenSeq(g)) = UNION {ToSet(g[i]) : i \in 1 .. Len(g)}
    BY <2>2, <2>3, FlattenList DEF PlainProgram
  <2> QED BY <2>1, <2>2, <2>3, <2>4 DEF Among
<1>5. FirewallHead(c) = ((a \o b) \o f) \o d
  BY DEF FirewallHead
<1> HIDE DEF a, b, f, d
<1>6. PlainProgram(a \o b) /\ Follows(a \o b, before) /\ Provides(a \o b) = Provides(a) \cup Provides(b)
  BY <1>1, <1>2, PlainConcat, AmongFollows, FollowsConcat, ProvidesConcat DEF PlainProgram
<1>7. /\ PlainProgram((a \o b) \o f) /\ Follows((a \o b) \o f, before)
      /\ Provides((a \o b) \o f) = Provides(a \o b) \cup Provides(f)
  <2>1. Follows(f, before \cup Provides(a \o b))
    <3>1. before \cup Provides(a \o b) = before \cup Provides(a) \cup Provides(b)
      BY <1>6
    <3> QED BY <1>3, <3>1, AmongFollows DEF PlainProgram
  <2> QED BY <1>3, <1>6, <2>1, PlainConcat, FollowsConcat, ProvidesConcat DEF PlainProgram
<1>8. /\ PlainProgram(FirewallHead(c)) /\ Follows(FirewallHead(c), before)
      /\ Provides(FirewallHead(c)) = Provides((a \o b) \o f) \cup Provides(d)
  <2>1. Follows(d, before \cup Provides((a \o b) \o f))
    <3>1. before \cup {Firewall(c).urn} \subseteq before \cup Provides((a \o b) \o f)
      BY <1>3, <1>7
    <3> QED BY <1>4, <3>1, AmongFollows, FollowsMore DEF PlainProgram
  <2> QED BY <1>4, <1>5, <1>7, <2>1, PlainConcat, FollowsConcat, ProvidesConcat DEF PlainProgram
<1> QED BY <1>1, <1>3, <1>6, <1>7, <1>8

\* The groups wait for these two and each for the one before it: a chain from the
\* first on.
LEMMA FirewallGroupsFacts ==
    ASSUME NEW c, NEW before, IsList(c.rule_collection_groups),
           {RG, FirewallPolicy(c).urn, Firewall(c).urn} \subseteq before
    PROVE  /\ WaitingProgram(FirewallGroups(c))
           /\ Follows(FirewallGroups(c), before)
           /\ SerialFrom(FirewallGroups(c), 0)
<1> DEFINE e == FirewallGroups(c)
           n == Len(c.rule_collection_groups)
<1>1. n \in Nat /\ IsList(e) /\ Len(e) = n /\ \A i \in 1 .. n : e[i] = RuleCollectionGroup(c, i)
  BY ListLen, ListOf DEF FirewallGroups
<1> HIDE DEF e, n
<1>2. ASSUME NEW i \in 1 .. n PROVE Waiting(e[i]) /\ ~e[i].comp
  BY <1>1, GroupOfPolicy
<1>3. WaitingProgram(e)
  BY <1>1, <1>2, ListLen DEF WaitingProgram
<1>4. ASSUME NEW i \in 1 .. n, i # 1
      PROVE  /\ i - 1 \in 1 .. i - 1 /\ i - 1 \in 1 .. n /\ ~e[i - 1].comp
             /\ e[i].deps = {RG, FirewallPolicy(c).urn, Firewall(c).urn} \cup {e[i - 1].urn}
  <2>1. i - 1 \in 1 .. i - 1 /\ i - 1 \in 1 .. n
    BY <1>1, <1>4
  <2> QED BY <1>1, <1>2, <1>4, <2>1, GroupOfPolicy
<1>5. Follows(e, before)
  <2> SUFFICES ASSUME NEW i \in 1 .. n
               PROVE  e[i].deps \subseteq before \cup {e[j].urn : j \in {k \in 1 .. i - 1 : ~e[k].comp}}
    BY <1>1 DEF Follows
  <2>1. CASE i = 1
    BY <1>1, <2>1, GroupOfPolicy
  <2>2. CASE i # 1
    BY <1>4, <2>2
  <2> QED BY <2>1, <2>2
<1>6. SerialFrom(e, 0)
  <2> SUFFICES ASSUME NEW i \in 1 .. n
               PROVE  ~(i <= 0) /\ (i > 0 + 1 => e[i - 1].urn \in e[i].deps)
    BY <1>1 DEF SerialFrom
  <2>1. ~(i <= 0) /\ (i > 0 + 1 => i # 1)
    BY <1>1
  <2> QED BY <1>4, <2>1
<1> QED BY <1>3, <1>5, <1>6 DEF e

\* The groups of a firewall are one program of single statements.
LEMMA FirewallProgramIs ==
    ASSUME NEW c, IsList(c.rule_collection_groups)
    PROVE  FirewallProgram(c) = Validated(ValidFirewall(c), FirewallHead(c) \o FirewallGroups(c))
<1> DEFINE e == FirewallGroups(c)
           n == Len(c.rule_collection_groups)
           f == [i \in 1 .. n |-> <<RuleCollectionGroup(c, i)>>]
<1>1. n \in Nat
  BY ListLen
<1>2. IsList(e) /\ Len(e) = n
  BY <1>1, ListOf DEF FirewallGroups
<1>3. f = [i \in 1 .. Len(e) |-> <<e[i]>>]
  <2>1. \A i \in 1 .. n : e[i] = RuleCollectionGroup(c, i)
    BY DEF FirewallGroups
  <2> HIDE DEF e, n
  <2> QED BY <1>2, <2>1
<1>4. FlattenSeq(f) = e
  <2> HIDE DEF e, f
  <2> QED BY <1>2, <1>3, FlattenOnes
<1>5. ForEach(c.rule_collection_groups, LAMBDA g, i : <<RuleCollectionGroup(c, i)>>) = FlattenSeq(f)
  BY DEF ForEach
<1> HIDE DEF e, f
<1> QED BY <1>4, <1>5 DEF FirewallProgram, FirewallHead, e

\* What the deployment of a firewall declares, whatever its configuration: each
\* statement waits for what it names and for nothing that is not declared before it,
\* and from the first rule collection group on each waits for the one before.
LEMMA FirewallStack ==
    ASSUME NEW c, FirewallConfiguration(c)
    PROVE  LET p == FirewallBaseProgram(c)
           IN  WaitingProgram(p) /\ Follows(p, {}) /\ Serialised(p)
<1> DEFINE refs == IF c.log = "none" THEN <<>>
                   ELSE <<IF c.log = "own" THEN {LogWorkspace(ResourceGroup).urn} ELSE {}>>
           d == [c EXCEPT !.log_workspace = refs]
           w == When(c.log = "own", LogWorkspaceProgram(ResourceGroup))
           q == FirewallProgram(d)
<1>1. d.log_workspace = refs /\ d.rule_collection_groups = c.rule_collection_groups
  BY DEF FirewallConfiguration
<1>2. IsList(refs) /\ UNION ToSet(refs) = IF c.log = "own" THEN {LogWorkspace(ResourceGroup).urn} ELSE {}
  <2>1. IsList(<<>>) /\ ToSet(<<>>) = {}
    BY PlainEmpty DEF PlainProgram, ToSet
  <2>2. ASSUME NEW s PROVE IsList(<<s>>) /\ ToSet(<<s>>) = {s}
    BY DEF IsList, ToSet
  <2> QED BY <2>1, <2>2
<1>3. FirewallBaseProgram(c) = Begin \o ReadHere(w \o q)
  BY DEF FirewallBaseProgram
<1> HIDE DEF refs, d
<1>4. /\ PlainProgram(w) /\ Follows(w, {RG}) /\ \A s \in ToSet(w) : ~s.early
      /\ UNION ToSet(refs) \subseteq Provides(w)
  <2> DEFINE s == LogWorkspace(ResourceGroup)
             t == Export(<<"log_workspace">>)
  <2>1. Plain(s) /\ s.deps = {RG} /\ ~s.comp /\ ~s.early
    BY GroupFacts, PlainResource DEF LogWorkspace
  <2>2. Plain(t) /\ t.deps = {} /\ t.comp /\ ~t.early
    BY PlainExport
  <2>3. LogWorkspaceProgram(ResourceGroup) = <<s, t>> /\ ToSet(<<s, t>>) = {s, t}
    BY DEF LogWorkspaceProgram, ToSet
  <2>4. CASE c.log = "own"
    <3>1. w = <<s, t>> /\ UNION ToSet(refs) = {s.urn}
      BY <1>2, <2>3, <2>4 DEF When
    <3> HIDE DEF s, t, w
    <3>2. PlainProgram(w) /\ Among(w, {RG}) /\ s.urn \in Provides(w) /\ \A x \in ToSet(w) : ~x.early
      BY <2>1, <2>2, <2>3, <3>1, PlainTwo DEF Among, Provides
    <3> QED BY <3>1, <3>2, AmongFollows DEF PlainProgram
  <2>5. CASE c.log # "own"
    <3>1. w = <<>> /\ ToSet(<<>>) = {} /\ UNION ToSet(refs) = {}
      BY <1>2, <2>5 DEF When, ToSet
    <3> HIDE DEF w
    <3>2. PlainProgram(w) /\ Among(w, {RG})
      BY <3>1, PlainEmpty DEF Among
    <3> QED BY <3>1, <3>2, AmongFollows DEF PlainProgram
  <2> QED BY <2>4, <2>5
<1>5. q = Validated(ValidFirewall(d), FirewallHead(d) \o FirewallGroups(d))
  <2>1. IsList(d.rule_collection_groups)
    BY <1>1 DEF FirewallConfiguration
  <2> QED BY <2>1, FirewallProgramIs
<1> HIDE DEF w, q
<1>6. CASE \E s \in ToSet(w \o q) : s.early
  <2>1. ReadHere(w \o q) = Raise
    BY <1>6 DEF ReadHere
  <2>2. PlainProgram(Begin \o Raise)
    BY BeginFacts, PlainRaise, PlainConcat
  <2>3. Follows(Raise, {} \cup Provides(Begin))
    <3>1. Raise[1].deps = {} /\ Len(Raise) = 1
      BY DEF Raise, Statement
    <3> QED BY <3>1 DEF Follows
  <2>4. Follows(Begin \o Raise, {})
    BY <2>3, BeginFacts, PlainRaise, FollowsConcat DEF PlainProgram
  <2> QED BY <1>3, <2>1, <2>2, <2>4, PlainIsWaiting
<1>7. CASE ~(\E s \in ToSet(w \o q) : s.early)
  <2> DEFINE h == FirewallHead(d)
             g == FirewallGroups(d)
             front == (Begin \o w) \o h
  <2>1. ReadHere(w \o q) = w \o q
    BY <1>7 DEF ReadHere
  <2>2. q = h \o g
    <3>1. CASE ValidFirewall(d)
      BY <1>5, <3>1 DEF Validated
    <3>2. CASE ~ValidFirewall(d)
      <4> DEFINE s == [Statement EXCEPT !.raises = TRUE, !.early = TRUE]
      <4>1. q = <<s>> /\ ToSet(<<s>>) = {s} /\ s.early /\ Plain(s)
        BY <1>5, <3>2 DEF Validated, ToSet, Statement, Plain, Waiting, IsStatement
      <4> HIDE DEF s
      <4>2. ToSet(w \o q) = ToSet(w) \cup {s}
        BY <1>4, <4>1, PlainOne, ConcatLists DEF PlainProgram
      <4> QED BY <1>7, <4>1, <4>2
    <3> QED BY <3>1, <3>2
  <2> DEFINE had == {RG} \cup Provides(w)
             told == had \cup Provides(h)
  <2>3. PlainProgram(h) /\ Follows(h, had)
        /\ {FirewallPolicy(d).urn, Firewall(d).urn} \subseteq Provides(h)
    <3>1. {RG} \cup UNION ToSet(d.log_workspace) \subseteq had /\ IsList(d.log_workspace)
      BY <1>1, <1>2, <1>4
    <3> HIDE DEF had
    <3> QED BY <3>1, FirewallHeadFacts
  <2>4. WaitingProgram(g) /\ Follows(g, told) /\ SerialFrom(g, 0)
    <3>1. {RG, FirewallPolicy(d).urn, Firewall(d).urn} \subseteq told /\ IsList(d.rule_collection_groups)
      <4> HIDE DEF h
      <4> QED BY <1>1, <2>3 DEF FirewallConfiguration
    <3> HIDE DEF told
    <3> QED BY <3>1, FirewallGroupsFacts
  <2> HIDE DEF h, g
  <2>5. PlainProgram(Begin \o w) /\ Follows(Begin \o w, {}) /\ Provides(Begin \o w) = had
    <3>1. Follows(w, {} \cup Provides(Begin))
      BY <1>4, BeginFacts
    <3> QED BY <1>4, <3>1, BeginFacts, PlainConcat, FollowsConcat, ProvidesConcat DEF PlainProgram
  <2>6. PlainProgram(front) /\ Follows(front, {}) /\ Provides(front) = told
    <3>1. Follows(h, {} \cup Provides(Begin \o w))
      BY <2>3, <2>5
    <3> QED BY <2>3, <2>5, <3>1, PlainConcat, FollowsConcat, ProvidesConcat DEF PlainProgram
  <2>7. FirewallBaseProgram(c) = front \o g
    <3>1. /\ Begin \in Seq(ToSet(Begin)) /\ w \in Seq(ToSet(w)) /\ h \in Seq(ToSet(h))
          /\ g \in Seq(ToSet(g))
      BY <1>4, <2>3, <2>4, BeginFacts DEF PlainProgram, WaitingProgram, IsList
    <3> DEFINE S == ToSet(Begin) \cup ToSet(w) \cup ToSet(h) \cup ToSet(g)
    <3>2. Begin \in Seq(S) /\ w \in Seq(S) /\ h \in Seq(S) /\ g \in Seq(S)
      BY <3>1, SeqMonotonic
    <3> HIDE DEF S
    <3>3. w \o (h \o g) = (w \o h) \o g /\ w \o h \in Seq(S)
      BY <3>2, ConcatAssociative, ConcatProperties
    <3>4. Begin \o ((w \o h) \o g) = (Begin \o (w \o h)) \o g
      <4> DEFINE wh == w \o h
      <4>1. wh \in Seq(S)
        BY <3>3
      <4> HIDE DEF wh
      <4>2. (Begin \o wh) \o g = Begin \o (wh \o g)
        BY <3>2, <4>1, ConcatAssociative
      <4> QED BY <4>2 DEF wh
    <3>5. (Begin \o w) \o h = Begin \o (w \o h)
      BY <3>2, ConcatAssociative
    <3> QED BY <1>3, <2>1, <2>2, <3>3, <3>4, <3>5
  <2> HIDE DEF front, told
  <2>8. Follows(front, {}) /\ Follows(g, {} \cup Provides(front))
    BY <2>4, <2>6
  <2>9. Follows(front \o g, {})
    BY <2>4, <2>6, <2>8, FollowsConcat DEF PlainProgram, WaitingProgram
  <2>10. WaitingProgram(front \o g)
    BY <2>4, <2>6, ConcatLists DEF PlainProgram, WaitingProgram, Plain
  <2>11. Serialised(front \o g)
    <3>1. Len(front) \in Nat /\ \A s \in ToSet(front) : s.lock = <<>>
      BY <2>6, ListLen DEF PlainProgram, Plain
    <3>2. SerialFrom(front \o g, Len(front) + 0)
      BY <2>4, <2>6, <3>1, SerialConcat DEF PlainProgram, WaitingProgram
    <3> QED BY <3>1, <3>2 DEF Serialised
  <2> QED BY <2>7, <2>9, <2>10, <2>11
<1> QED BY <1>6, <1>7

-----------------------------------------------------------------------------
(* Deployments of programs *)

\* What a deployment assumes of its updates it may assume of every program whose
\* statements wait for what comes before them: a URN stands for one resource, which
\* waits for what it depends on, and whatever it waits for is declared.
THEOREM ProgramsFit ==
    ASSUME NEW p, IsProgram(p), Follows(p, {})
    PROVE  /\ Update(p).runs \in BOOLEAN
           /\ \A n, m \in Update(p).goal : n.urn = m.urn => n = m
           /\ \A n \in Update(p).goal : /\ n.deps \subseteq Update(p).waits[n.urn]
                                           /\ Update(p).waits[n.urn] \subseteq UrnsOf(Update(p).goal)
<1>1. Update(p).runs \in BOOLEAN
  BY DEF Update, Runs
<1> QED BY <1>1, UrnsDiffer, FollowsFits

\* The stacks of programs whose resources wait for whatever they name.
WaitingUpdates == \A u \in Updates : \E p : WaitingProgram(p) /\ u = Update(p)

\* The stacks of programs that put what is locked at their end, in a chain.
SerialUpdates == \A u \in Updates : \E p : IsProgram(p) /\ Serialised(p) /\ u = Update(p)

\* In any deployment of such programs nothing that exists names what does not.
THEOREM WaitingNeverDangles ==
    ASSUME WaitingUpdates
    PROVE  Spec => []NoDangling
<1>1. Declared
  <2> SUFFICES ASSUME NEW u \in Updates, NEW n \in u.goal PROVE n.uses \subseteq n.deps
    BY DEF Declared, Nodes
  <2>1. PICK p : WaitingProgram(p) /\ u = Update(p)
    BY WaitingUpdates DEF WaitingUpdates
  <2> QED BY <2>1, WaitingGoal
<1> QED BY <1>1, NoDanglingHolds

\* In any deployment of such programs two creations or updates that write to one
\* object are never due together.
THEOREM SerialPutsInTurn ==
    ASSUME SerialUpdates
    PROVE  Spec => []OnePutAtATime
<1>1. Chained
  <2> SUFFICES ASSUME NEW u \in Updates, NEW n \in u.goal, NEW m \in u.goal,
                      n.lock = m.lock, n.lock # <<>>, n # m
               PROVE  n.urn \in u.waits[m.urn] \/ m.urn \in u.waits[n.urn]
    BY DEF Chained
  <2>1. PICK p : IsProgram(p) /\ Serialised(p) /\ u = Update(p)
    BY SerialUpdates DEF SerialUpdates
  <2> QED BY <2>1, SerialisedChains
<1> QED BY <1>1, OnePutAtATimeHolds

\* deploy_firewall, for every configuration (any number of rule collection groups,
\* any SKU, its own log workspace, another or none), is a program that a deployment
\* may be given: no two of its resources share a URN, and each waits for resources
\* it declares.
THEOREM FirewallFits ==
    ASSUME NEW c, FirewallConfiguration(c)
    PROVE  LET u == Update(FirewallBaseProgram(c))
           IN  /\ u.runs \in BOOLEAN
               /\ \A n, m \in u.goal : n.urn = m.urn => n = m
               /\ \A n \in u.goal : /\ n.deps \subseteq u.waits[n.urn]
                                      /\ u.waits[n.urn] \subseteq UrnsOf(u.goal)
  BY FirewallStack, ProgramsFit DEF WaitingProgram, IsProgram, Waiting

\* The stacks of firewalls: every program of every story is one of deploy_firewall.
FirewallUpdates ==
    \A u \in Updates : \E c : FirewallConfiguration(c) /\ u = Update(FirewallBaseProgram(c))

\* Whatever groups are added, removed and reordered from one configuration to the
\* next, and whichever calls fail: the policy of a firewall never has two creations or
\* updates of groups due, and nothing that exists names what does not.  Groups that an
\* edit removes may be due for deletion together.
THEOREM FirewallPutsInTurn ==
    ASSUME FirewallUpdates
    PROVE  Spec => [](OnePutAtATime /\ NoDangling)
<1>1. ASSUME NEW u \in Updates PROVE \E p : WaitingProgram(p) /\ IsProgram(p) /\ Serialised(p) /\ u = Update(p)
  <2>1. PICK c : FirewallConfiguration(c) /\ u = Update(FirewallBaseProgram(c))
    BY FirewallUpdates DEF FirewallUpdates
  <2> DEFINE p == FirewallBaseProgram(c)
  <2>2. WaitingProgram(p) /\ Serialised(p)
    BY <2>1, FirewallStack
  <2>3. IsProgram(p)
    BY <2>2 DEF WaitingProgram, IsProgram, Waiting
  <2> QED BY <2>1, <2>2, <2>3
<1>2. WaitingUpdates
  BY <1>1 DEF WaitingUpdates
<1>3. SerialUpdates
  BY <1>1 DEF SerialUpdates
<1>4. Spec => []NoDangling
  BY <1>2, WaitingNeverDangles
<1>5. Spec => []OnePutAtATime
  BY <1>3, SerialPutsInTurn
<1> QED BY <1>4, <1>5, PTL

-----------------------------------------------------------------------------
(* The programs of the components wait for what they name *)

\* The fields of a configuration that are lists.
Lists(c, fields) == fields \subseteq DOMAIN c /\ \A f \in fields : IsList(c[f])

\* A list for every entry of a list.
LEMMA PlainParts ==
    ASSUME NEW owner, NEW type, NEW names, IsList(names)
    PROVE  PlainProgram(Parts(owner, type, names))
<1>1. \A name : Plain(PartOf(owner, type, name))
  BY PlainResource, PlainFixed DEF PartOf, Plain, Waiting
<1> QED BY <1>1, PlainAll, PlainOne DEF Parts, ForEach

\* A diagnostic setting names the resource and the workspace, and waits for both.
LEMMA PlainDiagnostics ==
    ASSUME NEW c, NEW resource, Lists(c, {"log_workspace"})
    PROVE  PlainProgram(Diagnostics(c, resource))
<1>1. IsList(c.log_workspace)
  BY DEF Lists
<1>2. \A parent, r, refs : Plain(DiagnosticSetting(parent, r, refs))
  BY PlainResource DEF DiagnosticSetting
<1> QED BY <1>1, <1>2, PlainAll, PlainOne DEF Diagnostics, ForEach

\* The zone group names its endpoint by a string and is its child.
LEMMA PlainEndpoint ==
    ASSUME NEW target, NEW has_zone, NEW has_meta
    PROVE  PlainProgram(PrivateEndpointProgram(target, has_zone, has_meta))
<1> DEFINE s == PrivateEndpoint(target)
           t == Resource(s, "PrivateDnsZoneGroup", "w", {RG})
<1>1. Plain(PrivateEndpointComponent(target))
  BY PlainComponent DEF PrivateEndpointComponent
<1>2. Plain(s) /\ ~s.comp
  BY PlainResource, PlainFixed DEF PrivateEndpoint, Plain, Waiting
<1>3. PrivateDnsZoneGroup(target) = Naming(t, {s.urn})
  BY DEF PrivateDnsZoneGroup
<1>4. Plain(t) /\ s.urn \in t.deps
  BY <1>2, PlainResource DEF Gate
<1> HIDE DEF s, t
<1>5. Plain(PrivateDnsZoneGroup(target))
  BY <1>3, <1>4, WaitingNaming DEF Plain, Waiting
<1> QED BY <1>1, <1>2, <1>5, PlainOne, PlainConcat, PlainWhen, PlainRaise, PlainExport
        DEF PrivateEndpointProgram, s

\* Private endpoints, one for each sub-resource.
LEMMA PlainEndpoints ==
    ASSUME NEW c, NEW target, Lists(c, {"private_endpoints"})
    PROVE  PlainProgram(PrivateEndpoints(c, target))
<1>1. IsList(c.private_endpoints)
  BY DEF Lists
<1> QED BY <1>1, PlainEndpoint, PlainAll DEF PrivateEndpoints, ForEach

\* A resource under a name of its own.
LEMMA PlainNamed ==
    ASSUME NEW parent, NEW type, NEW name, NEW refs, NEW fixed
    PROVE  LET s == Fixed(Resource(parent, type, name, refs), fixed)
           IN  /\ Plain(s) /\ ~s.comp /\ ~s.early
               /\ s.urn = <<Ancestry(parent), type, name>>
               /\ s.deps = Gate(parent) \cup refs /\ s.uses = refs
<1> DEFINE r == Resource(parent, type, name, refs)
<1>1. /\ Plain(r) /\ ~r.comp /\ ~r.early /\ r.urn = <<Ancestry(parent), type, name>>
      /\ r.deps = Gate(parent) \cup refs /\ r.uses = refs
  BY PlainResource
<1> HIDE DEF r
<1> QED BY <1>1, PlainFixed DEF Plain, Waiting, r

\* Three plain statements are a plain program,
LEMMA PlainThree ==
    ASSUME NEW s, NEW t, NEW u, Plain(s), Plain(t), Plain(u)
    PROVE  PlainProgram(<<s, t, u>>)
<1>1. <<s, t, u>> \in Seq({s, t, u}) /\ Len(<<s, t, u>>) = 3
      /\ <<s, t, u>>[1] = s /\ <<s, t, u>>[2] = t /\ <<s, t, u>>[3] = u
  OBVIOUS
<1>2. \A i \in 1 .. Len(<<s, t, u>>) : <<s, t, u>>[i] \in {s, t, u}
  BY <1>1
<1> QED BY <1>1, <1>2, PlainAt

\* ... and so are four.
LEMMA PlainFour ==
    ASSUME NEW s, NEW t, NEW u, NEW v, Plain(s), Plain(t), Plain(u), Plain(v)
    PROVE  PlainProgram(<<s, t, u, v>>)
<1>1. <<s, t, u, v>> \in Seq({s, t, u, v}) /\ Len(<<s, t, u, v>>) = 4
      /\ <<s, t, u, v>>[1] = s /\ <<s, t, u, v>>[2] = t /\ <<s, t, u, v>>[3] = u /\ <<s, t, u, v>>[4] = v
  OBVIOUS
<1>2. \A i \in 1 .. Len(<<s, t, u, v>>) : <<s, t, u, v>>[i] \in {s, t, u, v}
  BY <1>1
<1> QED BY <1>1, <1>2, PlainAt

\* A list of declared resources.
LEMMA PlainList ==
    ASSUME NEW e, NEW n \in Nat, e = [i \in 1 .. n |-> e[i]], \A i \in 1 .. n : Plain(e[i])
    PROVE  PlainProgram(e)
<1>1. IsList(e) /\ Len(e) = n
  BY ListOf
<1> QED BY <1>1, ListLen DEF PlainProgram

(* Networks *)

\* A configuration of a network: its lists are lists.
VnetConfiguration(c) ==
    /\ Lists(c, {"subnets", "route_tables", "peered_vnets"})
    /\ \A subnet \in ToSet(c.subnets) : Lists(subnet, {"rules"})
    /\ \A table \in ToSet(c.route_tables) : Lists(table, {"routes"})

\* A virtual network: security groups and rules, route tables, subnets, peerings.
LEMMA PlainVnet ==
    ASSUME NEW c, VnetConfiguration(c)
    PROVE  PlainProgram(VnetProgram(c))
<1>1. /\ IsList(c.subnets) /\ IsList(c.route_tables) /\ IsList(c.peered_vnets)
      /\ \A i \in 1 .. Len(c.subnets) : IsList(c.subnets[i].rules)
      /\ \A i \in 1 .. Len(c.route_tables) : IsList(c.route_tables[i].routes)
  BY ListLen DEF VnetConfiguration, Lists
<1>2. Plain(VnetComponent) /\ Plain(Vnet)
  BY PlainComponent, PlainNamed DEF VnetComponent, Vnet
<1>3. PlainProgram(Nsgs(c))
  <2>1. ASSUME NEW nsg, NEW rules, IsList(rules)
        PROVE  PlainProgram(ForEach(<<DEFAULT_DENY_RULE>> \o rules, LAMBDA rule, i : <<SecurityRule(nsg, rule, i)>>))
    <3>1. IsList(<<DEFAULT_DENY_RULE>> \o rules)
      <4>1. IsList(<<DEFAULT_DENY_RULE>>)
        BY DEF IsList, ToSet
      <4> QED BY <2>1, <4>1, ConcatLists
    <3>2. \A rule, i : Plain(SecurityRule(nsg, rule, i))
      BY PlainNamed, PlainTaking DEF SecurityRule, Plain, Waiting
    <3> DEFINE list == <<DEFAULT_DENY_RULE>> \o rules
    <3> HIDE DEF list
    <3>3. PlainProgram(FlattenSeq([i \in 1 .. Len(list) |-> <<SecurityRule(nsg, list[i], i)>>]))
      BY <3>1, <3>2, PlainAll, PlainOne DEF list
    <3> QED BY <3>3 DEF ForEach, list
  <2>2. \A subnet : Plain(NsgOf(subnet))
    BY PlainNamed DEF NsgOf
  <2> DEFINE f == [k \in 1 .. Len(c.subnets) |->
                    When(HasNsg(c, c.subnets[k]),
                      LET nsg == NsgOf(c.subnets[k])
                      IN  <<nsg>> \o ForEach(<<DEFAULT_DENY_RULE>> \o c.subnets[k].rules,
                                             LAMBDA rule, i : <<SecurityRule(nsg, rule, i)>>))]
  <2>3. ASSUME NEW k \in 1 .. Len(c.subnets) PROVE PlainProgram(f[k])
    <3> DEFINE nsg == NsgOf(c.subnets[k])
               rest == ForEach(<<DEFAULT_DENY_RULE>> \o c.subnets[k].rules,
                               LAMBDA rule, i : <<SecurityRule(nsg, rule, i)>>)
    <3>1. PlainProgram(rest) /\ Plain(nsg)
      BY <1>1, <2>1, <2>2 DEF ForEach
    <3>2. f[k] = When(HasNsg(c, c.subnets[k]), <<nsg>> \o rest)
      OBVIOUS
    <3> HIDE DEF nsg, rest, f
    <3> QED BY <3>1, <3>2, PlainOne, PlainConcat, PlainWhen
  <2>4. Nsgs(c) = FlattenSeq(f)
    BY DEF Nsgs, ForEach
  <2>5. f = [k \in 1 .. Len(c.subnets) |-> f[k]]
    OBVIOUS
  <2> HIDE DEF f
  <2> QED BY <1>1, <2>3, <2>4, <2>5, PlainAll
<1>4. PlainProgram(ForEach(c.route_tables, LAMBDA table, i : RouteTable(table)))
  <2>1. ASSUME NEW table, IsList(table.routes) PROVE PlainProgram(RouteTable(table))
    <3>1. Plain(RouteTableComponent(table)) /\ Plain(RouteTableOf(table))
      BY PlainComponent, PlainNamed DEF RouteTableComponent, RouteTableOf
    <3>2. PlainProgram(ForEach(table.routes, LAMBDA route, i :
            <<Fixed(Resource(RouteTableOf(table), "Route", <<table.name, route, i - 1>>,
                             {RG, RouteTableOf(table).urn}), <<table.name, route>>)>>))
      BY <2>1, PlainNamed, PlainOne, PlainAll DEF ForEach
    <3> QED BY <3>1, <3>2, PlainOne, PlainTwo, PlainExport, PlainConcat DEF RouteTable
  <2> QED BY <1>1, <2>1, PlainAll DEF ForEach
<1>5. PlainProgram(Subnets(c)) /\ PlainProgram(IpGroups(c))
  <2>1. \A subnet : Plain(SubnetOf(c, subnet))
    BY PlainNamed DEF SubnetOf
  <2>2. PlainProgram(Subnets(c))
    BY <1>1, <2>1, PlainOne, PlainRaise, PlainAll DEF Subnets, ForEach
  <2>3. PlainProgram(IpGroups(c))
    BY <1>1, PlainNamed, PlainOne, PlainWhen, PlainAll DEF IpGroups, ForEach
  <2> QED BY <2>2, <2>3
<1>6. PlainProgram(Peerings(c))
  BY <1>1, PlainResource, PlainThree, PlainAll DEF Peerings, Provider, ForEach
<1> QED BY <1>2, <1>3, <1>4, <1>5, <1>6, PlainTwo, PlainThree, PlainExport, PlainConcat, PlainValidated
        DEF VnetProgram

\* The gateway's addresses are as many as its mode asks for.
LEMMA PlainVpn ==
    ASSUME NEW c
    PROVE  PlainProgram(VpnProgram(c))
<1>1. Plain(VpnComponent) /\ Plain(VnetGateway(c)) /\ Plain(LocalNetworkGateway) /\ Plain(VnetConnection(c))
  BY PlainComponent, PlainResource DEF VpnComponent, VnetGateway, LocalNetworkGateway, VnetConnection
<1>2. PlainProgram(GatewayIps(c))
  <2> DEFINE n == IF c.active_active THEN IF c.point_to_site THEN 3 ELSE 2 ELSE 1
             e == [i \in 1 .. n |-> PublicIp(VpnComponent, <<"vpngateway", i>>)]
  <2>1. n \in Nat
    OBVIOUS
  <2>2. e = [i \in 1 .. n |-> e[i]] /\ \A i \in 1 .. n : Plain(e[i])
    <3> HIDE DEF n
    <3> QED BY PlainResource DEF PublicIp
  <2>3. GatewayIps(c) = e
    BY DEF GatewayIps
  <2> HIDE DEF n, e
  <2> QED BY <2>1, <2>2, <2>3, PlainList
<1> QED BY <1>1, <1>2, PlainOne, PlainTwo, PlainWhen, PlainExport, PlainConcat DEF VpnProgram

\* A virtual WAN with its hub, its sites and its point-to-site gateway.
LEMMA PlainVwan ==
    ASSUME NEW c, Lists(c, {"hub_vnet_connections", "sites"})
    PROVE  PlainProgram(VwanProgram(c)) /\ PlainProgram(S2sProgram(c)) /\ PlainProgram(P2sProgram)
<1>1. IsList(c.hub_vnet_connections) /\ IsList(c.sites)
  BY DEF Lists
<1>2. PlainProgram(VwanProgram(c))
  <2>1. Plain(VwanComponent) /\ Plain(VirtualWan) /\ Plain(VirtualHub)
    BY PlainComponent, PlainResource DEF VwanComponent, VirtualWan, VirtualHub
  <2>2. PlainProgram(ForEach(c.hub_vnet_connections, LAMBDA name, i :
         <<Resource(VirtualHub, "HubVirtualNetworkConnection", name, {RG, VirtualHub.urn})>>))
    BY <1>1, PlainResource, PlainOne, PlainAll DEF ForEach
  <2> QED BY <2>1, <2>2, PlainTwo, PlainThree, PlainExport, PlainConcat DEF VwanProgram
<1>3. PlainProgram(S2sProgram(c))
  <2>1. PlainProgram(ForEach(c.sites, LAMBDA name, i : <<VpnSite(name)>>))
    BY <1>1, PlainNamed, PlainOne, PlainAll DEF ForEach, VpnSite
  <2> QED BY <2>1, PlainResource, PlainOne, PlainConcat DEF S2sProgram
<1>4. PlainProgram(P2sProgram)
  BY PlainComponent, PlainNamed, PlainExport, PlainFour DEF P2sProgram, P2sComponent, ServerConfig
<1> QED BY <1>2, <1>3, <1>4

\* A private DNS resolver with its ruleset.
LEMMA PlainResolver ==
    ASSUME NEW c, Lists(c, {"rules", "linked_vnets"})
    PROVE  PlainProgram(ResolverProgram(c))
<1>1. IsList(c.rules) /\ IsList(c.linked_vnets)
  BY DEF Lists
<1>2. /\ Plain(ResolverComponent) /\ Plain(Resolver) /\ Plain(InboundEndpoint)
      /\ Plain(OutboundEndpoint) /\ Plain(ForwardingRuleset)
      /\ \A type, name : Plain(OfRuleset(type, name))
  BY PlainComponent, PlainNamed
  DEF ResolverComponent, Resolver, InboundEndpoint, OutboundEndpoint, ForwardingRuleset, OfResolver, OfRuleset
<1>3. /\ PlainProgram(ForEach(c.rules, LAMBDA domain, i : <<OfRuleset("ForwardingRule", FmtName(domain))>>))
      /\ PlainProgram(ForEach(c.linked_vnets, LAMBDA vnet, i :
           <<OfRuleset("PrivateResolverVirtualNetworkLink", vnet)>>))
  BY <1>1, <1>2, PlainOne, PlainAll DEF ForEach
<1> QED BY <1>2, <1>3, PlainOne, PlainTwo, PlainWhen, PlainExport, PlainConcat, PlainValidated
        DEF ResolverProgram

(* Zones *)

\* A public zone with its records and its delegation.
LEMMA PlainDnsZone ==
    ASSUME NEW parent, NEW c, Lists(c, {"records"})
    PROVE  PlainProgram(DnsZoneProgram(parent, c)) /\ Plain(DnsZone(parent, c))
<1>1. Plain(DnsZoneComponent(parent, c)) /\ Plain(GroupOf(c)) /\ Plain(ParentNsRecord(parent, c))
      /\ \A subscription : Plain(Provider(subscription))
  BY PlainComponent, PlainResource, GroupFacts DEF DnsZoneComponent, GroupOf, ParentNsRecord, Provider
<1>2. Plain(DnsZone(parent, c))
  <2> DEFINE name == IF c.existing THEN "dns-zone-reference" ELSE FmtName(c.name)
             refs == IF c.existing THEN {} ELSE {GroupOf(c).urn}
             zone == Resource(DnsZoneComponent(parent, c), "Zone", name, refs)
  <2> HIDE DEF name, refs
  <2>1. Plain(zone) /\ Plain(Fixed(zone, c.name))
    BY PlainResource, PlainNamed
  <2>2. DnsZone(parent, c) = IF c.existing THEN zone ELSE Fixed(zone, c.name)
    BY DEF DnsZone, name, refs
  <2> QED BY <2>1, <2>2
<1>3. PlainProgram(DnsRecords(parent, c))
  <2> DEFINE n == Len(c.records)
             e == [i \in 1 .. n |-> DnsRecord(parent, c, c.records[i])]
  <2>1. n \in Nat
    BY ListLen DEF Lists
  <2>2. e = [i \in 1 .. n |-> e[i]] /\ \A i \in 1 .. n : Plain(e[i])
    <3> HIDE DEF n
    <3> QED BY PlainNamed DEF DnsRecord
  <2>3. DnsRecords(parent, c) = e
    BY DEF DnsRecords
  <2> HIDE DEF n, e
  <2> QED BY <2>1, <2>2, <2>3, PlainList
<1>4. PlainProgram(DnsZoneProgram(parent, c))
  BY <1>1, <1>2, <1>3, PlainResource, PlainOne, PlainTwo, PlainWhen, PlainExport, PlainConcat
  DEF DnsZoneProgram
<1> QED BY <1>2, <1>4

\* A private zone with its links and records.
LEMMA PlainPrivateZone ==
    ASSUME NEW c, Lists(c, {"linked_vnets", "records"})
    PROVE  PlainProgram(PrivateZoneProgram(c))
<1>1. IsList(c.linked_vnets) /\ IsList(c.records)
  BY DEF Lists
<1>2. Plain(PrivateZoneComponent(c)) /\ Plain(PrivateZone(c))
      /\ \A record : Plain(PrivateRecord(c, record))
  BY PlainComponent, PlainNamed DEF PrivateZoneComponent, PrivateZone, PrivateRecord
<1>3. PlainProgram(ForEach(c.linked_vnets, LAMBDA vnet, i :
         <<Fixed(Resource(PrivateZoneComponent(c), "VirtualNetworkLink", <<vnet, c.name>>,
                          {RG, PrivateZone(c).urn}), <<c.name, vnet>>)>>))
  BY <1>1, PlainNamed, PlainOne, PlainAll DEF ForEach
<1>4. PlainProgram(ForEach(c.records, LAMBDA record, i :
         IF record.type = "NS" THEN Raise ELSE <<PrivateRecord(c, record)>>))
  BY <1>1, <1>2, PlainRaise, PlainOne, PlainAll DEF ForEach
<1> QED BY <1>2, <1>3, <1>4, PlainOne, PlainTwo, PlainWhen, PlainExport, PlainConcat DEF PrivateZoneProgram

-----------------------------------------------------------------------------
(* The hub *)

\* A configuration of the hub: its lists are lists, and so are those of its parts.
HubConfiguration(c) ==
    /\ Lists(c, {"default_zones", "dns_zone", "dns_zones", "private_dns_zones"})
    /\ VnetConfiguration(c.vnet)
    /\ Lists(c.vwan, {"hub_vnet_connections", "sites"})
    /\ Lists(c.resolver, {"rules", "linked_vnets"})
    /\ \A zone \in ToSet(c.dns_zone) \cup ToSet(c.dns_zones) : Lists(zone, {"records"})
    /\ \A zone \in ToSet(c.private_dns_zones) : Lists(zone, {"linked_vnets", "records"})

\* deploy_hub_spoke: whatever a resource of the hub names it waits for.
LEMMA PlainHub ==
    ASSUME NEW c, HubConfiguration(c)
    PROVE  PlainProgram(HubSpokeProgram(c))
<1>1. IsList(c.default_zones) /\ IsList(c.dns_zone) /\ IsList(c.dns_zones) /\ IsList(c.private_dns_zones)
  BY DEF HubConfiguration, Lists
<1>2. PlainProgram(VnetProgram(c.vnet)) /\ PlainProgram(VpnProgram(c.vpn))
      /\ PlainProgram(VwanProgram(c.vwan)) /\ PlainProgram(S2sProgram(c.vwan)) /\ PlainProgram(P2sProgram)
      /\ PlainProgram(ResolverProgram(c.resolver))
  BY PlainVnet, PlainVpn, PlainVwan, PlainResolver DEF HubConfiguration
<1>3. PlainProgram(DefaultZones(c))
  <2> DEFINE zone(name) == [name |-> name, linked_vnets |-> c.vwan.hub_vnet_connections,
                            records |-> <<>>, skip_exports |-> TRUE]
             f == [i \in 1 .. Len(c.default_zones) |->
                     When(\A j \in 1 .. i - 1 : c.default_zones[j] # c.default_zones[i],
                          PrivateZoneProgram(zone(c.default_zones[i])))]
  <2>1. ASSUME NEW name PROVE PlainProgram(PrivateZoneProgram(zone(name)))
    <3>1. IsList(<<>>)
      BY PlainEmpty DEF PlainProgram
    <3>2. IsList(c.vwan.hub_vnet_connections)
      BY DEF HubConfiguration, Lists
    <3>3. Lists(zone(name), {"linked_vnets", "records"})
      BY <3>1, <3>2 DEF Lists
    <3> HIDE DEF zone
    <3> QED BY <3>3, PlainPrivateZone
  <2>2. DefaultZones(c) = FlattenSeq(f)
    BY DEF DefaultZones, ForEach
  <2> HIDE DEF zone
  <2>3. f = [i \in 1 .. Len(c.default_zones) |-> f[i]] /\ \A i \in 1 .. Len(c.default_zones) : PlainProgram(f[i])
    BY <2>1, PlainWhen
  <2> HIDE DEF f
  <2> QED BY <1>1, <2>2, <2>3, PlainAll
<1>4. PlainProgram(HubDnsZones(c))
  <2> DEFINE list == c.dns_zone \o c.dns_zones
  <2>1. IsList(list) /\ \A i \in 1 .. Len(list) : Lists(list[i], {"records"})
    <3>1. IsList(list) /\ ToSet(list) = ToSet(c.dns_zone) \cup ToSet(c.dns_zones)
      BY <1>1, ConcatLists
    <3> HIDE DEF list
    <3> QED BY <3>1, ListLen DEF HubConfiguration
  <2>2. HubDnsZones(c) = FlattenSeq([i \in 1 .. Len(list) |-> DnsZoneProgram(ResourceGroup, list[i])])
                         \o <<Export(<<"dns_zones">>)>>
    BY DEF HubDnsZones, ForEach
  <2> HIDE DEF list
  <2>3. PlainProgram(FlattenSeq([i \in 1 .. Len(list) |-> DnsZoneProgram(ResourceGroup, list[i])]))
    BY <2>1, PlainDnsZone, PlainAll
  <2> QED BY <2>2, <2>3, PlainExport, PlainOne, PlainConcat
<1>5. PlainProgram(ForEach(c.private_dns_zones, LAMBDA zone, i :
            PrivateZoneProgram([zone EXCEPT !.skip_exports = TRUE])))
  <2>1. ASSUME NEW zone, Lists(zone, {"linked_vnets", "records"})
        PROVE  PlainProgram(PrivateZoneProgram([zone EXCEPT !.skip_exports = TRUE]))
    BY <2>1, PlainPrivateZone DEF Lists
  <2>2. \A i \in 1 .. Len(c.private_dns_zones) : Lists(c.private_dns_zones[i], {"linked_vnets", "records"})
    BY <1>1, ListLen DEF HubConfiguration
  <2> QED BY <1>1, <2>1, <2>2, PlainAll DEF ForEach
<1> QED BY <1>2, <1>3, <1>4, <1>5, BeginFacts, PlainExport, PlainOne, PlainWhen, PlainConcat DEF HubSpokeProgram

-----------------------------------------------------------------------------
(* Storage *)

\* The parts of a resource are one statement for each name.
LEMMA PartsAre ==
    ASSUME NEW owner, NEW type, NEW names, IsList(names)
    PROVE  ToSet(Parts(owner, type, names)) = {PartOf(owner, type, name) : name \in ToSet(names)}
<1> DEFINE n == Len(names)
           e == [i \in 1 .. n |-> PartOf(owner, type, names[i])]
           f == [i \in 1 .. n |-> <<PartOf(owner, type, names[i])>>]
<1>1. n \in Nat /\ ToSet(names) = {names[i] : i \in 1 .. n}
  BY ListLen
<1>2. \A i \in 1 .. n : e[i] = PartOf(owner, type, names[i])
  OBVIOUS
<1>3. IsList(e) /\ Len(e) = n
  BY <1>1, ListOf
<1>4. Parts(owner, type, names) = FlattenSeq(f)
  BY DEF Parts, ForEach
<1> HIDE DEF e, n
<1>5. f = [i \in 1 .. Len(e) |-> <<e[i]>>]
  BY <1>2, <1>3
<1> HIDE DEF f
<1>6. Parts(owner, type, names) = e
  BY <1>3, <1>4, <1>5, FlattenOnes
<1>7. ToSet(e) = {e[i] : i \in 1 .. n}
  BY <1>3, ListLen
<1> QED BY <1>1, <1>2, <1>6, <1>7

\* A configuration of a storage account.
StorageConfiguration(c) ==
    /\ Lists(c, {"storage_containers", "storage_tables", "storage_queues", "file_shares",
                 "sftp_users", "private_endpoints"})
    /\ \A user \in ToSet(c.sftp_users) : Lists(user, {"containers"})
    /\ \A sub_types \in ToSet(c.private_endpoints) : IsList(sub_types)

\* An SFTP user names its container by a string, and waits for every container of the
\* account: for its own, since one that is not declared raises.
LEMMA PlainSftpUsers ==
    ASSUME NEW c, NEW account, StorageConfiguration(c)
    PROVE  PlainProgram(SftpUsers(c, account))
<1> DEFINE containers == ToSet(Parts(account, "BlobContainer", c.storage_containers))
           user(u, container) ==
             Fixed(Resource(account, "LocalUser", <<"sftp", container, u>>, {RG, account.urn}),
                   <<account.urn[3], u>>)
           named(container) == PartOf(account, "BlobContainer", container).urn
           local(u, container) == DependsOn(Naming(user(u, container), {named(container)}), Urns(containers))
<1>1. IsList(c.sftp_users) /\ IsList(c.storage_containers)
      /\ \A i \in 1 .. Len(c.sftp_users) : IsList(c.sftp_users[i].containers)
  BY ListLen DEF StorageConfiguration, Lists
<1>2. ASSUME NEW u, NEW container \in ToSet(c.storage_containers)
      PROVE  Plain(local(u, container))
  <2>1. named(container) \in Urns(containers)
    BY <1>1, PartsAre DEF Urns
  <2>2. Plain(user(u, container))
    BY PlainNamed
  <2> DEFINE s == user(u, container)
             t == Naming(s, {named(container)})
  <2> HIDE DEF containers, user, named, s
  <2>3. IsStatement(t) /\ t.deps = s.deps /\ t.uses = s.uses \cup {named(container)} /\ t.lock = s.lock
    BY <2>2, WaitingNaming DEF s, Plain, Waiting
  <2> HIDE DEF t
  <2>4. Plain(DependsOn(t, Urns(containers)))
    BY <2>1, <2>2, <2>3, PlainDependsOn DEF Plain, Waiting, s
  <2> QED BY <2>4 DEF t, s
<1> DEFINE OfUser(u) == ForEach(u.containers, LAMBDA container, k :
              IF container \notin ToSet(c.storage_containers) THEN Raise
              ELSE <<local(u.username, container)>>)
           f == [i \in 1 .. Len(c.sftp_users) |-> OfUser(c.sftp_users[i])]
<1>3. SftpUsers(c, account) = FlattenSeq(f)
  BY DEF SftpUsers, ForEach
<1> HIDE DEF local
<1>4. ASSUME NEW u, IsList(u.containers) PROVE PlainProgram(OfUser(u))
  BY <1>2, <1>4, PlainRaise, PlainOne, PlainAll DEF ForEach
<1> HIDE DEF OfUser
<1>5. f = [i \in 1 .. Len(c.sftp_users) |-> f[i]] /\ \A i \in 1 .. Len(c.sftp_users) : PlainProgram(f[i])
  BY <1>1, <1>4
<1> HIDE DEF f
<1> QED BY <1>1, <1>3, <1>5, PlainAll

\* A storage account under a name of its own or not.
LEMMA StorageFacts ==
    ASSUME NEW parent, NEW name
    PROVE  /\ Plain(StorageComponent(parent)) /\ Plain(StorageAccount(parent, name))
           /\ ~StorageAccount(parent, name).comp
<1> DEFINE account(n) == Resource(StorageComponent(parent), "StorageAccount", n, {RG})
<1>1. \A n, m : Plain(account(n)) /\ Plain(Fixed(account(n), m)) /\ ~account(n).comp /\ ~Fixed(account(n), m).comp
  BY PlainResource, PlainNamed
<1>2. StorageAccount(parent, name) = IF name = "" THEN account("w") ELSE Fixed(account(name), name)
  BY DEF StorageAccount
<1> HIDE DEF account
<1> QED BY <1>1, <1>2, PlainComponent DEF StorageComponent

\* A storage account, with containers, tables, queues, shares and users, in any
\* number: every resource waits for all that it names.
LEMMA PlainStorage ==
    ASSUME NEW parent, NEW c, StorageConfiguration(c)
    PROVE  PlainProgram(StorageProgram(parent, c))
<1> DEFINE account == StorageAccount(parent, c.name)
<1>1. Plain(StorageComponent(parent)) /\ Plain(account) /\ Plain(FileShareSecurity(parent, account))
  BY StorageFacts, PlainResource DEF FileShareSecurity
<1>2. IsList(c.private_endpoints) /\ \A i \in 1 .. Len(c.private_endpoints) : IsList(c.private_endpoints[i])
  BY ListLen DEF StorageConfiguration, Lists
<1>3. PlainProgram(StorageEndpoints(c))
  BY <1>2, PlainRaise, PlainAll DEF StorageEndpoints, ForEach
<1>4. PlainProgram(SftpUsers(c, account))
  BY PlainSftpUsers
<1>5. \A type, names : IsList(names) => PlainProgram(Parts(account, type, names))
  BY PlainParts
<1>6. IsList(c.storage_containers) /\ IsList(c.storage_tables) /\ IsList(c.storage_queues) /\ IsList(c.file_shares)
  BY DEF StorageConfiguration, Lists
<1>7. \A key : PlainProgram(<<Export(key)>>)
  BY PlainExport, PlainOne
<1> HIDE DEF account
<1> QED BY <1>1, <1>3, <1>4, <1>5, <1>6, <1>7, PlainOne, PlainTwo, PlainWhen, PlainConcat
        DEF StorageProgram, account

(* Databases *)

\* A SQL database waits for the server it is handed.
LEMMA PlainDatabase ==
    ASSUME NEW parent, NEW c, NEW refs, Lists(c, {"log_workspace"})
    PROVE  PlainProgram(SqlDatabaseProgram(parent, c, refs))
<1>1. Plain(SqlDatabaseComponent(parent, c.name)) /\ Plain(SqlDatabase(parent, c, refs))
  BY PlainComponent, PlainNamed DEF SqlDatabaseComponent, SqlDatabase
<1> QED BY <1>1, PlainDiagnostics, PlainTwo, PlainOne, PlainExport, PlainConcat DEF SqlDatabaseProgram

\* A configuration of an Azure SQL server.
SqlConfiguration(c) ==
    Lists(c, {"allowed_subnet_ids", "allowed_public_networks", "private_endpoints", "log_workspace"})

\* A SQL server with its pool, its network rules and its endpoints.
LEMMA PlainSql ==
    ASSUME NEW c, SqlConfiguration(c)
    PROVE  PlainProgram(SqlProgram(c))
<1> DEFINE server == SqlServer(c)
<1>1. /\ Plain(SqlComponent) /\ Plain(SqlAdminPassword) /\ Plain(server) /\ Plain(SqlElasticPool(c))
      /\ \A name : Plain(FirewallRule(server, name))
  BY PlainComponent, PlainResource, PlainNamed
  DEF SqlComponent, SqlAdminPassword, RandomPassword, SqlServer, SqlElasticPool, PartOf, FirewallRule
<1>2. PlainProgram(SqlNetworkRules(c, server))
  <2>1. IsList(c.allowed_subnet_ids) /\ IsList(c.allowed_public_networks)
    BY DEF SqlConfiguration, Lists
  <2>2. PlainProgram(ForEach(c.allowed_subnet_ids, LAMBDA subnet, i :
            <<Resource(server, "VirtualNetworkRule", "w", {RG, server.urn})>>))
    BY <2>1, PlainResource, PlainOne, PlainAll DEF ForEach
  <2>3. PlainProgram(ForEach(c.allowed_public_networks, LAMBDA name, i : <<FirewallRule(server, name)>>))
    BY <1>1, <2>1, PlainOne, PlainAll DEF ForEach
  <2> QED BY <1>1, <2>2, <2>3, PlainOne, PlainWhen, PlainConcat DEF SqlNetworkRules
<1>3. PlainProgram(PrivateEndpoints(c, server)) /\ PlainProgram(Diagnostics(c, SqlElasticPool(c)))
  <2>1. Lists(c, {"private_endpoints"}) /\ Lists(c, {"log_workspace"})
    BY DEF SqlConfiguration, Lists
  <2> QED BY <2>1, PlainEndpoints, PlainDiagnostics
<1>4. PlainProgram(SqlJobAgent(c))
  <2> DEFINE pool == IF c.elastic_pool THEN {SqlElasticPool(c).urn} ELSE {}
             db == [name |-> "jobagent", log_workspace |-> c.log_workspace]
             identity == Resource(SqlComponent, "UserAssignedIdentity", "sqljobagent", {RG})
             agent == Resource(SqlComponent, "JobAgent", c.name,
                       {RG, server.urn, identity.urn, SqlDatabase(SqlComponent, db, pool \cup {server.urn}).urn})
             group == Resource(SqlComponent, "JobTargetGroup", c.name, {RG, server.urn, agent.urn} \cup pool)
             refs == pool \cup {server.urn}
  <2>1. SqlJobAgent(c) = SqlDatabaseProgram(SqlComponent, db, refs) \o <<identity, agent, group>>
    BY DEF SqlJobAgent
  <2>2. Plain(identity) /\ Plain(agent) /\ Plain(group)
    BY PlainResource
  <2>3. Lists(db, {"log_workspace"})
    BY DEF SqlConfiguration, Lists
  <2> HIDE DEF identity, agent, group, refs, db
  <2> QED BY <2>1, <2>2, <2>3, PlainDatabase, PlainThree, PlainConcat
<1>5. Plain(Resource(server, "ServerDnsAlias", "w", {RG, server.urn}))
  BY PlainResource
<1> DEFINE alias == Resource(server, "ServerDnsAlias", "w", {RG, server.urn})
<1> HIDE DEF server, alias
<1> QED BY <1>1, <1>2, <1>3, <1>4, <1>5, PlainOne, PlainWhen, PlainExport, PlainConcat
        DEF SqlProgram, server, alias

\* MySQL and PostgreSQL: the server, under the name it is given or the stack's.
LEMMA FlexibleServerFacts ==
    ASSUME NEW type, NEW server_type, NEW c
    PROVE  LET m == FlexibleServer(type, server_type, c)
           IN  Plain(m.component) /\ Plain(m.password) /\ Plain(m.server)
<1> DEFINE component == Component(ResourceGroup, type, "w")
           password == RandomPassword(component, <<type, "admin-pwd">>)
           refs == {RG} \cup (IF c.admin_password THEN {} ELSE {password.urn})
           server == Resource(component, server_type, "w", refs)
<1>1. Plain(component) /\ Plain(password) /\ Plain(server) /\ \A name : Plain(Fixed(server, name))
  <2>1. Plain(component) /\ Plain(password)
    BY PlainComponent, PlainResource DEF RandomPassword
  <2> HIDE DEF refs, component, password
  <2> QED BY <2>1, PlainResource, PlainNamed
<1> DEFINE m == FlexibleServer(type, server_type, c)
<1>2. /\ m.component = component /\ m.password = password
      /\ m.server = IF c.server_name # "" THEN Fixed(server, c.server_name) ELSE Fixed(server, "w")
  BY DEF FlexibleServer
<1> HIDE DEF component, password, server, m
<1>3. Plain(m.component) /\ Plain(m.password) /\ Plain(m.server)
  BY <1>1, <1>2
<1> QED BY <1>3 DEF m

\* The parameters of a flexible server.
LEMMA PlainServerParams ==
    ASSUME NEW c, NEW server, IsList(c.server_params)
    PROVE  PlainProgram(ServerParams(c, server))
<1>1. \A name : Plain(Fixed(Resource(server, "Configuration", FmtName(name), {RG, server.urn}),
                            <<server.urn[3], name>>))
  BY PlainNamed
<1> QED BY <1>1, PlainOne, PlainAll DEF ServerParams, ForEach

\* A MySQL server with its databases and its firewall.
LEMMA PlainMysql ==
    ASSUME NEW c, Lists(c, {"databases", "allowed_public_networks", "server_params", "log_workspace"})
    PROVE  PlainProgram(MysqlProgram(c))
<1> DEFINE m == FlexibleServer("Graviton:MysqlFlexibleServer", "mysql.Server", c)
<1>1. Plain(m.component) /\ Plain(m.password) /\ Plain(m.server)
  BY FlexibleServerFacts
<1> HIDE DEF m
<1>2. /\ IsList(c.databases) /\ IsList(c.allowed_public_networks) /\ IsList(c.server_params)
      /\ Lists(c, {"log_workspace"})
  BY DEF Lists
<1>3. Plain(EntraAdmin(m.server)) /\ \A name : Plain(FirewallRule(m.server, name))
  BY PlainResource, PlainNamed DEF EntraAdmin, FirewallRule
<1>4. /\ PlainProgram(Parts(m.server, "MysqlDatabase", c.databases))
      /\ PlainProgram(Diagnostics(c, m.server)) /\ PlainProgram(ServerParams(c, m.server))
  BY <1>2, PlainParts, PlainDiagnostics, PlainServerParams
<1>5. PlainProgram(ForEach(c.allowed_public_networks, LAMBDA name, i : <<FirewallRule(m.server, name)>>))
  BY <1>2, <1>3, PlainOne, PlainAll DEF ForEach
<1> QED BY <1>1, <1>3, <1>4, <1>5, PlainOne, PlainWhen, PlainExport, PlainConcat, PlainValidated
        DEF MysqlProgram, m

\* A PostgreSQL server likewise.
LEMMA PlainPostgres ==
    ASSUME NEW c, Lists(c, {"server_params", "log_workspace"})
    PROVE  PlainProgram(PostgresProgram(c))
<1> DEFINE p == FlexibleServer("Graviton:PostgresFlexibleServer", "postgres.Server", c)
<1>1. Plain(p.component) /\ Plain(p.password) /\ Plain(p.server)
  BY FlexibleServerFacts
<1> HIDE DEF p
<1>2. IsList(c.server_params) /\ Lists(c, {"log_workspace"})
  BY DEF Lists
<1>3. Plain(EntraAdmin(p.server))
  BY PlainResource DEF EntraAdmin
<1>4. PlainProgram(Diagnostics(c, p.server)) /\ PlainProgram(ServerParams(c, p.server))
  BY <1>2, PlainDiagnostics, PlainServerParams
<1> QED BY <1>1, <1>3, <1>4, PlainOne, PlainWhen, PlainExport, PlainConcat, PlainValidated
        DEF PostgresProgram, p

(* Messaging and small services *)

\* Service Bus queues that forward to none: one that forwards names the other by a
\* string and does not wait for it.
QueuesApart(c) ==
    \A queue \in ToSet(c.queues) : queue.forward_to = "" /\ queue.forward_dead_letters_to = ""

\* A Service Bus namespace, as far as no queue forwards to another.
LEMMA PlainServiceBus ==
    ASSUME NEW c, Lists(c, {"queues", "private_endpoints", "log_workspace"}), QueuesApart(c)
    PROVE  PlainProgram(ServiceBusProgram(c))
<1> DEFINE namespace == SbNamespace(c)
           rules == Resource(namespace, "sb.NetworkRuleSet", "w", {RG, namespace.urn})
<1>1. Plain(ServiceBusComponent) /\ Plain(namespace) /\ Plain(rules)
  BY PlainComponent, PlainNamed, PlainResource DEF ServiceBusComponent, SbNamespace
<1>2. IsList(c.queues) /\ Lists(c, {"private_endpoints"}) /\ Lists(c, {"log_workspace"})
  BY DEF Lists
<1>3. ASSUME NEW queue \in ToSet(c.queues) PROVE Plain(SbQueue(c, queue))
  <2> DEFINE s == PartOf(namespace, "sb.Queue", queue.name)
             named == {PartOf(namespace, "sb.Queue", name).urn :
                         name \in {queue.forward_to, queue.forward_dead_letters_to} \ {""}}
  <2>1. Plain(s)
    BY PlainNamed DEF PartOf
  <2>2. named = {}
    BY DEF QueuesApart
  <2>3. SbQueue(c, queue) = Naming(s, named)
    BY DEF SbQueue
  <2> HIDE DEF s, named
  <2> QED BY <2>1, <2>2, <2>3, WaitingNaming DEF Plain, Waiting
<1>4. PlainProgram(ForEach(c.queues, LAMBDA queue, i : <<SbQueue(c, queue)>>))
  <2>1. \A i \in 1 .. Len(c.queues) : Plain(SbQueue(c, c.queues[i]))
    BY <1>2, <1>3, ListLen
  <2> QED BY <1>2, <2>1, PlainOne, PlainAll DEF ForEach
<1>5. PlainProgram(PrivateEndpoints(c, namespace)) /\ PlainProgram(Diagnostics(c, namespace))
  BY <1>2, PlainEndpoints, PlainDiagnostics
<1> HIDE DEF namespace, rules
<1> QED BY <1>1, <1>4, <1>5, PlainOne, PlainTwo, PlainWhen, PlainExport, PlainConcat
        DEF ServiceBusProgram, namespace, rules

\* An Event Hubs namespace.
LEMMA PlainEventHub ==
    ASSUME NEW parent, NEW c, Lists(c, {"hubs", "private_endpoints", "log_workspace"})
    PROVE  PlainProgram(EventHubProgram(parent, c))
<1> DEFINE namespace == EhNamespace(parent)
           rules == Resource(EventHubComponent(parent), "eh.NetworkRuleSet", "w", {RG, namespace.urn})
<1>1. Plain(EventHubComponent(parent)) /\ Plain(namespace) /\ Plain(rules)
  BY PlainComponent, PlainResource DEF EventHubComponent, EhNamespace
<1>2. IsList(c.hubs) /\ Lists(c, {"private_endpoints"}) /\ Lists(c, {"log_workspace"})
  BY DEF Lists
<1>3. /\ PlainProgram(Parts(namespace, "EventHub", c.hubs))
      /\ PlainProgram(PrivateEndpoints(c, namespace)) /\ PlainProgram(Diagnostics(c, namespace))
  BY <1>2, PlainParts, PlainEndpoints, PlainDiagnostics
<1> HIDE DEF namespace, rules
<1> QED BY <1>1, <1>3, PlainOne, PlainTwo, PlainWhen, PlainExport, PlainConcat
        DEF EventHubProgram, namespace, rules

\* A role assignment waits for its principal.
LEMMA PlainRole ==
    ASSUME NEW parent, NEW prefix, NEW role, NEW principal
    PROVE  Plain(RoleAssignment(parent, prefix, role, principal))
  BY PlainResource DEF RoleAssignment

\* An Event Grid domain with its topics.
LEMMA PlainEventGrid ==
    ASSUME NEW c, Lists(c, {"topics", "azure_permissions", "log_workspace"})
    PROVE  PlainProgram(EventGridProgram(c))
<1> DEFINE domain == EventGridDomain(c)
<1>1. Plain(EventGridComponent) /\ Plain(domain)
      /\ \A type, topic : Plain(Beside(EventGridComponent, domain, type, topic))
  BY PlainComponent, PlainNamed DEF EventGridComponent, EventGridDomain, Beside
<1>2. IsList(c.topics) /\ IsList(c.azure_permissions) /\ Lists(c, {"log_workspace"})
  BY DEF Lists
<1> HIDE DEF domain
<1>3. PlainProgram(ForEach(c.topics, LAMBDA topic, i :
             <<Beside(EventGridComponent, domain, "DomainTopic", topic)>>))
  BY <1>1, <1>2, PlainOne, PlainAll DEF ForEach
<1>4. PlainProgram(ForEach(c.azure_permissions, LAMBDA p, i :
             <<RoleAssignment(domain, p.name_prefix \o <<c.name>>, p.role, domain.urn)>>))
  BY <1>2, PlainRole, PlainOne, PlainAll DEF ForEach
<1>5. PlainProgram(Diagnostics(c, domain))
  BY <1>2, PlainDiagnostics
<1> QED BY <1>1, <1>3, <1>4, <1>5, PlainOne, PlainTwo, PlainExport, PlainConcat DEF EventGridProgram, domain

\* A key vault with its endpoints.
LEMMA PlainKeyVault ==
    ASSUME NEW parent, NEW c, Lists(c, {"private_endpoints", "log_workspace"})
    PROVE  PlainProgram(KeyVaultProgram(parent, c))
<1>1. Plain(KeyVaultComponent(parent)) /\ Plain(Vault(parent, c))
  BY PlainComponent, PlainNamed DEF KeyVaultComponent, Vault
<1>2. Lists(c, {"private_endpoints"}) /\ Lists(c, {"log_workspace"})
  BY DEF Lists
<1>3. PlainProgram(PrivateEndpoints(c, Vault(parent, c))) /\ PlainProgram(Diagnostics(c, Vault(parent, c)))
  BY <1>2, PlainEndpoints, PlainDiagnostics
<1> QED BY <1>1, <1>3, PlainOne, PlainTwo, PlainExport, PlainConcat DEF KeyVaultProgram

\* A secret waits for its vault, and for what its value comes from.
LEMMA PlainSecret ==
    ASSUME NEW parent, NEW name, NEW vault, NEW value
    PROVE  PlainProgram(SecretProgram(parent, name, vault, value))
<1>1. Plain(VaultReference(vault))
      /\ Plain(Fixed(Resource(parent, "Secret", name, {RG, VaultReference(vault).urn} \cup value), name))
  BY PlainResource, PlainNamed DEF VaultReference
<1> QED BY <1>1, PlainTwo DEF SecretProgram

\* A container registry.
LEMMA PlainRegistry ==
    ASSUME NEW parent, NEW c
    PROVE  PlainProgram(ContainerRegistryProgram(parent, c))
<1>1. Plain(Fixed(Resource(parent, "Registry", c.name, {RG}), c.name))
  BY PlainNamed
<1> QED BY <1>1, PlainExport, PlainTwo DEF ContainerRegistryProgram

\* A Cognitive Services account.
LEMMA PlainCognitive ==
    ASSUME NEW c, Lists(c, {"private_endpoints", "log_workspace"})
    PROVE  PlainProgram(CognitiveProgram(c))
<1>1. Plain(CognitiveComponent) /\ Plain(CognitiveAccount(c))
  BY PlainComponent, PlainNamed DEF CognitiveComponent, CognitiveAccount
<1>2. Lists(c, {"private_endpoints"}) /\ Lists(c, {"log_workspace"})
  BY DEF Lists
<1>3. PlainProgram(PrivateEndpoints(c, CognitiveAccount(c))) /\ PlainProgram(Diagnostics(c, CognitiveAccount(c)))
  BY <1>2, PlainEndpoints, PlainDiagnostics
<1> QED BY <1>1, <1>3, PlainOne, PlainTwo, PlainExport, PlainConcat DEF CognitiveProgram

\* A search service.
LEMMA PlainSearch ==
    ASSUME NEW c, Lists(c, {"private_endpoints", "log_workspace"})
    PROVE  PlainProgram(SearchProgram(c))
<1>1. Plain(SearchComponent) /\ Plain(SearchService)
      /\ \A refs : Plain(DiagnosticSetting(SearchComponent, SearchService, refs))
  BY PlainComponent, PlainResource DEF SearchComponent, SearchService, DiagnosticSetting
<1>2. Lists(c, {"private_endpoints"}) /\ IsList(c.log_workspace)
  BY DEF Lists
<1>3. PlainProgram(PrivateEndpoints(c, SearchService))
  BY <1>2, PlainEndpoints
<1>4. PlainProgram(ForEach(c.log_workspace,
               LAMBDA refs, i : <<DiagnosticSetting(SearchComponent, SearchService, refs)>>))
  BY <1>1, <1>2, PlainOne, PlainAll DEF ForEach
<1> QED BY <1>1, <1>3, <1>4, PlainOne, PlainTwo, PlainExport, PlainConcat DEF SearchProgram

-----------------------------------------------------------------------------
(* Front Door *)

\* A configuration of a Front Door profile.
FrontDoorConfiguration(c) ==
    /\ Lists(c, {"origin_groups", "custom_domains", "endpoints", "log_workspace"})
    /\ \A group \in ToSet(c.origin_groups) : Lists(group, {"origins"})
    /\ \A endpoint \in ToSet(c.endpoints) : Lists(endpoint, {"routes"})

\* A route names its group only, whose origins it needs: it waits for the origins of
\* every group, and its own is one of them, since a route that names no group of the
\* configuration is refused.
LEMMA PlainRoute ==
    ASSUME NEW c, NEW endpoint, NEW route,
           \E g \in ToSet(c.origin_groups) : g.name = route.origin_group
    PROVE  Plain(Route(c, endpoint, route))
<1> DEFINE group == CHOOSE g \in ToSet(c.origin_groups) : g.name = route.origin_group
           refs == {RG, Profile(c).urn, AfdEndpoint(c, endpoint).urn, OriginGroup(c, group.name).urn}
                   \cup {AfdCustomDomain(c, name).urn : name \in route.custom_domains}
           s == Fixed(Resource(AfdEndpoint(c, endpoint), "Route", route.name, refs), <<endpoint, route.name>>)
           origins == UNION {OriginsOf(c, g) : g \in ToSet(c.origin_groups)}
           t == Naming(s, OriginsOf(c, group))
<1>1. group \in ToSet(c.origin_groups)
  OBVIOUS
<1>2. OriginsOf(c, group) \subseteq origins
  BY <1>1
<1>3. Plain(s)
  BY PlainNamed
<1>4. Route(c, endpoint, route) = DependsOn(t, origins)
  BY DEF Route
<1> HIDE DEF s, origins, group
<1>5. IsStatement(t) /\ t.deps = s.deps /\ t.uses = s.uses \cup OriginsOf(c, group) /\ t.lock = s.lock
  BY <1>3, WaitingNaming DEF Plain, Waiting
<1> HIDE DEF t
<1> QED BY <1>2, <1>3, <1>4, <1>5, PlainDependsOn DEF Plain, Waiting

\* A part of a resource under a fixed name.
LEMMA PlainPart ==
    ASSUME NEW owner, NEW type, NEW name
    PROVE  Plain(PartOf(owner, type, name))
  BY PlainNamed DEF PartOf

\* Waiting for what it names in addition.
LEMMA PlainMore ==
    ASSUME NEW s, NEW more, Plain(s)
    PROVE  Plain([s EXCEPT !.deps = @ \cup more, !.uses = @ \cup more])
  BY Fields DEF Plain, Waiting, IsStatement

\* A Front Door of any size: every resource waits for all that it names.
LEMMA PlainFrontDoor ==
    ASSUME NEW c, FrontDoorConfiguration(c)
    PROVE  PlainProgram(FrontDoorProgram(c))
<1>1. /\ IsList(c.origin_groups) /\ IsList(c.custom_domains) /\ IsList(c.endpoints) /\ Lists(c, {"log_workspace"})
      /\ \A i \in 1 .. Len(c.origin_groups) : IsList(c.origin_groups[i].origins)
      /\ \A i \in 1 .. Len(c.endpoints) : IsList(c.endpoints[i].routes) /\ c.endpoints[i] \in ToSet(c.endpoints)
  BY ListLen DEF FrontDoorConfiguration, Lists
<1>2. /\ Plain(FrontDoorComponent(c)) /\ Plain(Profile(c))
      /\ \A name : Plain(OriginGroup(c, name)) /\ Plain(AfdEndpoint(c, name))
      /\ \A group, name : Plain(Origin(c, group, name))
  BY PlainComponent, PlainNamed, PlainPart, PlainMore
  DEF FrontDoorComponent, Profile, OriginGroup, AfdEndpoint, Origin
<1>3. PlainProgram(ForEach(c.origin_groups, LAMBDA g, i : <<OriginGroup(c, g.name)>>))
  BY <1>1, <1>2, PlainOne, PlainAll DEF ForEach
<1>4. PlainProgram(ForEach(c.origin_groups, LAMBDA g, i :
              ForEach(g.origins, LAMBDA name, k : <<Origin(c, g.name, name)>>)))
  <2>1. ASSUME NEW g, IsList(g.origins)
        PROVE  PlainProgram(ForEach(g.origins, LAMBDA name, k : <<Origin(c, g.name, name)>>))
    BY <1>2, <2>1, PlainOne, PlainAll DEF ForEach
  <2> QED BY <1>1, <2>1, PlainAll DEF ForEach
<1>5. PlainProgram(Parts(Profile(c), "AFDCustomDomain", c.custom_domains)) /\ PlainProgram(Diagnostics(c, Profile(c)))
  BY <1>1, PlainParts, PlainDiagnostics
<1>6. PlainProgram(ForEach(c.endpoints, LAMBDA e, i : <<AfdEndpoint(c, e.name)>>))
  BY <1>1, <1>2, PlainOne, PlainAll DEF ForEach
<1>7. ASSUME ValidFrontDoor(c)
      PROVE  PlainProgram(ForEach(c.endpoints, LAMBDA e, i :
                ForEach(e.routes, LAMBDA route, k : <<Route(c, e.name, route)>>)))
  <2>1. ASSUME NEW e \in ToSet(c.endpoints), IsList(e.routes)
        PROVE  PlainProgram(ForEach(e.routes, LAMBDA route, k : <<Route(c, e.name, route)>>))
    <3>1. \A k \in 1 .. Len(e.routes) : Plain(Route(c, e.name, e.routes[k]))
      <4>1. \A k \in 1 .. Len(e.routes) : \E g \in ToSet(c.origin_groups) : g.name = e.routes[k].origin_group
        BY <1>7, <2>1, ListLen DEF ValidFrontDoor
      <4> QED BY <4>1, PlainRoute
    <3> QED BY <2>1, <3>1, PlainOne, PlainAll DEF ForEach
  <2> QED BY <1>1, <2>1, PlainAll DEF ForEach
<1>8. PlainProgram(WafPolicy(c))
  <2> DEFINE guarded == {AfdCustomDomain(c, name).urn : name \in ToSet(c.custom_domains)}
                        \cup {AfdEndpoint(c, e.name).urn : e \in ToSet(c.endpoints)}
             policy == PartOf(Profile(c), "SecurityPolicy", <<c.name, "waf">>)
             s == [policy EXCEPT !.deps = @ \cup guarded, !.uses = @ \cup guarded]
  <2>1. Plain(s)
    <3>1. Plain(policy)
      BY PlainPart
    <3> HIDE DEF policy, guarded
    <3> QED BY <3>1, PlainMore
  <2>2. WafPolicy(c) = When(c.waf_policy, IF guarded = {} THEN Raise ELSE <<s>>)
    BY DEF WafPolicy
  <2> HIDE DEF guarded, s
  <2> QED BY <2>1, <2>2, PlainRaise, PlainOne, PlainWhen
<1> QED BY <1>2, <1>3, <1>4, <1>5, <1>6, <1>7, <1>8, PlainTwo, PlainRaise, PlainConcat DEF FrontDoorProgram

(* Platform services *)

\* The permissions that a component grants, one for each.
LEMMA PlainNamedPermissions ==
    ASSUME NEW c, NEW resource, IsList(c.permissions)
    PROVE  PlainProgram(NamedPermissions(c, resource))
<1> DEFINE own == IF c.name = "" THEN "w" ELSE c.name
           f == [i \in 1 .. Len(c.permissions) |->
                   <<RoleAssignment(resource,
                       IF c.permissions[i].name_prefix = <<>> THEN <<own>>
                       ELSE c.permissions[i].name_prefix \o <<c.name>>,
                       c.permissions[i].role, resource.urn)>>]
<1>1. NamedPermissions(c, resource) = FlattenSeq(f)
  BY DEF NamedPermissions, ForEach
<1>2. f = [i \in 1 .. Len(c.permissions) |-> f[i]] /\ \A i \in 1 .. Len(c.permissions) : PlainProgram(f[i])
  BY PlainRole, PlainOne
<1> HIDE DEF f
<1> QED BY <1>1, <1>2, PlainAll

\* An App Service plan.
LEMMA PlainPlan ==
    ASSUME NEW c, Lists(c, {"log_workspace"})
    PROVE  PlainProgram(PlanProgram(c))
<1> DEFINE plan == Resource(Root, "AppServicePlan", "w", {RG})
<1>1. Plain(plan)
  BY PlainResource
<1> HIDE DEF plan
<1>2. PlainProgram(<<plan>> \o Diagnostics(c, plan))
  BY <1>1, PlainDiagnostics, PlainOne, PlainConcat
<1> QED BY <1>2 DEF PlanProgram, plan

\* A web app with its endpoints and its permissions.
LEMMA PlainWebApp ==
    ASSUME NEW c, Lists(c, {"private_endpoints", "permissions", "log_workspace"})
    PROVE  PlainProgram(WebAppProgram(c))
<1>1. Plain(WebAppComponent(c)) /\ Plain(WebApp(c))
  BY PlainComponent, PlainNamed DEF WebAppComponent, WebApp
<1>2. IsList(c.permissions) /\ Lists(c, {"private_endpoints"}) /\ Lists(c, {"log_workspace"})
  BY DEF Lists
<1>3. /\ PlainProgram(PrivateEndpoints(c, WebApp(c))) /\ PlainProgram(NamedPermissions(c, WebApp(c)))
      /\ PlainProgram(Diagnostics(c, WebApp(c)))
  BY <1>2, PlainEndpoints, PlainNamedPermissions, PlainDiagnostics
<1> QED BY <1>1, <1>3, PlainTwo, PlainConcat DEF WebAppProgram

\* A Logic App workflow.
LEMMA PlainWorkflow ==
    ASSUME NEW c, Lists(c, {"permissions", "log_workspace"})
    PROVE  PlainProgram(WorkflowProgram(c))
<1>1. Plain(WorkflowComponent(c)) /\ Plain(Workflow(c))
  BY PlainComponent, PlainNamed DEF WorkflowComponent, Workflow
<1>2. IsList(c.permissions) /\ Lists(c, {"log_workspace"})
  BY DEF Lists
<1>3. PlainProgram(NamedPermissions(c, Workflow(c))) /\ PlainProgram(Diagnostics(c, Workflow(c)))
  BY <1>2, PlainNamedPermissions, PlainDiagnostics
<1> QED BY <1>1, <1>3, PlainTwo, PlainConcat DEF WorkflowProgram

\* A component that is told what to wait for.
LEMMA PlainWaiting ==
    ASSUME NEW parent, NEW type, NEW name, NEW waits
    PROVE  Plain(DependsOn(Component(parent, type, name), waits))
  BY PlainComponent, PlainDependsOn DEF Plain, Waiting

\* An App Configuration store with its keys.
LEMMA PlainAppConfig ==
    ASSUME NEW parent, NEW waits, NEW c, Lists(c, {"keys"})
    PROVE  PlainProgram(AppConfigProgram(parent, waits, c))
<1> DEFINE store == ConfigurationStore(parent, waits)
<1>1. Plain(AppConfigComponent(parent, waits)) /\ Plain(store)
  BY PlainWaiting, PlainResource DEF AppConfigComponent, ConfigurationStore
<1>2. IsList(c.keys)
  BY DEF Lists
<1> HIDE DEF store
<1>3. PlainProgram(ForEach(c.keys, LAMBDA key, i : <<PartOf(store, "KeyValue", key)>>))
  BY <1>2, PlainPart, PlainOne, PlainAll DEF ForEach
<1> QED BY <1>1, <1>3, PlainOne, PlainTwo, PlainExport, PlainConcat DEF AppConfigProgram, store

\* A virtual machine with its disks and its interface.
LEMMA PlainVm ==
    ASSUME NEW parent, NEW waits, NEW c, Lists(c, {"disks"})
    PROVE  PlainProgram(VmProgram(parent, waits, c))
<1> DEFINE component == VmComponent(parent, waits)
<1>1. Plain(component)
  BY PlainWaiting DEF VmComponent
<1> HIDE DEF component
<1>2. /\ Plain(NetworkInterface(component)) /\ Plain(VirtualMachine(component, c))
      /\ \A name : Plain(DataDisk(component, name))
  BY PlainResource, PlainNamed DEF NetworkInterface, VirtualMachine, DataDisk
<1>3. PlainProgram(ForEach(c.disks, LAMBDA name, i : <<DataDisk(component, name), Export(<<"disk">>)>>))
  <2>1. IsList(c.disks)
    BY DEF Lists
  <2> QED BY <1>2, <2>1, PlainExport, PlainTwo, PlainAll DEF ForEach
<1> QED BY <1>1, <1>2, <1>3, PlainOne, PlainFour, PlainExport, PlainConcat, PlainValidated
        DEF VmProgram, component

\* A backup vault.
LEMMA PlainBackup == PlainProgram(BackupVaultProgram)
<1> DEFINE component == Component(ResourceGroup, "Graviton:BackupVault", "w")
           vault == Fixed(Resource(component, "rs.Vault", "w", {RG}), "w")
<1>1. Plain(component) /\ Plain(vault)
  BY PlainComponent, PlainNamed
<1> HIDE DEF component, vault
<1>2. PlainProgram(<<component, vault, Export(<<"backupvault">>)>>)
  BY <1>1, PlainExport, PlainThree
<1> QED BY <1>2 DEF BackupVaultProgram, component, vault

-----------------------------------------------------------------------------
(* Identities *)

\* A configuration of an Entra application.
EntraConfiguration(c) ==
    Lists(c, {"app_roles", "oauth2_scopes", "client_credentials", "federated_credentials", "entra_roles"})

\* An Entra application with its roles, scopes, passwords and credentials.
LEMMA PlainEntraApp ==
    ASSUME NEW c, EntraConfiguration(c)
    PROVE  PlainProgram(EntraAppProgram(c))
<1>1. /\ Plain(EntraComponent(c.name)) /\ Plain(EntraApplication(c)) /\ Plain(ServicePrincipal(c))
      /\ \A role : Plain(AppRoleId(c, role))
      /\ \A scope : Plain(ScopeId(scope))
  BY PlainComponent, PlainResource
  DEF EntraComponent, EntraApplication, ServicePrincipal, AppRoleId, ScopeId
<1>2. /\ IsList(c.app_roles) /\ IsList(c.oauth2_scopes) /\ IsList(c.client_credentials)
      /\ IsList(c.federated_credentials) /\ IsList(c.entra_roles)
  BY DEF EntraConfiguration, Lists
<1>3. /\ PlainProgram(ForEach(c.app_roles, LAMBDA role, i : <<AppRoleId(c, role)>>))
      /\ PlainProgram(ForEach(c.oauth2_scopes, LAMBDA scope, i : <<ScopeId(scope)>>))
  BY <1>1, <1>2, PlainOne, PlainAll DEF ForEach
<1>4. PlainProgram(ClientCredentials(c))
  BY <1>2, PlainResource, PlainTwo, PlainAll DEF ClientCredentials, ForEach
<1>5. PlainProgram(FederatedCredentials(c))
  <2> DEFINE s(credential) == Resource(EntraComponent(c.name), "ApplicationFederatedIdentityCredential",
                                IF credential = <<>> THEN <<c.name>> ELSE credential,
                                {EntraApplication(c).urn})
             f == [i \in 1 .. Len(c.federated_credentials) |-> <<s(c.federated_credentials[i])>>]
  <2>1. \A credential : Plain(s(credential))
    BY PlainResource
  <2>2. FederatedCredentials(c) = FlattenSeq(f)
    BY DEF FederatedCredentials, ForEach
  <2> HIDE DEF s
  <2>3. f = [i \in 1 .. Len(c.federated_credentials) |-> f[i]]
        /\ \A i \in 1 .. Len(c.federated_credentials) : PlainProgram(f[i])
    BY <2>1, PlainOne
  <2> HIDE DEF f
  <2> QED BY <1>2, <2>2, <2>3, PlainAll
<1>6. PlainProgram(EntraRoles(c))
  BY <1>2, PlainResource, PlainOne, PlainAll DEF EntraRoles, ForEach
<1> QED BY <1>1, <1>3, <1>4, <1>5, <1>6, PlainOne, PlainTwo, PlainWhen, PlainExport, PlainConcat
        DEF EntraAppProgram

\* The permissions of its principal.
LEMMA PlainPrincipalPermissions ==
    ASSUME NEW c, NEW permissions, IsList(permissions)
    PROVE  PlainProgram(PrincipalPermissions(c, permissions))
<1> DEFINE f == [i \in 1 .. Len(permissions) |->
                   <<RoleAssignment(ServicePrincipal(c),
                       IF permissions[i].name_prefix = <<>> THEN <<"w">> ELSE permissions[i].name_prefix,
                       permissions[i].role, ServicePrincipal(c).urn)>>]
<1>1. PrincipalPermissions(c, permissions) = FlattenSeq(f)
  BY DEF PrincipalPermissions, ForEach
<1>2. f = [i \in 1 .. Len(permissions) |-> f[i]] /\ \A i \in 1 .. Len(permissions) : PlainProgram(f[i])
  BY PlainRole, PlainOne
<1> HIDE DEF f
<1> QED BY <1>1, <1>2, PlainAll

\* A tenant for external identities.
LEMMA PlainTenant ==
    ASSUME NEW prefix
    PROVE  PlainProgram(ExternalIdTenantProgram(prefix))
<1> DEFINE component == Component(Root, "Graviton:ExternalIdTenant", "w")
           tenant == Fixed(Resource(component, "CIAMTenant", prefix, {RG}), prefix)
<1>1. Plain(component) /\ Plain(tenant)
  BY PlainComponent, PlainNamed
<1> HIDE DEF component, tenant
<1>2. PlainProgram(<<component, tenant, Export(<<"tenant">>)>>)
  BY <1>1, PlainExport, PlainThree
<1> QED BY <1>2 DEF ExternalIdTenantProgram, component, tenant

\* A Pulumi ESC environment waits for all it is given, or raises.
LEMMA PlainPulumiEnv ==
    ASSUME NEW env, NEW input, NEW refs
    PROVE  PlainProgram(PulumiEnvProgram(env, input, refs))
<1> DEFINE component == Component(Root, "Graviton:PulumiEscEnv", env)
           command == Fixed(Resource(component, "Command", env, refs), env)
<1>1. Plain(component) /\ Plain(command)
  BY PlainComponent, PlainNamed
<1> HIDE DEF component, command
<1>2. PlainProgram(<<component>> \o IF "env_name" \notin input THEN Raise ELSE <<command>>)
  BY <1>1, PlainOne, PlainRaise, PlainConcat
<1> QED BY <1>2 DEF PulumiEnvProgram, component, command

-----------------------------------------------------------------------------
(* Container apps *)

\* The certificate of a domain waits for the records that it names.
LEMMA PlainManagedCertificate ==
    ASSUME NEW owner, NEW domain, NEW environment, NEW records
    PROVE  Plain(ManagedCertificate(owner, domain, environment, records))
<1> DEFINE s == Fixed(Resource(owner, "ManagedCertificate", FmtName(domain.name), environment),
                      <<"cert", domain.name>>)
           t == Naming(s, records)
<1>1. Plain(s)
  BY PlainNamed
<1>2. ManagedCertificate(owner, domain, environment, records) = DependsOn(t, records)
  BY DEF ManagedCertificate
<1> HIDE DEF s
<1>3. IsStatement(t) /\ t.deps = s.deps /\ t.uses = s.uses \cup records /\ t.lock = s.lock
  BY <1>1, WaitingNaming DEF Plain, Waiting
<1> HIDE DEF t
<1> QED BY <1>1, <1>2, <1>3, PlainDependsOn DEF Plain, Waiting

\* A domain of an app waits for its certificate.
LEMMA PlainCustomDomain ==
    ASSUME NEW owner, NEW domain, NEW environment, NEW verification
    PROVE  PlainProgram(CustomDomain(owner, domain, environment, verification))
<1> DEFINE zone == DomainZone(domain, owner, verification)
           records == IF domain.zone = <<>> THEN {} ELSE Urns(ToSet(DnsRecords(owner, zone)))
<1>1. Lists(zone, {"records"})
  <2> DEFINE a == [type |-> "CNAME", name |-> domain.name, refs |-> {owner.urn}]
             b == [type |-> "TXT", name |-> <<"asuid", ".">> \o domain.name, refs |-> verification]
  <2>1. zone.records = <<a, b>> /\ "records" \in DOMAIN zone
    BY DEF DomainZone
  <2> HIDE DEF a, b, zone
  <2>2. <<a, b>> \in Seq({a, b})
    OBVIOUS
  <2> QED BY <2>1, <2>2, ListSet DEF Lists
<1>2. PlainProgram(DnsZoneProgram(owner, zone))
  BY <1>1, PlainDnsZone
<1>3. CustomDomain(owner, domain, environment, verification) =
        IF domain.zone # <<>> /\ ~domain.zone[1].holds THEN Raise
        ELSE When(domain.zone # <<>>, DnsZoneProgram(owner, zone))
             \o When(domain.auto, <<ManagedCertificate(owner, domain, environment, records)>>)
  BY DEF CustomDomain
<1> HIDE DEF zone, records
<1> QED BY <1>2, <1>3, PlainManagedCertificate, PlainRaise, PlainOne, PlainWhen, PlainConcat

\* An app belongs to its component.
LEMMA ContainerAppFacts ==
    ASSUME NEW parent, NEW waits, NEW c
    PROVE  LET app == ContainerApp(parent, waits, c)
               component == AppComponent(parent, waits, c)
           IN  /\ Plain(component) /\ Plain(app) /\ ~app.comp
               /\ component.urn = <<Ancestry(parent), "Graviton:ContainerApp", AppName(c)>>
               /\ app.urn = <<Ancestry(component), IF c.job THEN "Job" ELSE "ContainerApp", AppName(c)>>
               /\ component.urn \in app.inside
<1> DEFINE component == AppComponent(parent, waits, c)
           type == IF c.job THEN "Job" ELSE "ContainerApp"
           refs == {RG} \cup c.environment \cup c.registry \cup c.refs
           r == Resource(component, type, AppName(c), refs)
           s == Fixed(r, AppName(c))
           keys == AppSecrets(c)
           app == [s EXCEPT !.keys = keys]
<1>1. /\ Plain(component) /\ component.comp /\ component # Root
      /\ component.urn = <<Ancestry(parent), "Graviton:ContainerApp", AppName(c)>>
  <2> DEFINE k == Component(parent, "Graviton:ContainerApp", AppName(c))
  <2>1. /\ Plain(k) /\ k.comp /\ k.urn = <<Ancestry(parent), "Graviton:ContainerApp", AppName(c)>>
    BY PlainComponent DEF Component, Statement
  <2>2. component = DependsOn(k, waits)
    BY DEF AppComponent
  <2>3. Root.urn[2] = ""
    BY DEF Root, Statement
  <2> HIDE DEF k, component
  <2>4. /\ Plain(component) /\ component.comp
        /\ component.urn = <<Ancestry(parent), "Graviton:ContainerApp", AppName(c)>>
    BY <2>1, <2>2, PlainDependsOn DEF Plain, Waiting
  <2>5. component # Root
    <3>1. component.urn[2] = "Graviton:ContainerApp"
      BY <2>4
    <3> QED BY <2>3, <3>1
  <2> QED BY <2>4, <2>5
<1> HIDE DEF component, type, refs
<1>2. /\ Plain(s) /\ ~s.comp /\ s.urn = <<Ancestry(component), type, AppName(c)>>
  BY PlainNamed
<1>3. s.inside = Inside(component)
  BY DEF Resource, Fixed, Statement
<1>4. component.urn \in Inside(component)
  BY <1>1 DEF Inside
<1>5. ContainerApp(parent, waits, c) = app
  BY DEF ContainerApp, component, type, refs
<1> HIDE DEF s, keys
<1>6. Plain(app) /\ ~app.comp /\ app.urn = s.urn /\ app.inside = s.inside
  BY <1>2, Fields DEF Plain, Waiting, IsStatement
<1> HIDE DEF app
<1> QED BY <1>1, <1>2, <1>3, <1>4, <1>5, <1>6 DEF component, type

\* A container app with its domains and permissions.
LEMMA PlainContainerApp ==
    ASSUME NEW parent, NEW waits, NEW c, IsList(c.domains), IsList(c.permissions)
    PROVE  PlainProgram(ContainerAppProgram(parent, waits, c))
<1> DEFINE app == ContainerApp(parent, waits, c)
<1>1. Plain(AppComponent(parent, waits, c)) /\ Plain(app)
  BY ContainerAppFacts
<1> HIDE DEF app
<1>2. PlainProgram(ForEach(c.domains, LAMBDA domain, i : CustomDomain(app, domain, c.environment, {app.urn})))
  BY PlainCustomDomain, PlainAll DEF ForEach
<1>3. PlainProgram(AppPermissions(app, c.permissions))
  BY PlainRole, PlainOne, PlainAll DEF AppPermissions, ForEach
<1>4. Plain(PartOf(app, "AppResiliency", "appres"))
  BY PlainPart
<1> QED BY <1>1, <1>2, <1>3, <1>4, PlainOne, PlainTwo, PlainWhen, PlainExport, PlainConcat
        DEF ContainerAppProgram, app

\* A route that waits for the apps it names.
LEMMA PlainHttpRoute ==
    ASSUME NEW parent, NEW waits, NEW c, IsList(c.domains), c.targets \subseteq waits
    PROVE  PlainProgram(HttpRouteProgram(parent, waits, c))
<1> DEFINE route == HttpRouteConfig(parent, waits, c)
<1>1. Plain(route)
  <2> DEFINE s == Fixed(Resource(parent, "HttpRouteConfig", c.name, c.environment), c.name)
             t == Naming(s, c.targets)
  <2>1. Plain(s)
    BY PlainNamed
  <2>2. route = DependsOn(t, waits)
    BY DEF HttpRouteConfig
  <2> HIDE DEF s, route
  <2>3. IsStatement(t) /\ t.deps = s.deps /\ t.uses = s.uses \cup c.targets /\ t.lock = s.lock
    BY <2>1, WaitingNaming DEF Plain, Waiting
  <2> HIDE DEF t
  <2> QED BY <2>1, <2>2, <2>3, PlainDependsOn DEF Plain, Waiting
<1> HIDE DEF route
<1>2. PlainProgram(ForEach(c.domains, LAMBDA domain, i :
                     CustomDomain(route, domain, c.environment, c.environment)))
  BY PlainCustomDomain, PlainAll DEF ForEach
<1> QED BY <1>1, <1>2, PlainOne, PlainExport, PlainConcat, PlainValidated DEF HttpRouteProgram, route

-----------------------------------------------------------------------------
(* Container app environments *)

\* A configuration of an environment.
EnvConfiguration(c) ==
    /\ Lists(c, {"storage", "certificates", "log_workspace"})
    /\ \A managed \in ToSet(c.storage) : IsList(managed.file_shares)

\* Storage without file shares: a storage of the environment names its share by a
\* string and waits for the component of the account, which a share is not a child of.
MountsNoShare(c) == \A managed \in ToSet(c.storage) : managed.file_shares = <<>>

\* An environment of container apps, as far as it mounts no share.
LEMMA PlainContainerAppEnv ==
    ASSUME NEW parent, NEW c, EnvConfiguration(c), MountsNoShare(c)
    PROVE  PlainProgram(ContainerAppEnvProgram(parent, c))
<1>1. Plain(EnvComponent(parent)) /\ Plain(ManagedEnvironment(parent, c))
  BY PlainComponent, PlainNamed DEF EnvComponent, ManagedEnvironment
<1>2. PlainProgram(EnvDnsRecords(parent, c))
  <2> DEFINE environment == ManagedEnvironment(parent, c).urn
             record(type, name) == [type |-> type, name |-> name, refs |-> {environment}]
             records == <<record("A", <<"*">>), record("TXT", <<"asuid">>), record("TXT", <<"*">>)>>
             zone == [ name |-> c.custom_domain[1].name, group |-> c.custom_domain[1].group, existing |-> TRUE,
                       records |-> records, parent_zone |-> FALSE, enable_dnssec |-> FALSE,
                       skip_exports |-> c.custom_domain[1].group # "" ]
  <2>1. Lists(zone, {"records"})
    <3>1. records \in Seq({record("A", <<"*">>), record("TXT", <<"asuid">>), record("TXT", <<"*">>)})
      <4> HIDE DEF record
      <4> QED OBVIOUS
    <3>2. zone.records = records /\ "records" \in DOMAIN zone
      OBVIOUS
    <3> HIDE DEF records, zone
    <3> QED BY <3>1, <3>2, ListSet DEF Lists
  <2>2. EnvDnsRecords(parent, c) = When(c.custom_domain # <<>>,
             When(c.custom_domain[1].zone, DnsZoneProgram(EnvComponent(parent), zone)))
    BY DEF EnvDnsRecords
  <2> HIDE DEF zone
  <2> QED BY <2>1, <2>2, PlainDnsZone, PlainWhen
<1>3. PlainProgram(EnvCertificates(parent, c))
  <2> DEFINE own == c.custom_domain[1].name
             names == c.certificates \o
                      When(c.custom_domain # <<>>, When(own \notin ToSet(c.certificates), <<own>>))
             f == [i \in 1 .. Len(names) |->
                     <<Fixed(Resource(EnvComponent(parent), "Certificate", FmtName(names[i]),
                                      {RG, ManagedEnvironment(parent, c).urn}), names[i])>>]
  <2>1. IsList(names)
    <3>1. IsList(<<>>) /\ IsList(<<own>>)
      BY DEF IsList, ToSet
    <3>2. IsList(c.certificates)
      BY DEF EnvConfiguration, Lists
    <3> HIDE DEF own
    <3> QED BY <3>1, <3>2, ConcatLists DEF When
  <2>2. EnvCertificates(parent, c) = FlattenSeq(f)
    BY DEF EnvCertificates, ForEach
  <2> HIDE DEF names
  <2>3. f = [i \in 1 .. Len(names) |-> f[i]] /\ \A i \in 1 .. Len(names) : PlainProgram(f[i])
    BY PlainNamed, PlainOne
  <2> HIDE DEF f
  <2> QED BY <2>1, <2>2, <2>3, PlainAll
<1>4. IsList(c.storage) /\ \A i \in 1 .. Len(c.storage) : c.storage[i].file_shares = <<>>
  BY ListLen DEF EnvConfiguration, MountsNoShare, Lists
<1>5. PlainProgram(EnvStorageAccounts(parent, c))
  <2>1. ASSUME NEW managed, managed.file_shares = <<>>
        PROVE  PlainProgram(StorageProgram(ManagedEnvironment(parent, c), ManagedStorageConfig(managed)))
    <3>1. IsList(<<>>) /\ ToSet(<<>>) = {}
      BY PlainEmpty DEF PlainProgram, ToSet
    <3>2. StorageConfiguration(ManagedStorageConfig(managed))
      BY <2>1, <3>1 DEF ManagedStorageConfig, StorageConfiguration, Lists
    <3> QED BY <3>2, PlainStorage
  <2> QED BY <1>4, <2>1, PlainAll DEF EnvStorageAccounts, ForEach
<1>6. PlainProgram(EnvStorages(parent, c))
  <2>1. ASSUME NEW managed, managed.file_shares = <<>>
        PROVE  PlainProgram(ForEach(managed.file_shares,
                                    LAMBDA share, k : <<EnvStorage(parent, c, managed, share)>>))
    <3>1. IsList(<<>>) /\ Len(<<>>) = 0
      BY PlainEmpty DEF PlainProgram
    <3> DEFINE f == [i \in 1 .. Len(managed.file_shares) |->
                      <<EnvStorage(parent, c, managed, managed.file_shares[i])>>]
    <3>2. IsList(f) /\ Len(f) = 0
      BY <2>1, <3>1, ListOf
    <3>3. f = <<>>
      <4> HIDE DEF f
      <4> QED BY <3>2, EmptySeq DEF IsList
    <3>4. FlattenSeq(<<>>) = <<>>
      BY <3>1 DEF FlattenSeq
    <3> QED BY <3>3, <3>4, PlainEmpty DEF ForEach
  <2> QED BY <1>4, <2>1, PlainAll DEF EnvStorages, ForEach
<1>7. PlainProgram(Diagnostics(c, ManagedEnvironment(parent, c)))
  <2>1. Lists(c, {"log_workspace"})
    BY DEF EnvConfiguration, Lists
  <2> QED BY <2>1, PlainDiagnostics
<1> QED BY <1>1, <1>2, <1>3, <1>5, <1>6, <1>7, PlainOne, PlainTwo, PlainExport, PlainConcat, PlainValidated
        DEF ContainerAppEnvProgram

-----------------------------------------------------------------------------
(* Parts of the bases *)

\* Giving a configuration a workspace leaves its lists lists.
LEMMA ListsLogging ==
    ASSUME NEW c, NEW refs, NEW fields, Lists(c, fields)
    PROVE  Lists(LoggingTo(refs, c), fields)
<1>1. IsList(<<refs>>)
  BY DEF IsList, ToSet
<1> QED BY <1>1 DEF Lists, LoggingTo

\* A database that is given another workspace is as well-formed as before.
LEMMA ListsOverriding ==
    ASSUME NEW c, NEW server, NEW fields, Lists(server, fields)
    PROVE  Lists(OverridingLog(c, server), fields)
  BY ListsLogging DEF OverridingLog

\* The workspace of a base.
LEMMA LogWorkspaceFacts ==
    /\ Plain(LogWorkspace(ResourceGroup)) /\ PlainProgram(LogWorkspaceProgram(ResourceGroup))
<1>1. Plain(LogWorkspace(ResourceGroup))
  BY PlainResource DEF LogWorkspace
<1> QED BY <1>1, PlainExport, PlainTwo DEF LogWorkspaceProgram

\* A list put together from lists.
LEMMA ListAll ==
    ASSUME NEW f, NEW list, IsList(list), f = [i \in 1 .. Len(list) |-> f[i]],
           \A i \in 1 .. Len(list) : IsList(f[i])
    PROVE  IsList(FlattenSeq(f))
<1>1. IsList(f) /\ Len(f) = Len(list)
  BY ListLen, ListOf
<1> QED BY <1>1, FlattenList

\* A credential has permissions; one for GitHub has repositories and what they have.
CredentialConfiguration(c) ==
    /\ Lists(c, {"permissions"})
    /\ c.credential_type = "github" => Lists(c, {"repos", "environments", "branches", "tags"})

\* The credentials of a workload identity, one or as many as its subjects.
LEMMA CredentialsAreList ==
    ASSUME NEW c, CredentialConfiguration(c)
    PROVE  IsList(Credentials(c))
<1>1. CASE c.credential_type # "github"
  <2>1. Credentials(c) = <<<<>>>>
    BY <1>1 DEF Credentials
  <2>2. <<<<>>>> \in Seq({<<>>})
    OBVIOUS
  <2> QED BY <2>1, <2>2, ListSet
<1>2. CASE c.credential_type = "github"
  <2>1. IsList(c.repos) /\ Len(c.environments) \in Nat /\ Len(c.branches) \in Nat /\ Len(c.tags) \in Nat
    BY <1>2, ListLen DEF CredentialConfiguration, Lists
  <2> DEFINE a(repo) == [k \in 1 .. Len(c.environments) |-> <<repo, "environment", c.environments[k]>>]
             b(repo) == [k \in 1 .. Len(c.branches) |-> <<repo, "ref", c.branches[k]>>]
             d(repo) == [k \in 1 .. Len(c.tags) |-> <<repo, "tag", c.tags[k]>>]
             e(repo) == When(c.pull_request, <<<<repo, "pull_request", "">>>>)
             f == [i \in 1 .. Len(c.repos) |-> a(c.repos[i]) \o b(c.repos[i]) \o d(c.repos[i]) \o e(c.repos[i])]
  <2>2. \A repo : IsList(a(repo)) /\ IsList(b(repo)) /\ IsList(d(repo))
    BY <2>1, ListOf
  <2>3. \A repo : IsList(e(repo))
    <3>1. IsList(<<>>) /\ \A x : IsList(<<x>>)
      BY DEF IsList, ToSet
    <3> QED BY <3>1 DEF When
  <2>4. GitHubCredentials(c) = FlattenSeq(f)
    BY DEF GitHubCredentials, ForEach
  <2> HIDE DEF a, b, d, e
  <2>5. f = [i \in 1 .. Len(c.repos) |-> f[i]] /\ \A i \in 1 .. Len(c.repos) : IsList(f[i])
    BY <2>2, <2>3, ConcatLists
  <2> HIDE DEF f
  <2>6. IsList(GitHubCredentials(c))
    BY <2>1, <2>4, <2>5, ListAll
  <2> QED BY <1>2, <2>6 DEF Credentials
<1> QED BY <1>1, <1>2

\* The workload identities, unless one of them is refused.
LEMMA PlainWorkloadIdentities ==
    ASSUME NEW credentials, IsList(credentials),
           \A credential \in ToSet(credentials) : CredentialConfiguration(credential)
    PROVE  PlainProgram(WorkloadIdentities(credentials))
<1>1. ASSUME NEW credential, CredentialConfiguration(credential)
      PROVE  PlainProgram(EntraAppProgram(WorkloadIdentity(credential))
                          \o PrincipalPermissions(WorkloadIdentity(credential), credential.permissions))
  <2>1. EntraConfiguration(WorkloadIdentity(credential))
    <3>1. IsList(<<>>) /\ IsList(Credentials(credential))
      BY <1>1, PlainEmpty, CredentialsAreList DEF PlainProgram
    <3> QED BY <3>1 DEF WorkloadIdentity, EntraConfiguration, Lists
  <2>2. IsList(credential.permissions)
    BY <1>1 DEF CredentialConfiguration, Lists
  <2> QED BY <2>1, <2>2, PlainEntraApp, PlainPrincipalPermissions, PlainConcat
<1>2. \A i \in 1 .. Len(credentials) : CredentialConfiguration(credentials[i])
  BY ListLen
<1>3. PlainProgram(ForEach(credentials, LAMBDA credential, i :
            EntraAppProgram(WorkloadIdentity(credential))
            \o PrincipalPermissions(WorkloadIdentity(credential), credential.permissions)))
  BY <1>1, <1>2, PlainAll DEF ForEach
<1> QED BY <1>3, PlainValidated DEF WorkloadIdentities

-----------------------------------------------------------------------------
(* The bases *)

\* A configuration of the app zone.
AppZoneConfiguration(c) ==
    /\ Lists(c, {"container_registry", "event_hub", "servicebus", "storage_accounts", "workload_identities"})
    /\ EnvConfiguration(c.containerapp_env) /\ "refs" \in DOMAIN c.containerapp_env
    /\ Lists(c.keyvault, {"private_endpoints", "log_workspace"})
    /\ \A e \in ToSet(c.event_hub) : Lists(e, {"hubs", "private_endpoints", "log_workspace"})
    /\ \A s \in ToSet(c.servicebus) : Lists(s, {"queues", "private_endpoints", "log_workspace"})
    /\ \A st \in ToSet(c.storage_accounts) : StorageConfiguration(st)
    /\ \A credential \in ToSet(c.workload_identities) : CredentialConfiguration(credential)

\* An app zone whose queues forward to none and whose environment mounts no share.
NamesNothing(c) ==
    MountsNoShare(c.containerapp_env) /\ \A s \in ToSet(c.servicebus) : QueuesApart(s)

\* In such an app zone every resource waits for what it names.
LEMMA PlainAppZone ==
    ASSUME NEW c, AppZoneConfiguration(c), NamesNothing(c)
    PROVE  PlainProgram(AppZoneProgram(c))
<1>1. /\ IsList(c.container_registry) /\ IsList(c.event_hub) /\ IsList(c.servicebus)
      /\ IsList(c.storage_accounts) /\ IsList(c.workload_identities)
  BY DEF AppZoneConfiguration, Lists
<1>2. Plain(AppInsights(c))
  BY PlainResource DEF AppInsights
<1>3. PlainProgram(ContainerAppEnvProgram(ResourceGroup,
           LoggingTo({Logs}, [c.containerapp_env EXCEPT !.refs = @ \cup {AppInsights(c).urn}])))
  <2> DEFINE e == [c.containerapp_env EXCEPT !.refs = @ \cup {AppInsights(c).urn}]
             l == LoggingTo({Logs}, e)
  <2>1. Lists(e, {"storage", "certificates", "log_workspace"}) /\ e.storage = c.containerapp_env.storage
    BY DEF AppZoneConfiguration, EnvConfiguration, Lists
  <2> HIDE DEF e
  <2>2. Lists(l, {"storage", "certificates", "log_workspace"})
    BY <2>1, ListsLogging
  <2>3. l.storage = e.storage
    BY <2>1 DEF LoggingTo, Lists
  <2> HIDE DEF l
  <2>4. EnvConfiguration(l) /\ MountsNoShare(l)
    BY <2>1, <2>2, <2>3 DEF AppZoneConfiguration, EnvConfiguration, NamesNothing, MountsNoShare
  <2> QED BY <2>4, PlainContainerAppEnv DEF l, e
<1>4. PlainProgram(KeyVaultProgram(ResourceGroup, LoggingTo({Logs}, c.keyvault)))
  BY ListsLogging, PlainKeyVault DEF AppZoneConfiguration
<1>5. PlainProgram(ForEach(c.container_registry, LAMBDA r, i : ContainerRegistryProgram(ResourceGroup, r)))
  BY <1>1, PlainRegistry, PlainAll DEF ForEach
<1>6. PlainProgram(ForEach(c.event_hub, LAMBDA e, i : EventHubProgram(ResourceGroup, LoggingTo({RG}, e))))
  <2>1. \A i \in 1 .. Len(c.event_hub) : PlainProgram(EventHubProgram(ResourceGroup, LoggingTo({RG}, c.event_hub[i])))
    BY <1>1, ListLen, ListsLogging, PlainEventHub DEF AppZoneConfiguration
  <2> QED BY <1>1, <2>1, PlainAll DEF ForEach
<1>7. PlainProgram(ForEach(c.servicebus, LAMBDA s, i : ServiceBusProgram(LoggingTo({Logs}, s))))
  <2>1. ASSUME NEW s, Lists(s, {"queues", "private_endpoints", "log_workspace"}), QueuesApart(s)
        PROVE  PlainProgram(ServiceBusProgram(LoggingTo({Logs}, s)))
    <3> DEFINE l == LoggingTo({Logs}, s)
    <3>1. Lists(l, {"queues", "private_endpoints", "log_workspace"}) /\ l.queues = s.queues
      BY <2>1, ListsLogging DEF LoggingTo, Lists
    <3> HIDE DEF l
    <3>2. QueuesApart(l)
      BY <2>1, <3>1 DEF QueuesApart
    <3> QED BY <3>1, <3>2, PlainServiceBus DEF l
  <2>2. \A i \in 1 .. Len(c.servicebus) :
          Lists(c.servicebus[i], {"queues", "private_endpoints", "log_workspace"}) /\ QueuesApart(c.servicebus[i])
    BY <1>1, ListLen DEF AppZoneConfiguration, NamesNothing
  <2> QED BY <1>1, <2>1, <2>2, PlainAll DEF ForEach
<1>8. PlainProgram(ForEach(c.storage_accounts, LAMBDA st, i : StorageProgram(ResourceGroup, st)))
  <2>1. \A i \in 1 .. Len(c.storage_accounts) : PlainProgram(StorageProgram(ResourceGroup, c.storage_accounts[i]))
    BY <1>1, ListLen, PlainStorage DEF AppZoneConfiguration
  <2> QED BY <1>1, <2>1, PlainAll DEF ForEach
<1>9. PlainProgram(WorkloadIdentities(c.workload_identities))
  BY <1>1, PlainWorkloadIdentities DEF AppZoneConfiguration
<1> QED BY <1>2, <1>3, <1>4, <1>5, <1>6, <1>7, <1>8, <1>9, LogWorkspaceFacts, BeginFacts,
           PlainExport, PlainTwo, PlainConcat
        DEF AppZoneProgram

\* A configuration of the landing zone.
LandingZoneConfiguration(c) ==
    /\ Lists(c, {"dns_zone", "container_registry", "eventhub", "eventgrid_domain", "search_service",
                 "workload_identities"})
    /\ c.has_keyvault => Lists(c.keyvault, {"private_endpoints", "log_workspace"})
    /\ \A zone \in ToSet(c.dns_zone) : Lists(zone, {"records"})
    /\ \A e \in ToSet(c.eventhub) : Lists(e, {"hubs", "private_endpoints", "log_workspace"})
    /\ \A d \in ToSet(c.eventgrid_domain) : Lists(d, {"topics", "azure_permissions", "log_workspace"})
    /\ \A s \in ToSet(c.search_service) : Lists(s, {"private_endpoints", "log_workspace"})
    /\ \A credential \in ToSet(c.workload_identities) : CredentialConfiguration(credential)

\* The landing zone without an ACME certificate, which names its zone by a string.
LEMMA PlainLandingZone ==
    ASSUME NEW c, LandingZoneConfiguration(c), ~c.acme_ssl
    PROVE  PlainProgram(LandingZoneProgram(c))
<1>1. /\ IsList(c.dns_zone) /\ IsList(c.container_registry) /\ IsList(c.eventhub) /\ IsList(c.eventgrid_domain)
      /\ IsList(c.search_service) /\ IsList(c.workload_identities)
  BY DEF LandingZoneConfiguration, Lists
<1>2. PlainProgram(When(c.has_keyvault, KeyVaultProgram(ResourceGroup, LoggingTo({Logs}, c.keyvault))))
  BY ListsLogging, PlainKeyVault, PlainWhen DEF LandingZoneConfiguration
<1>3. PlainProgram(ForEach(c.dns_zone, LAMBDA zone, i :
         DnsZoneProgram(ResourceGroup, zone)
         \o When(c.acme_ssl,
              IF ~c.has_keyvault THEN Raise
              ELSE AcmeProgram(zone.name, {DnsZone(ResourceGroup, zone).urn},
                               <<{Vault(ResourceGroup, c.keyvault).urn}>>))))
  <2>1. \A i \in 1 .. Len(c.dns_zone) : PlainProgram(DnsZoneProgram(ResourceGroup, c.dns_zone[i]))
    BY <1>1, ListLen, PlainDnsZone DEF LandingZoneConfiguration
  <2> QED BY <1>1, <2>1, PlainWhen, PlainConcat, PlainAll DEF ForEach
<1>4. PlainProgram(ForEach(c.container_registry, LAMBDA r, i : ContainerRegistryProgram(ResourceGroup, r)))
  BY <1>1, PlainRegistry, PlainAll DEF ForEach
<1>5. PlainProgram(ForEach(c.eventhub, LAMBDA e, i : EventHubProgram(ResourceGroup, LoggingTo({Logs}, e))))
  <2>1. \A i \in 1 .. Len(c.eventhub) : PlainProgram(EventHubProgram(ResourceGroup, LoggingTo({Logs}, c.eventhub[i])))
    BY <1>1, ListLen, ListsLogging, PlainEventHub DEF LandingZoneConfiguration
  <2> QED BY <1>1, <2>1, PlainAll DEF ForEach
<1>6. PlainProgram(ForEach(c.eventgrid_domain, LAMBDA d, i : EventGridProgram(LoggingTo({Logs}, d))))
  <2>1. \A i \in 1 .. Len(c.eventgrid_domain) : PlainProgram(EventGridProgram(LoggingTo({Logs}, c.eventgrid_domain[i])))
    BY <1>1, ListLen, ListsLogging, PlainEventGrid DEF LandingZoneConfiguration
  <2> QED BY <1>1, <2>1, PlainAll DEF ForEach
<1>7. PlainProgram(ForEach(c.search_service, LAMBDA s, i : SearchProgram(LoggingTo({Logs}, s))))
  <2>1. \A i \in 1 .. Len(c.search_service) : PlainProgram(SearchProgram(LoggingTo({Logs}, c.search_service[i])))
    BY <1>1, ListLen, ListsLogging, PlainSearch DEF LandingZoneConfiguration
  <2> QED BY <1>1, <2>1, PlainAll DEF ForEach
<1>8. PlainProgram(WorkloadIdentities(c.workload_identities))
  BY <1>1, PlainWorkloadIdentities DEF LandingZoneConfiguration
<1> QED BY <1>2, <1>3, <1>4, <1>5, <1>6, <1>7, <1>8, LogWorkspaceFacts, BeginFacts, PlainConcat
        DEF LandingZoneProgram

\* A configuration of an app workload is well-formed: its parts are, and an app has
\* the fields that the workload completes.
WorkloadConfiguration(c) ==
    /\ Lists(c, {"storage_accounts", "search_service", "app_config", "apps", "jobs", "http_routes", "oauth_app"})
    /\ \A st \in ToSet(c.storage_accounts) :
          StorageConfiguration(st) /\ Lists(st, {"app_permissions"}) /\ "exports_prefix" \in DOMAIN st
    /\ \A s \in ToSet(c.search_service) : Lists(s, {"private_endpoints", "log_workspace"})
    /\ \A a \in ToSet(c.app_config) : Lists(a, {"keys"})
    /\ \A a \in ToSet(c.apps) \cup ToSet(c.jobs) : Lists(a, {"domains", "permissions"}) /\ {"name", "job"} \subseteq DOMAIN a
    /\ \A route \in ToSet(c.http_routes) : Lists(route, {"domains"}) /\ {"environment", "targets"} \subseteq DOMAIN route
    /\ \A a \in ToSet(c.oauth_app) : EntraConfiguration(a)

\* The workload adds to an app what it waits for and what it may do, and leaves its
\* name and its domains alone.
LEMMA WorkloadAppFacts ==
    ASSUME NEW c, WorkloadConfiguration(c), NEW a, NEW k,
           Lists(a, {"domains", "permissions"}), {"name", "job"} \subseteq DOMAIN a
    PROVE  LET app == WorkloadApp(c, a, k)
           IN  /\ app.name = a.name /\ app.job = a.job /\ app.domains = a.domains
               /\ IsList(app.domains) /\ IsList(app.permissions)
<1> DEFINE secrets == SharedSecrets(c, k)
           more == StorageRoles(c)
           store == When(c.app_config # <<>>, StoreRoles)
           refs == Urns({n \in ToSet(WorkloadData(c) \o WorkloadStore(c)) :
                               n.urn[2] \in {"StorageAccount", "ConfigurationStore"}})
           app == [a EXCEPT !.secrets = secrets, !.permissions = @ \o more \o store, !.refs = @ \cup refs]
<1>1. WorkloadApp(c, a, k) = app
  BY DEF WorkloadApp
<1>2. IsList(more)
  <2> DEFINE f == [i \in 1 .. Len(c.storage_accounts) |->
                    [j \in 1 .. Len(c.storage_accounts[i].app_permissions) |->
                       [name_prefix |-> <<>>, role |-> c.storage_accounts[i].app_permissions[j]]]]
  <2>1. IsList(c.storage_accounts)
        /\ \A i \in 1 .. Len(c.storage_accounts) : Len(c.storage_accounts[i].app_permissions) \in Nat
    BY ListLen DEF WorkloadConfiguration, Lists
  <2>2. more = FlattenSeq(f)
    BY DEF StorageRoles, ForEach
  <2>3. f = [i \in 1 .. Len(c.storage_accounts) |-> f[i]]
        /\ \A i \in 1 .. Len(c.storage_accounts) : IsList(f[i])
    BY <2>1, ListOf
  <2> HIDE DEF f, more
  <2> QED BY <2>1, <2>2, <2>3, ListAll
<1>3. IsList(store)
  <2> DEFINE x == [name_prefix |-> <<>>, role |-> "App Configuration Data Reader"]
             y == [name_prefix |-> <<>>, role |-> "Reader"]
  <2>1. StoreRoles = <<x, y>>
    BY DEF StoreRoles
  <2> HIDE DEF x, y
  <2>2. IsList(<<x, y>>) /\ IsList(<<>>)
    BY DEF IsList, ToSet
  <2> QED BY <2>1, <2>2 DEF When
<1> HIDE DEF secrets, more, store, refs
<1>4. app.name = a.name /\ app.job = a.job /\ app.domains = a.domains
      /\ app.permissions = a.permissions \o more \o store
  BY DEF Lists
<1>5. IsList(a.domains) /\ IsList(a.permissions)
  BY DEF Lists
<1> HIDE DEF app
<1> QED BY <1>1, <1>2, <1>3, <1>4, <1>5, ConcatLists

\* The apps and the jobs of a workload, one after the other.
WorkloadAppPrograms(c) ==
    [k \in 1 .. Len(c.apps \o c.jobs) |->
       ContainerAppProgram(ResourceGroup, AppDeps(c), WorkloadApp(c, (c.apps \o c.jobs)[k], k))]

\* The programs of the apps and jobs, each plain, put together.
LEMMA WorkloadAppsFacts ==
    ASSUME NEW c, WorkloadConfiguration(c)
    PROVE  LET f == WorkloadAppPrograms(c)
           IN  /\ WorkloadApps(c) = FlattenSeq(f)
               /\ IsList(f) /\ Len(f) = Len(c.apps \o c.jobs)
               /\ \A k \in 1 .. Len(f) : PlainProgram(f[k])
               /\ PlainProgram(WorkloadApps(c))
<1> DEFINE list == c.apps \o c.jobs
           f == WorkloadAppPrograms(c)
<1>1. IsList(list) /\ ToSet(list) = ToSet(c.apps) \cup ToSet(c.jobs)
  BY ConcatLists DEF WorkloadConfiguration, Lists
<1>2. WorkloadApps(c) = FlattenSeq(f)
  BY DEF WorkloadApps, WorkloadAppPrograms, ForEach
<1>3. f = [k \in 1 .. Len(list) |-> f[k]]
      /\ \A k \in 1 .. Len(list) : f[k] = ContainerAppProgram(ResourceGroup, AppDeps(c), WorkloadApp(c, list[k], k))
  BY DEF WorkloadAppPrograms
<1> HIDE DEF f, list
<1>4. IsList(f) /\ Len(f) = Len(list)
  BY <1>1, <1>3, ListLen, ListOf
<1>5. ASSUME NEW k \in 1 .. Len(list) PROVE PlainProgram(f[k])
  <2>1. Lists(list[k], {"domains", "permissions"}) /\ {"name", "job"} \subseteq DOMAIN list[k]
    BY <1>1, ListLen DEF WorkloadConfiguration
  <2>2. IsList(WorkloadApp(c, list[k], k).domains) /\ IsList(WorkloadApp(c, list[k], k).permissions)
    BY <2>1, WorkloadAppFacts
  <2> QED BY <1>3, <2>2, PlainContainerApp
<1>6. PlainProgram(FlattenSeq(f))
  BY <1>1, <1>3, <1>5, PlainAll
<1> QED BY <1>2, <1>4, <1>5, <1>6 DEF f, list

\* Every app of the workload is among what the routes wait for: it is a member of
\* its component, which stands for its resources in depends_on.
LEMMA AppIsMember ==
    ASSUME NEW c, WorkloadConfiguration(c), NEW a \in ToSet(c.apps)
    PROVE  ContainerApp(ResourceGroup, AppDeps(c), a).urn
             \in Members(AppComponent(ResourceGroup, AppDeps(c), a), WorkloadApps(c))
<1> DEFINE f == WorkloadAppPrograms(c)
           list == c.apps \o c.jobs
<1>1. /\ IsList(c.apps) /\ IsList(c.jobs) /\ Len(c.apps) \in Nat /\ Len(c.jobs) \in Nat
      /\ Len(list) = Len(c.apps) + Len(c.jobs) /\ \A i \in 1 .. Len(c.apps) : list[i] = c.apps[i]
  BY ListLen, ConcatLists DEF WorkloadConfiguration, Lists
<1>2. PICK k \in 1 .. Len(c.apps) : c.apps[k] = a
  BY <1>1, ListLen
<1>3. k \in 1 .. Len(list) /\ list[k] = a
  <2> DEFINE n == Len(c.apps)
             m == Len(c.jobs)
  <2>1. list[k] = c.apps[k]
    BY <1>1
  <2>2. n \in Nat /\ m \in Nat /\ k \in 1 .. n /\ Len(list) = n + m
    BY <1>1
  <2> HIDE DEF n, m, list
  <2>3. k \in 1 .. n + m
    BY <2>2
  <2> QED BY <1>2, <2>1, <2>2, <2>3
<1> DEFINE b == WorkloadApp(c, a, k)
           app == ContainerApp(ResourceGroup, AppDeps(c), b)
           component == AppComponent(ResourceGroup, AppDeps(c), b)
<1>4. f[k] = ContainerAppProgram(ResourceGroup, AppDeps(c), b)
  BY <1>3 DEF WorkloadAppPrograms
<1>5. b.name = a.name /\ b.job = a.job /\ IsList(b.domains) /\ IsList(b.permissions)
  BY WorkloadAppFacts DEF WorkloadConfiguration
<1> HIDE DEF b
<1>6. AppName(b) = AppName(a)
  BY <1>5 DEF AppName
<1>7. component = AppComponent(ResourceGroup, AppDeps(c), a)
  BY <1>6 DEF AppComponent
<1>8. app.urn = ContainerApp(ResourceGroup, AppDeps(c), a).urn
  BY <1>5, <1>6, <1>7, ContainerAppFacts
<1>9. ~app.comp /\ component.urn \in app.inside
  BY ContainerAppFacts
<1>10. app \in ToSet(f[k])
  <2> DEFINE rest == When(b.resiliency, <<PartOf(app, "AppResiliency", "appres")>>)
             domains == When(~b.job, ForEach(b.domains, LAMBDA domain, i :
                                  CustomDomain(app, domain, b.environment, {app.urn})))
             roles == AppPermissions(app, b.permissions)
             export == <<Export(<<"app">>)>>
             front == <<component, app>>
  <2>1. f[k] = (((front \o rest) \o domains) \o roles) \o export
    BY <1>4 DEF ContainerAppProgram
  <2>2. ToSet(front) = {component, app} /\ IsList(front)
    BY DEF ToSet, IsList
  <2>3. IsList(rest) /\ IsList(domains) /\ IsList(roles) /\ IsList(export)
    <3>1. PlainProgram(rest)
      BY PlainPart, PlainOne, PlainWhen
    <3>2. PlainProgram(domains)
      <4>1. PlainProgram(ForEach(b.domains, LAMBDA domain, i :
                                  CustomDomain(app, domain, b.environment, {app.urn})))
        <5> HIDE DEF app
        <5> QED BY <1>5, PlainCustomDomain, PlainAll DEF ForEach
      <4> QED BY <4>1, PlainWhen
    <3>3. PlainProgram(roles)
      <4> HIDE DEF app
      <4> QED BY <1>5, PlainRole, PlainOne, PlainAll DEF AppPermissions, ForEach
    <3>4. PlainProgram(export)
      BY PlainExport, PlainOne
    <3> QED BY <3>1, <3>2, <3>3, <3>4 DEF PlainProgram
  <2> HIDE DEF rest, domains, roles, export, front
  <2> QED BY <2>1, <2>2, <2>3, ConcatLists
<1>11. app \in ToSet(WorkloadApps(c))
  <2>1. k \in 1 .. Len(f) /\ WorkloadApps(c) = FlattenSeq(f) /\ IsList(f) /\ \A i \in 1 .. Len(f) : IsList(f[i])
    BY <1>3, WorkloadAppsFacts DEF PlainProgram
  <2> HIDE DEF f, app
  <2>2. ToSet(FlattenSeq(f)) = UNION {ToSet(f[i]) : i \in 1 .. Len(f)}
    BY <2>1, FlattenList
  <2> QED BY <1>10, <2>1, <2>2
<1> HIDE DEF app, component
<1> QED BY <1>7, <1>8, <1>9, <1>11 DEF Members

\* The routes of a workload wait for the apps they send requests to, which they name
\* by plain strings.
LEMMA PlainWorkloadRoutes ==
    ASSUME NEW c, WorkloadConfiguration(c)
    PROVE  PlainProgram(WorkloadRoutes(c))
<1> DEFINE apps == ToSet(c.apps)
           app(name) == {ContainerApp(ResourceGroup, AppDeps(c), a).urn : a \in {b \in apps : AppName(b) = name}}
           waits == UNION {Members(AppComponent(ResourceGroup, AppDeps(c), a), WorkloadApps(c)) : a \in apps}
           environment == c.apps[1].environment
           completed(route) == [route EXCEPT !.environment = environment,
                                             !.targets = UNION {app(name) : name \in route.targets}]
           f == [i \in 1 .. Len(c.http_routes) |->
                   HttpRouteProgram(ResourceGroup, waits, completed(c.http_routes[i]))]
<1>1. WorkloadRoutes(c) = IF c.http_routes # <<>> /\ apps = {} THEN Raise ELSE FlattenSeq(f)
  BY DEF WorkloadRoutes, ForEach
<1>2. \A name : app(name) \subseteq waits
  BY AppIsMember
<1> HIDE DEF waits, environment
<1>3. ASSUME NEW route, Lists(route, {"domains"}), {"environment", "targets"} \subseteq DOMAIN route
      PROVE  PlainProgram(HttpRouteProgram(ResourceGroup, waits, completed(route)))
  <2> DEFINE targets == UNION {app(name) : name \in route.targets}
  <2>1. targets \subseteq waits
    BY <1>2
  <2> HIDE DEF app, targets
  <2>2. completed(route).targets = targets /\ IsList(completed(route).domains)
    BY <1>3 DEF Lists, targets
  <2> HIDE DEF completed
  <2> QED BY <2>1, <2>2, PlainHttpRoute
<1>4. IsList(c.http_routes)
      /\ \A i \in 1 .. Len(c.http_routes) : Lists(c.http_routes[i], {"domains"})
                                            /\ {"environment", "targets"} \subseteq DOMAIN c.http_routes[i]
  BY ListLen DEF WorkloadConfiguration, Lists
<1> HIDE DEF completed
<1>5. f = [i \in 1 .. Len(c.http_routes) |-> f[i]] /\ \A i \in 1 .. Len(c.http_routes) : PlainProgram(f[i])
  BY <1>3, <1>4
<1> HIDE DEF f, apps
<1> QED BY <1>1, <1>4, <1>5, PlainRaise, PlainAll

\* deploy_app_workload: data, store, apps, jobs and routes.
LEMMA PlainAppWorkload ==
    ASSUME NEW c, WorkloadConfiguration(c)
    PROVE  PlainProgram(AppWorkloadProgram(c))
<1>1. IsList(c.storage_accounts) /\ IsList(c.search_service) /\ IsList(c.app_config) /\ IsList(c.oauth_app)
  BY DEF WorkloadConfiguration, Lists
<1>2. PlainProgram(WorkloadData(c))
  <2>1. ASSUME NEW st, StorageConfiguration(st), "exports_prefix" \in DOMAIN st
        PROVE  PlainProgram(StorageProgram(ResourceGroup, [st EXCEPT !.exports_prefix = <<st.name>>]))
    <3> DEFINE prefix == <<st.name>>
               s == [st EXCEPT !.exports_prefix = prefix]
    <3> HIDE DEF prefix
    <3>1. StorageConfiguration(s)
      BY <2>1 DEF StorageConfiguration, Lists
    <3> HIDE DEF s
    <3> QED BY <3>1, PlainStorage DEF s, prefix
  <2>2. \A i \in 1 .. Len(c.storage_accounts) :
          StorageConfiguration(c.storage_accounts[i]) /\ "exports_prefix" \in DOMAIN c.storage_accounts[i]
    BY <1>1, ListLen DEF WorkloadConfiguration
  <2>3. PlainProgram(ForEach(c.storage_accounts, LAMBDA st, i :
          StorageProgram(ResourceGroup, [st EXCEPT !.exports_prefix = <<st.name>>])))
    BY <1>1, <2>1, <2>2, PlainAll DEF ForEach
  <2>4. \A i \in 1 .. Len(c.search_service) : PlainProgram(SearchProgram(c.search_service[i]))
    BY <1>1, ListLen, PlainSearch DEF WorkloadConfiguration
  <2>5. PlainProgram(ForEach(c.search_service, LAMBDA s, i : SearchProgram(s)))
    BY <1>1, <2>4, PlainAll DEF ForEach
  <2> QED BY <2>3, <2>5, PlainConcat DEF WorkloadData
<1>3. PlainProgram(WorkloadStore(c))
  <2>1. \A i \in 1 .. Len(c.app_config) : PlainProgram(AppConfigProgram(ResourceGroup, DataDeps(c), c.app_config[i]))
    BY <1>1, ListLen, PlainAppConfig DEF WorkloadConfiguration
  <2> QED BY <1>1, <2>1, PlainAll DEF WorkloadStore, ForEach
<1>4. PlainProgram(WorkloadApps(c)) /\ PlainProgram(WorkloadRoutes(c))
  BY WorkloadAppsFacts, PlainWorkloadRoutes
<1>5. PlainProgram(ForEach(c.oauth_app, LAMBDA a, i : EntraAppProgram([a EXCEPT !.exports_prefix = <<"oauth">>])))
  <2>1. ASSUME NEW a, EntraConfiguration(a)
        PROVE  PlainProgram(EntraAppProgram([a EXCEPT !.exports_prefix = <<"oauth">>]))
    <3>1. EntraConfiguration([a EXCEPT !.exports_prefix = <<"oauth">>])
      BY <2>1 DEF EntraConfiguration, Lists
    <3> QED BY <3>1, PlainEntraApp
  <2>2. \A i \in 1 .. Len(c.oauth_app) : EntraConfiguration(c.oauth_app[i])
    BY <1>1, ListLen DEF WorkloadConfiguration
  <2> QED BY <1>1, <2>1, <2>2, PlainAll DEF ForEach
<1> QED BY <1>2, <1>3, <1>4, <1>5, BeginFacts, PlainConcat, PlainValidated DEF AppWorkloadProgram

\* A configuration of the data zone.
DataZoneConfiguration(c) ==
    /\ Lists(c, {"postgres", "mysql", "sql_server", "sql_databases", "storage_accounts"})
    /\ \A p \in ToSet(c.postgres) : Lists(p, {"server_params", "log_workspace"})
    /\ \A m \in ToSet(c.mysql) :
          Lists(m, {"databases", "allowed_public_networks", "server_params", "log_workspace"})
    /\ \A s \in ToSet(c.sql_server) : SqlConfiguration(s)
    /\ \A db \in ToSet(c.sql_databases) : Lists(db, {"log_workspace"})
    /\ \A st \in ToSet(c.storage_accounts) : StorageConfiguration(st)

\* The databases of a SQL server wait for it, and for its pool.
LEMMA PlainSqlDatabases ==
    ASSUME NEW c, NEW server, NEW databases, IsList(databases),
           \A db \in ToSet(databases) : Lists(db, {"log_workspace"})
    PROVE  PlainProgram(SqlDatabases(c, server, databases))
<1> DEFINE refs == {SqlServer(server).urn} \cup IF server.elastic_pool THEN {SqlElasticPool(server).urn} ELSE {}
           f == [i \in 1 .. Len(databases) |->
                   SqlDatabaseProgram(ResourceGroup, OverridingLog(c, databases[i]), refs)]
<1>1. SqlDatabases(c, server, databases) = FlattenSeq(f)
  BY DEF SqlDatabases, ForEach
<1> HIDE DEF refs
<1>2. f = [i \in 1 .. Len(databases) |-> f[i]] /\ \A i \in 1 .. Len(databases) : PlainProgram(f[i])
  BY ListLen, ListsOverriding, PlainDatabase
<1> HIDE DEF f
<1> QED BY <1>1, <1>2, PlainAll

\* deploy_data_zone: servers of any kind and number, and storage accounts.
LEMMA PlainDataZone ==
    ASSUME NEW c, DataZoneConfiguration(c)
    PROVE  PlainProgram(DataZoneProgram(c))
<1>1. /\ IsList(c.postgres) /\ IsList(c.mysql) /\ IsList(c.sql_server) /\ IsList(c.sql_databases)
      /\ IsList(c.storage_accounts)
  BY DEF DataZoneConfiguration, Lists
<1>2. PlainProgram(ForEach(c.postgres, LAMBDA p, i : PostgresProgram(OverridingLog(c, p))))
  <2>1. \A i \in 1 .. Len(c.postgres) : PlainProgram(PostgresProgram(OverridingLog(c, c.postgres[i])))
    BY <1>1, ListLen, ListsOverriding, PlainPostgres DEF DataZoneConfiguration
  <2> QED BY <1>1, <2>1, PlainAll DEF ForEach
<1>3. PlainProgram(ForEach(c.mysql, LAMBDA m, i : MysqlProgram(OverridingLog(c, m))))
  <2>1. \A i \in 1 .. Len(c.mysql) : PlainProgram(MysqlProgram(OverridingLog(c, c.mysql[i])))
    BY <1>1, ListLen, ListsOverriding, PlainMysql DEF DataZoneConfiguration
  <2> QED BY <1>1, <2>1, PlainAll DEF ForEach
<1>4. PlainProgram(ForEach(c.sql_server, LAMBDA s, i :
         SqlProgram(OverridingLog(c, s)) \o SqlDatabases(c, s, c.sql_databases)))
  <2>1. \A i \in 1 .. Len(c.sql_server) : PlainProgram(SqlProgram(OverridingLog(c, c.sql_server[i])))
    BY <1>1, ListLen, ListsOverriding, PlainSql DEF DataZoneConfiguration, SqlConfiguration
  <2>2. \A s : PlainProgram(SqlDatabases(c, s, c.sql_databases))
    BY <1>1, PlainSqlDatabases DEF DataZoneConfiguration
  <2> QED BY <1>1, <2>1, <2>2, PlainConcat, PlainAll DEF ForEach
<1>5. PlainProgram(ForEach(c.storage_accounts, LAMBDA st, i : StorageProgram(ResourceGroup, st)))
  <2>1. \A i \in 1 .. Len(c.storage_accounts) : PlainProgram(StorageProgram(ResourceGroup, c.storage_accounts[i]))
    BY <1>1, ListLen, PlainStorage DEF DataZoneConfiguration
  <2> QED BY <1>1, <2>1, PlainAll DEF ForEach
<1> QED BY <1>2, <1>3, <1>4, <1>5, BeginFacts, PlainConcat DEF DataZoneProgram

\* A configuration of the SQL base.
AzureSqlConfiguration(c) ==
    /\ Lists(c, {"log_workspace", "databases"})
    /\ SqlConfiguration(c.server)
    /\ \A db \in ToSet(c.databases) : Lists(db, {"log_workspace"})

\* The SQL base: a server and its databases.
LEMMA PlainAzureSql ==
    ASSUME NEW c, AzureSqlConfiguration(c)
    PROVE  PlainProgram(AzureSqlProgram(c))
<1> DEFINE server == [c.server EXCEPT !.log_workspace = c.log_workspace]
<1>1. SqlConfiguration(server)
  BY DEF AzureSqlConfiguration, SqlConfiguration, Lists
<1> HIDE DEF server
<1>2. PlainProgram(SqlProgram(server))
  BY <1>1, PlainSql
<1>3. PlainProgram(SqlDatabases(c, c.server, c.databases))
  BY PlainSqlDatabases DEF AzureSqlConfiguration, Lists
<1> QED BY <1>2, <1>3, BeginFacts, PlainConcat DEF AzureSqlProgram, server

\* A configuration of the Oracle host.
OracleConfiguration(c) ==
    StorageConfiguration(c.storage) /\ Lists(c.vm, {"disks"}) /\ "custom_data" \in DOMAIN c.vm

\* The Oracle host: storage, cloud-init and the machine that waits for both.
LEMMA PlainOracle ==
    ASSUME NEW c, OracleConfiguration(c)
    PROVE  PlainProgram(OracleProgram(c))
<1> DEFINE storage == StorageProgram(ResourceGroup, c.storage)
           account == StorageAccount(ResourceGroup, c.storage.name)
           init == CloudInitConfig(account, Parts(account, "FileShare", c.storage.file_shares))
           vm == [c.vm EXCEPT !.custom_data = {init.urn}]
           waits == Members(StorageComponent(ResourceGroup), storage) \cup {init.urn}
<1>1. PlainProgram(storage) /\ Plain(init)
  BY PlainStorage, PlainResource DEF OracleConfiguration, CloudInitConfig
<1>2. OracleProgram(c) = Begin \o storage \o <<init>> \o VmProgram(ResourceGroup, waits, vm)
  BY DEF OracleProgram
<1> HIDE DEF init, storage, waits
<1>3. Lists(vm, {"disks"})
  BY DEF OracleConfiguration, Lists
<1> HIDE DEF vm
<1>4. PlainProgram(VmProgram(ResourceGroup, waits, vm))
  BY <1>3, PlainVm
<1> QED BY <1>1, <1>2, <1>4, BeginFacts, PlainOne, PlainConcat

\* A configuration of the OAuth applications.
OauthConfiguration(c) == Lists(c, {"oauth_apps"}) /\ \A app \in ToSet(c.oauth_apps) : EntraConfiguration(app)

\* The OAuth applications.
LEMMA PlainOauthApps ==
    ASSUME NEW c, OauthConfiguration(c)
    PROVE  PlainProgram(OauthAppsProgram(c))
<1>1. IsList(c.oauth_apps) /\ \A i \in 1 .. Len(c.oauth_apps) : EntraConfiguration(c.oauth_apps[i])
  BY ListLen DEF OauthConfiguration, Lists
<1>2. ASSUME NEW app, EntraConfiguration(app)
      PROVE  PlainProgram(EntraAppProgram([app EXCEPT !.skip_exports = TRUE]))
  <2>1. EntraConfiguration([app EXCEPT !.skip_exports = TRUE])
    BY <1>2 DEF EntraConfiguration, Lists
  <2> QED BY <2>1, PlainEntraApp
<1>3. PlainProgram(ForEach(c.oauth_apps, LAMBDA app, i : EntraAppProgram([app EXCEPT !.skip_exports = TRUE])))
  BY <1>1, <1>2, PlainAll DEF ForEach
<1> QED BY <1>3, BeginFacts, PlainExport, PlainOne, PlainConcat DEF OauthAppsProgram

\* Pulumi's own application, and its roles after those of the configuration.
LEMMA PulumiAppFacts ==
    /\ EntraConfiguration(PulumiApp)
    /\ \A permissions : IsList(permissions) => IsList(permissions \o DefaultPermissions)
<1>1. EntraConfiguration(PulumiApp)
  <2> DEFINE fields == {"app_roles", "oauth2_scopes", "client_credentials", "federated_credentials", "entra_roles"}
  <2>1. \A x : IsList(<<x>>)
    <3>1. ASSUME NEW x PROVE <<x>> \in Seq({x})
      OBVIOUS
    <3> QED BY <3>1, ListSet
  <2>2. IsList(<<>>)
    BY DEF IsList, ToSet
  <2>3. /\ PulumiApp.app_roles = <<>> /\ PulumiApp.oauth2_scopes = <<>> /\ PulumiApp.client_credentials = <<>>
        /\ PulumiApp.federated_credentials = << <<>> >>
        /\ PulumiApp.entra_roles = <<"Cloud Application Administrator">>
    BY DEF PulumiApp
  <2>4. fields \subseteq DOMAIN PulumiApp
    BY DEF PulumiApp
  <2>5. \A f \in fields : IsList(PulumiApp[f])
    BY <2>1, <2>2, <2>3
  <2> QED BY <2>4, <2>5 DEF EntraConfiguration, Lists
<1>2. IsList(DefaultPermissions)
  BY ListOf DEF DefaultPermissions
<1> QED BY <1>1, <1>2, ConcatLists

\* The environment of the Azure tenant: Pulumi's own application and its ESC
\* environment.
LEMMA PlainAzureEnvironment ==
    ASSUME NEW c, IsList(c.azure_permissions)
    PROVE  PlainProgram(AzureEnvironmentProgram(c))
  BY PulumiAppFacts, PlainEntraApp, PlainPrincipalPermissions, PlainPulumiEnv, BeginFacts, PlainConcat
  DEF AzureEnvironmentProgram

-----------------------------------------------------------------------------
(* Every stack *)

\* The programs of the bases, each with any configuration that is well-formed.
StackProgram(p) ==
    \/ \E c : HubConfiguration(c) /\ p = HubSpokeProgram(c)
    \/ \E c : FirewallConfiguration(c) /\ p = FirewallBaseProgram(c)
    \/ \E c : AppZoneConfiguration(c) /\ NamesNothing(c) /\ p = AppZoneProgram(c)
    \/ \E c : LandingZoneConfiguration(c) /\ ~c.acme_ssl /\ p = LandingZoneProgram(c)
    \/ \E c : WorkloadConfiguration(c) /\ p = AppWorkloadProgram(c)
    \/ \E c : DataZoneConfiguration(c) /\ p = DataZoneProgram(c)
    \/ \E c : AzureSqlConfiguration(c) /\ p = AzureSqlProgram(c)
    \/ \E c : OracleConfiguration(c) /\ p = OracleProgram(c)
    \/ \E c : OauthConfiguration(c) /\ p = OauthAppsProgram(c)
    \/ \E c : /\ Lists(c, {"identities"})
              /\ \A credential \in ToSet(c.identities) : CredentialConfiguration(credential)
              /\ p = WorkloadIdentitiesProgram(c)
    \/ \E c : IsList(c.azure_permissions) /\ p = AzureEnvironmentProgram(c)
    \/ \E c : p \in {AzureTenantProgram(c), ExternalIdProgram(c), AppServiceSuiteProgram}

\* ... and the components that no base declares, in a stack of their own.
ComponentProgram(p) ==
    \/ \E c : FrontDoorConfiguration(c) /\ p = Begin \o FrontDoorProgram(c)
    \/ \E c : Lists(c, {"private_endpoints", "log_workspace"}) /\ p = Begin \o CognitiveProgram(c)
    \/ \E c : Lists(c, {"private_endpoints", "permissions", "log_workspace"}) /\ p = Begin \o WebAppProgram(c)
    \/ \E c : Lists(c, {"permissions", "log_workspace"}) /\ p = Begin \o WorkflowProgram(c)
    \/ \E c : Lists(c, {"log_workspace"}) /\ p = Begin \o PlanProgram(c)
    \/ p = Begin \o BackupVaultProgram

\* The programs of every stack wait for what they name, and serialise what is locked.
LEMMA StackWaits ==
    ASSUME NEW p, StackProgram(p) \/ ComponentProgram(p)
    PROVE  WaitingProgram(p) /\ IsProgram(p) /\ Serialised(p)
<1>1. ASSUME NEW c, FirewallConfiguration(c), p = FirewallBaseProgram(c)
      PROVE  WaitingProgram(p) /\ Serialised(p)
  BY <1>1, FirewallStack
<1>2. ASSUME NEW c, p \in {AzureTenantProgram(c), ExternalIdProgram(c), AppServiceSuiteProgram}
      PROVE  PlainProgram(p)
  <2>1. PlainProgram(AzureTenantProgram(c))
    BY PlainPulumiEnv DEF AzureTenantProgram
  <2>2. PlainProgram(ExternalIdProgram(c))
    BY PlainTenant, BeginFacts, PlainConcat DEF ExternalIdProgram
  <2>3. PlainProgram(AppServiceSuiteProgram)
    BY BeginFacts, PlainExport, PlainOne, PlainRaise, PlainConcat DEF AppServiceSuiteProgram
  <2> QED BY <1>2, <2>1, <2>2, <2>3
<1>3. ASSUME NEW c, Lists(c, {"identities"}),
             \A credential \in ToSet(c.identities) : CredentialConfiguration(credential),
             p = WorkloadIdentitiesProgram(c)
      PROVE  PlainProgram(p)
  <2>1. IsList(c.identities)
    BY <1>3 DEF Lists
  <2> QED BY <1>3, <2>1, PlainWorkloadIdentities, BeginFacts, PlainConcat DEF WorkloadIdentitiesProgram
<1>4. ASSUME ComponentProgram(p) PROVE PlainProgram(p)
  BY <1>4, BeginFacts, PlainConcat, PlainFrontDoor, PlainCognitive, PlainWebApp, PlainWorkflow, PlainPlan,
     PlainBackup DEF ComponentProgram
<1>5. ASSUME StackProgram(p) PROVE PlainProgram(p) \/ (WaitingProgram(p) /\ Serialised(p))
  BY <1>1, <1>2, <1>3, <1>5, PlainHub, PlainAppZone, PlainLandingZone, PlainAppWorkload, PlainDataZone,
     PlainAzureSql, PlainOracle, PlainOauthApps, PlainAzureEnvironment DEF StackProgram
<1>6. WaitingProgram(p) => IsProgram(p)
  BY DEF WaitingProgram, IsProgram, Waiting
<1> QED BY <1>4, <1>5, <1>6, PlainIsWaiting

\* However the programs of a stack follow one another, from whatever base and with
\* whatever configuration, and whichever calls fail in between: nothing that exists
\* names what does not, by an Output or by a plain string, and no two creations or
\* updates that write to one object are due together.
THEOREM StacksNeverDangle ==
    ASSUME \A u \in Updates : \E p : (StackProgram(p) \/ ComponentProgram(p)) /\ u = Update(p)
    PROVE  Spec => [](NoDangling /\ OnePutAtATime)
<1>1. WaitingUpdates
  BY StackWaits DEF WaitingUpdates
<1>2. SerialUpdates
  BY StackWaits DEF SerialUpdates
<1>3. Spec => []NoDangling
  BY <1>1, WaitingNeverDangles
<1>4. Spec => []OnePutAtATime
  BY <1>2, SerialPutsInTurn
<1> QED BY <1>3, <1>4, PTL

-----------------------------------------------------------------------------
(* What programs export *)

\* A statement that exports nothing, and programs of such statements.
Mute(s) == IsStatement(s) /\ s.output = <<>>
Silent(p) == IsList(p) /\ \A s \in ToSet(p) : Mute(s)

\* A program whose outputs are among the keys K, each exported once at most.
Once(p, K) ==
    /\ IsList(p)
    /\ \A i \in 1 .. Len(p) : p[i].output \in K \cup {<<>>}
    /\ \A i, j \in 1 .. Len(p) : p[i].output = p[j].output /\ p[i].output # <<>> => i = j

\* Such a program loses none of its outputs.
LEMMA OnceKeeps ==
    ASSUME NEW p, NEW K, Once(p, K)
    PROVE  Update(p).shadowed = {}
<1>1. ASSUME NEW o, o # <<>> PROVE ~(Cardinality({i \in 1 .. Len(p) : p[i].output = o}) > 1)
  <2> DEFINE T == {i \in 1 .. Len(p) : p[i].output = o}
  <2>1. T = {} \/ \E i : T = {i}
    BY <1>1 DEF Once
  <2> HIDE DEF T
  <2>2. Cardinality(T) = 0 \/ Cardinality(T) = 1
    BY <2>1, FS_EmptySet, FS_Singleton
  <2>3. ~(Cardinality(T) > 1)
    BY <2>2
  <2> QED BY <2>3 DEF T
<1>2. Shadowed(p) = {}
  BY <1>1, Zenon DEF Shadowed
<1> QED BY <1>2 DEF Update

\* What the constructors make exports nothing.
LEMMA MuteResource == \A parent, type, name, refs : Mute(Resource(parent, type, name, refs))
  BY DEF Resource, Mute, IsStatement, Statement

\* A component exports nothing either.
LEMMA MuteComponent == \A parent, type, name : Mute(Component(parent, type, name))
  BY DEF Component, Mute, IsStatement, Statement

\* ... however it is completed.
LEMMA MuteFixed == \A s, name : Mute(s) => Mute(Fixed(s, name))
  BY Fields DEF Fixed, Mute, IsStatement

\* What a statement takes, is locked by or waits for changes nothing about it.
LEMMA MuteTaking == \A s, what : Mute(s) => Mute(Taking(s, what))
  BY Fields DEF Taking, Mute, IsStatement

\* The lock does not.
LEMMA MuteOneAtATime == \A s, object : Mute(s) => Mute(OneAtATime(s, object))
  BY Fields DEF OneAtATime, Mute, IsStatement

\* depends_on does not.
LEMMA MuteDependsOn == \A s, waits : Mute(s) => Mute(DependsOn(s, waits))
  BY Fields DEF DependsOn, Mute, IsStatement

\* A resource under a fixed name exports nothing either.
LEMMA MuteNamed ==
    \A parent, type, name, refs, fixed :
        Mute(Resource(parent, type, name, refs)) /\ Mute(Fixed(Resource(parent, type, name, refs), fixed))
  BY MuteResource, MuteFixed

\* What silent programs are put together of.
LEMMA SilentAt ==
    ASSUME NEW S, NEW p \in Seq(S), \A i \in 1 .. Len(p) : Mute(p[i])
    PROVE  Silent(p)
  BY ListSet DEF Silent

\* The empty program is silent.
LEMMA SilentEmpty == Silent(<<>>)
<1>1. <<>> \in Seq({}) /\ Len(<<>>) = 0
  BY EmptySeq
<1>2. \A i \in 1 .. Len(<<>>) : FALSE
  BY <1>1
<1> QED BY <1>1, <1>2, SilentAt

\* So is a mute statement by itself,
LEMMA SilentOne ==
    ASSUME NEW s, Mute(s)
    PROVE  Silent(<<s>>)
<1>1. <<s>> \in Seq({s}) /\ Len(<<s>>) = 1 /\ <<s>>[1] = s
  OBVIOUS
<1>2. \A i \in 1 .. Len(<<s>>) : <<s>>[i] = s
  BY <1>1
<1> QED BY <1>1, <1>2, SilentAt

\* ... two silent programs one after the other,
LEMMA SilentConcat ==
    ASSUME NEW p, NEW q, Silent(p), Silent(q)
    PROVE  Silent(p \o q)
  BY ConcatLists DEF Silent

\* ... two mute statements,
LEMMA SilentTwo ==
    ASSUME NEW s, NEW t, Mute(s), Mute(t)
    PROVE  Silent(<<s, t>>)
<1>1. <<s, t>> \in Seq({s, t}) /\ Len(<<s, t>>) = 2 /\ <<s, t>>[1] = s /\ <<s, t>>[2] = t
  OBVIOUS
<1>2. \A i \in 1 .. Len(<<s, t>>) : <<s, t>>[i] = s \/ <<s, t>>[i] = t
  BY <1>1
<1> QED BY <1>1, <1>2, SilentAt

\* ... three of them,
LEMMA SilentThree ==
    ASSUME NEW s, NEW t, NEW u, Mute(s), Mute(t), Mute(u)
    PROVE  Silent(<<s, t, u>>)
<1>1. /\ <<s, t, u>> \in Seq({s, t, u}) /\ Len(<<s, t, u>>) = 3
      /\ <<s, t, u>>[1] = s /\ <<s, t, u>>[2] = t /\ <<s, t, u>>[3] = u
  OBVIOUS
<1>2. \A i \in 1 .. Len(<<s, t, u>>) : <<s, t, u>>[i] = s \/ <<s, t, u>>[i] = t \/ <<s, t, u>>[i] = u
  BY <1>1
<1> QED BY <1>1, <1>2, SilentAt

\* ... an exception,
LEMMA SilentRaise == Silent(Raise)
<1>1. Mute([Statement EXCEPT !.raises = TRUE])
  BY DEF Mute, IsStatement, Statement
<1> QED BY <1>1, SilentOne DEF Raise

\* ... an optional part,
LEMMA SilentWhen ==
    ASSUME NEW condition, NEW p, condition => Silent(p)
    PROVE  Silent(When(condition, p))
  BY SilentEmpty DEF When

\* ... and a silent program for every entry of a list.
LEMMA SilentAll ==
    ASSUME NEW f, NEW list, IsList(list), f = [i \in 1 .. Len(list) |-> f[i]],
           \A i \in 1 .. Len(list) : Silent(f[i])
    PROVE  Silent(FlattenSeq(f))
<1>1. IsList(f) /\ Len(f) = Len(list)
  BY ListLen, ListOf
<1> QED BY <1>1, FlattenList DEF Silent

\* What is silent exports nothing twice; an export exports its key.
LEMMA OnceSilent ==
    ASSUME NEW p, Silent(p)
    PROVE  Once(p, {})
  BY ListLen DEF Silent, Mute, Once

\* An export is a program with one key.
LEMMA OnceExport ==
    ASSUME NEW key
    PROVE  Once(<<Export(key)>>, {key})
<1> DEFINE s == Export(key)
<1>1. s.output = key
  BY DEF Export, Statement
<1> HIDE DEF s
<1>2. <<s>> \in Seq({s}) /\ Len(<<s>>) = 1 /\ <<s>>[1] = s
  OBVIOUS
<1>3. \A i \in 1 .. Len(<<s>>) : i = 1
  BY <1>2
<1> QED BY <1>1, <1>2, <1>3, ListSet DEF Once, s

\* A program may be said to have more keys than it exports.
LEMMA OnceMore ==
    ASSUME NEW p, NEW K, NEW L, Once(p, K), K \subseteq L
    PROVE  Once(p, L)
  BY DEF Once

\* An optional part has the keys it has when it is there.
LEMMA OnceWhen ==
    ASSUME NEW condition, NEW p, NEW K, condition => Once(p, K)
    PROVE  Once(When(condition, p), K)
  BY SilentEmpty, OnceSilent, OnceMore DEF When

\* What a validator refuses exports nothing.
LEMMA OnceValidated ==
    ASSUME NEW accepted, NEW p, NEW K, accepted => Once(p, K)
    PROVE  Once(Validated(accepted, p), K)
<1>1. Mute([Statement EXCEPT !.raises = TRUE, !.early = TRUE])
  BY DEF Mute, IsStatement, Statement
<1> QED BY <1>1, SilentOne, OnceSilent, OnceMore DEF Validated

\* Programs that export different keys follow one another.
LEMMA OnceConcat ==
    ASSUME NEW p, NEW q, NEW K, NEW L, Once(p, K), Once(q, L), K \cap L = {}
    PROVE  Once(p \o q, K \cup L)
<1>1. Len(p) \in Nat /\ Len(q) \in Nat
  BY ListLen DEF Once
<1>2. /\ IsList(p \o q) /\ Len(p \o q) = Len(p) + Len(q)
      /\ \A i \in 1 .. Len(p) : (p \o q)[i] = p[i]
      /\ \A i \in 1 .. Len(q) : (p \o q)[Len(p) + i] = q[i]
  BY ConcatLists DEF Once
<1> DEFINE r == p \o q
<1> HIDE DEF r
<1>3. ASSUME NEW i \in 1 .. Len(p) + Len(q)
      PROVE  \/ i \in 1 .. Len(p) /\ r[i] = p[i]
             \/ i \notin 1 .. Len(p) /\ i - Len(p) \in 1 .. Len(q) /\ r[i] = q[i - Len(p)]
  <2>1. CASE i \in 1 .. Len(p)
    BY <1>2, <2>1 DEF r
  <2>2. CASE i \notin 1 .. Len(p)
    <3>1. i - Len(p) \in 1 .. Len(q) /\ Len(p) + (i - Len(p)) = i
      BY <1>1, <2>2
    <3> QED BY <1>2, <2>2, <3>1 DEF r
  <2> QED BY <2>1, <2>2
<1>4. \A i \in 1 .. Len(p) + Len(q) : r[i].output \in (K \cup L) \cup {<<>>}
  BY <1>3 DEF Once
<1>5. ASSUME NEW i \in 1 .. Len(p) + Len(q), NEW j \in 1 .. Len(p) + Len(q),
             r[i].output = r[j].output, r[i].output # <<>>
      PROVE  i = j
  <2>1. CASE i \in 1 .. Len(p) /\ j \in 1 .. Len(p)
    BY <1>3, <1>5, <2>1 DEF Once
  <2>2. CASE i \notin 1 .. Len(p) /\ j \notin 1 .. Len(p)
    <3>1. i - Len(p) = j - Len(p)
      BY <1>3, <1>5, <2>2 DEF Once
    <3> QED BY <1>1, <3>1
  <2>3. CASE i \in 1 .. Len(p) /\ j \notin 1 .. Len(p)
    BY <1>3, <1>5, <2>3 DEF Once
  <2>4. CASE i \notin 1 .. Len(p) /\ j \in 1 .. Len(p)
    BY <1>3, <1>5, <2>4 DEF Once
  <2> QED BY <2>1, <2>2, <2>3, <2>4
<1> QED BY <1>2, <1>4, <1>5 DEF Once, r

\* A silent program between others changes nothing.
LEMMA OnceThenSilent ==
    ASSUME NEW p, NEW q, NEW K, Once(p, K), Silent(q)
    PROVE  Once(p \o q, K)
<1>1. Once(p \o q, K \cup {})
  BY OnceSilent, OnceConcat
<1> QED BY <1>1

\* ... nor one before it.
LEMMA SilentThenOnce ==
    ASSUME NEW p, NEW q, NEW K, Silent(p), Once(q, K)
    PROVE  Once(p \o q, K)
<1>1. Once(p \o q, {} \cup K)
  BY OnceSilent, OnceConcat
<1> QED BY <1>1

\* So do programs of any number, each with keys of its own.
LEMMA OnceAll ==
    ASSUME NEW f, NEW list, IsList(list), f = [i \in 1 .. Len(list) |-> f[i]],
           NEW K, \A i \in 1 .. Len(list) : Once(f[i], K[i]),
           \A i, j \in 1 .. Len(list) : i # j => K[i] \cap K[j] = {}
    PROVE  Once(FlattenSeq(f), UNION {K[i] : i \in 1 .. Len(list)})
<1>1. IsList(f) /\ Len(f) = Len(list) /\ Len(f) \in Nat
  BY ListLen, ListOf
<1>2. CASE Len(f) = 0
  <2>1. f = <<>> /\ FlattenSeq(f) = f
    BY <1>1, <1>2, EmptySeq DEF IsList, FlattenSeq
  <2> QED BY <2>1, SilentEmpty, OnceSilent, OnceMore
<1>3. CASE Len(f) # 0
  <2>1. PICK g : /\ FlattenSeq(f) = g[Len(f)]
                 /\ g[1] = f[1]
                 /\ \A i \in 2 .. Len(f) : g[i] = g[i - 1] \o f[i]
    BY <1>1, <1>3, FlattenSteps
  <2> DEFINE Keys(k) == UNION {K[i] : i \in 1 .. k}
             T == {k \in Nat : k + 1 \in 1 .. Len(f) => Once(g[k + 1], Keys(k + 1))}
  <2>2. 0 \in T
    <3>1. UNION {K[i] : i \in 1 .. 1} = K[1]
      OBVIOUS
    <3>2. 1 \in 1 .. Len(list)
      BY <1>1, <1>3
    <3>3. Once(g[1], Keys(1))
      BY <2>1, <3>1, <3>2
    <3> HIDE DEF Keys
    <3> QED BY <3>3, 0 + 1 = 1
  <2>3. ASSUME NEW k \in Nat, k \in T PROVE k + 1 \in T
    <3>1. ASSUME k + 2 \in 1 .. Len(f) PROVE Once(g[k + 2], Keys(k + 2))
      <4>1. k + 1 \in 1 .. Len(f) /\ k + 2 \in 2 .. Len(f) /\ (k + 2) - 1 = k + 1
        BY <1>1, <3>1
      <4>2. Once(g[k + 1], Keys(k + 1)) /\ Once(f[k + 2], K[k + 2])
        BY <1>1, <2>3, <3>1, <4>1
      <4>3. g[k + 2] = g[k + 1] \o f[k + 2]
        BY <2>1, <4>1
      <4>4. Keys(k + 1) \cap K[k + 2] = {}
        <5>1. \A i \in 1 .. k + 1 : i \in 1 .. Len(list) /\ i # k + 2 /\ k + 2 \in 1 .. Len(list)
          BY <1>1, <3>1
        <5>2. \A i \in 1 .. k + 1 : K[i] \cap K[k + 2] = {}
          BY <5>1
        <5> QED BY <5>2
      <4>5. 1 .. (k + 2) = (1 .. (k + 1)) \cup {k + 2}
        OBVIOUS
      <4>6. Keys(k + 2) = Keys(k + 1) \cup K[k + 2]
        BY <4>5
      <4> HIDE DEF Keys
      <4> QED BY <4>2, <4>3, <4>4, <4>6, OnceConcat
    <3>2. (k + 1) + 1 = k + 2 /\ k + 1 \in Nat
      OBVIOUS
    <3> HIDE DEF Keys
    <3> QED BY <3>1, <3>2
  <2>4. Len(f) - 1 \in Nat /\ (Len(f) - 1) + 1 = Len(f) /\ Len(f) \in 1 .. Len(f)
    BY <1>1, <1>3
  <2>5. Len(f) - 1 \in T
    <3> HIDE DEF T
    <3> QED BY <2>2, <2>3, <2>4, Induction
  <2> QED BY <1>1, <2>1, <2>4, <2>5
<1> QED BY <1>2, <1>3

\* Two exports under two keys.
LEMMA OnceTwoExports ==
    ASSUME NEW a, NEW b, a # b
    PROVE  Once(<<Export(a), Export(b)>>, {a, b})
<1> DEFINE s == Export(a)
           t == Export(b)
<1>1. <<s, t>> = <<s>> \o <<t>>
  OBVIOUS
<1>2. Once(<<s>>, {a}) /\ Once(<<t>>, {b}) /\ {a} \cap {b} = {} /\ {a} \cup {b} = {a, b}
  BY OnceExport
<1> HIDE DEF s, t
<1>3. Once(<<s>> \o <<t>>, {a} \cup {b})
  BY <1>2, OnceConcat
<1> QED BY <1>1, <1>2, <1>3 DEF s, t

\* Three under three.
LEMMA OnceThreeExports ==
    ASSUME NEW a, NEW b, NEW c, a # b, a # c, b # c
    PROVE  Once(<<Export(a), Export(b), Export(c)>>, {a, b, c})
<1> DEFINE s == Export(a)
           t == Export(b)
           u == Export(c)
<1>1. <<s, t, u>> = <<s, t>> \o <<u>>
  OBVIOUS
<1>2. Once(<<s, t>>, {a, b}) /\ Once(<<u>>, {c}) /\ {a, b} \cap {c} = {} /\ {a, b} \cup {c} = {a, b, c}
  BY OnceExport, OnceTwoExports
<1> HIDE DEF s, t, u
<1>3. Once(<<s, t>> \o <<u>>, {a, b} \cup {c})
  BY <1>2, OnceConcat
<1> QED BY <1>1, <1>2, <1>3 DEF s, t, u

\* Two route tables of one name are one URN declared twice.
TablesApart(c) ==
    \A i, j \in 1 .. Len(c.route_tables) : i # j => c.route_tables[i].name # c.route_tables[j].name

\* The keys that a network exports.
VnetKeys(c) ==
    {<<"vnet">>, <<"subnets">>, <<"ip_groups">>}
    \cup UNION {{<<"route_table", c.route_tables[i].name>>} : i \in 1 .. Len(c.route_tables)}

\* A network exports itself, its subnets and its groups, and each route table.
LEMMA OnceVnet ==
    ASSUME NEW c, VnetConfiguration(c), TablesApart(c)
    PROVE  Once(VnetProgram(c), VnetKeys(c))
<1>1. /\ IsList(c.subnets) /\ IsList(c.route_tables) /\ IsList(c.peered_vnets)
      /\ \A i \in 1 .. Len(c.subnets) : IsList(c.subnets[i].rules)
      /\ \A i \in 1 .. Len(c.route_tables) : IsList(c.route_tables[i].routes)
  BY ListLen DEF VnetConfiguration, Lists
<1>2. Silent(<<VnetComponent, Vnet>>)
  BY MuteComponent, MuteNamed, SilentTwo DEF VnetComponent, Vnet
<1>3. Silent(Nsgs(c))
  <2>1. ASSUME NEW nsg, NEW rules, IsList(rules)
        PROVE  Silent(ForEach(<<DEFAULT_DENY_RULE>> \o rules, LAMBDA rule, i : <<SecurityRule(nsg, rule, i)>>))
    <3> DEFINE list == <<DEFAULT_DENY_RULE>> \o rules
    <3>1. IsList(list)
      <4>1. IsList(<<DEFAULT_DENY_RULE>>)
        BY DEF IsList, ToSet
      <4> QED BY <2>1, <4>1, ConcatLists
    <3>2. \A rule, i : Mute(SecurityRule(nsg, rule, i))
      BY MuteNamed, MuteTaking DEF SecurityRule
    <3> HIDE DEF list
    <3>3. Silent(FlattenSeq([i \in 1 .. Len(list) |-> <<SecurityRule(nsg, list[i], i)>>]))
      BY <3>1, <3>2, SilentAll, SilentOne DEF list
    <3> QED BY <3>3 DEF ForEach, list
  <2>2. \A subnet : Mute(NsgOf(subnet))
    BY MuteNamed DEF NsgOf
  <2> DEFINE f == [k \in 1 .. Len(c.subnets) |->
                    When(HasNsg(c, c.subnets[k]),
                      LET nsg == NsgOf(c.subnets[k])
                      IN  <<nsg>> \o ForEach(<<DEFAULT_DENY_RULE>> \o c.subnets[k].rules,
                                             LAMBDA rule, i : <<SecurityRule(nsg, rule, i)>>))]
  <2>3. ASSUME NEW k \in 1 .. Len(c.subnets) PROVE Silent(f[k])
    <3> DEFINE nsg == NsgOf(c.subnets[k])
               rest == ForEach(<<DEFAULT_DENY_RULE>> \o c.subnets[k].rules,
                               LAMBDA rule, i : <<SecurityRule(nsg, rule, i)>>)
    <3>1. Silent(rest) /\ Mute(nsg)
      BY <1>1, <2>1, <2>2 DEF ForEach
    <3>2. f[k] = When(HasNsg(c, c.subnets[k]), <<nsg>> \o rest)
      OBVIOUS
    <3> HIDE DEF nsg, rest, f
    <3> QED BY <3>1, <3>2, SilentOne, SilentConcat, SilentWhen
  <2>4. Nsgs(c) = FlattenSeq(f) /\ f = [k \in 1 .. Len(c.subnets) |-> f[k]]
    BY DEF Nsgs, ForEach
  <2> HIDE DEF f
  <2> QED BY <1>1, <2>3, <2>4, SilentAll
<1> DEFINE tables == ForEach(c.route_tables, LAMBDA table, i : RouteTable(table))
           K == [i \in 1 .. Len(c.route_tables) |-> {<<"route_table", c.route_tables[i].name>>}]
           keys == UNION {K[i] : i \in 1 .. Len(c.route_tables)}
<1>4. Once(tables, keys)
  <2>1. ASSUME NEW table, IsList(table.routes)
        PROVE  Once(RouteTable(table), {<<"route_table", table.name>>})
    <3>1. Mute(RouteTableComponent(table)) /\ Mute(RouteTableOf(table))
      BY MuteComponent, MuteNamed DEF RouteTableComponent, RouteTableOf
    <3> DEFINE routes == ForEach(table.routes, LAMBDA route, i :
            <<Fixed(Resource(RouteTableOf(table), "Route", <<table.name, route, i - 1>>,
                             {RG, RouteTableOf(table).urn}), <<table.name, route>>)>>)
               front == <<RouteTableComponent(table), RouteTableOf(table)>>
               export == <<Export(<<"route_table", table.name>>)>>
    <3>2. Silent(routes)
      BY <2>1, MuteNamed, SilentOne, SilentAll DEF ForEach
    <3>3. RouteTable(table) = (front \o routes) \o export
      BY DEF RouteTable
    <3>4. Silent(front) /\ Once(export, {<<"route_table", table.name>>})
      BY <3>1, SilentTwo, OnceExport
    <3> HIDE DEF front, routes, export
    <3> QED BY <3>2, <3>3, <3>4, SilentConcat, SilentThenOnce
  <2> DEFINE f == [i \in 1 .. Len(c.route_tables) |-> RouteTable(c.route_tables[i])]
  <2>2. tables = FlattenSeq(f) /\ f = [i \in 1 .. Len(c.route_tables) |-> f[i]]
    BY DEF ForEach
  <2>3. \A i \in 1 .. Len(c.route_tables) : Once(f[i], K[i])
    BY <1>1, <2>1
  <2>4. \A i, j \in 1 .. Len(c.route_tables) : i # j => K[i] \cap K[j] = {}
    <3> SUFFICES ASSUME NEW i \in 1 .. Len(c.route_tables), NEW j \in 1 .. Len(c.route_tables), i # j
                 PROVE  <<"route_table", c.route_tables[i].name>> # <<"route_table", c.route_tables[j].name>>
      OBVIOUS
    <3> QED BY DEF TablesApart
  <2> DEFINE list == c.route_tables
  <2>5. /\ IsList(list) /\ f = [i \in 1 .. Len(list) |-> f[i]]
        /\ \A i \in 1 .. Len(list) : Once(f[i], K[i])
        /\ \A i, j \in 1 .. Len(list) : i # j => K[i] \cap K[j] = {}
    BY <1>1, <2>2, <2>3, <2>4
  <2> HIDE DEF f, K, tables, list
  <2>6. Once(FlattenSeq(f), UNION {K[i] : i \in 1 .. Len(list)})
    BY <2>5, OnceAll
  <2> QED BY <2>2, <2>6 DEF list
<1>5. Silent(Subnets(c)) /\ Silent(IpGroups(c))
  <2>1. \A subnet : Mute(SubnetOf(c, subnet))
    BY MuteNamed DEF SubnetOf
  <2>2. Silent(Subnets(c))
    BY <1>1, <2>1, SilentOne, SilentRaise, SilentAll DEF Subnets, ForEach
  <2>3. Silent(IpGroups(c))
    BY <1>1, MuteNamed, SilentOne, SilentWhen, SilentAll DEF IpGroups, ForEach
  <2> QED BY <2>2, <2>3
<1>6. Silent(Peerings(c))
  BY <1>1, MuteResource, SilentThree, SilentAll DEF Peerings, Provider, ForEach
<1> DEFINE front == <<VnetComponent, Vnet>> \o Nsgs(c)
           rest == (Subnets(c) \o IpGroups(c)) \o Peerings(c)
           ends == <<Export(<<"vnet">>), Export(<<"subnets">>), Export(<<"ip_groups">>)>>
           all == ((((front \o tables) \o Subnets(c)) \o IpGroups(c)) \o Peerings(c)) \o ends
<1>7. VnetProgram(c) = Validated(ValidSubnets(c), all)
  BY DEF VnetProgram
<1>8. Once(ends, {<<"vnet">>, <<"subnets">>, <<"ip_groups">>})
  BY OnceThreeExports
<1>9. keys \cap {<<"vnet">>, <<"subnets">>, <<"ip_groups">>} = {}
      /\ VnetKeys(c) = keys \cup {<<"vnet">>, <<"subnets">>, <<"ip_groups">>}
  <2>1. \A name : <<"route_table", name>> \notin {<<"vnet">>, <<"subnets">>, <<"ip_groups">>}
    OBVIOUS
  <2>2. keys = UNION {{<<"route_table", c.route_tables[i].name>>} : i \in 1 .. Len(c.route_tables)}
    OBVIOUS
  <2> HIDE DEF keys
  <2>3. VnetKeys(c) = keys \cup {<<"vnet">>, <<"subnets">>, <<"ip_groups">>}
    BY <2>2 DEF VnetKeys
  <2>4. \A x \in keys : \E name : x = <<"route_table", name>>
    BY <2>2
  <2> QED BY <2>1, <2>3, <2>4
<1>10. Silent(front)
  BY <1>2, <1>3, SilentConcat
<1> HIDE DEF front, tables, ends, keys, K
<1>11. Once(front \o tables, keys)
  BY <1>4, <1>10, SilentThenOnce
<1>12. Once(((front \o tables) \o Subnets(c)) \o IpGroups(c), keys)
  BY <1>5, <1>11, OnceThenSilent
<1>13. Once((((front \o tables) \o Subnets(c)) \o IpGroups(c)) \o Peerings(c), keys)
  BY <1>6, <1>12, OnceThenSilent
<1>14. Once(all, VnetKeys(c))
  BY <1>8, <1>9, <1>13, OnceConcat
<1> QED BY <1>7, <1>14, OnceValidated

\* A gateway exports itself, once.
LEMMA OnceVpn ==
    ASSUME NEW c
    PROVE  Once(VpnProgram(c), {<<"vpn">>})
<1>1. Mute(VpnComponent) /\ Mute(VnetGateway(c)) /\ Mute(LocalNetworkGateway) /\ Mute(VnetConnection(c))
  BY MuteComponent, MuteResource DEF VpnComponent, VnetGateway, LocalNetworkGateway, VnetConnection
<1>2. Silent(GatewayIps(c))
  <2> DEFINE n == IF c.active_active THEN IF c.point_to_site THEN 3 ELSE 2 ELSE 1
             e == [i \in 1 .. n |-> PublicIp(VpnComponent, <<"vpngateway", i>>)]
  <2>1. n \in Nat
    OBVIOUS
  <2>2. e = [i \in 1 .. n |-> e[i]] /\ \A i \in 1 .. n : Mute(e[i])
    <3> HIDE DEF n
    <3> QED BY MuteResource DEF PublicIp
  <2>3. GatewayIps(c) = e
    BY DEF GatewayIps
  <2> HIDE DEF n, e
  <2>4. IsList(e) /\ Len(e) = n
    BY <2>1, <2>2, ListOf
  <2> QED BY <2>2, <2>3, <2>4, SilentAt DEF IsList
<1> DEFINE front == ((<<VpnComponent>> \o GatewayIps(c)) \o <<VnetGateway(c)>>)
                    \o When(c.site_to_site, <<LocalNetworkGateway, VnetConnection(c)>>)
           export == <<Export(<<"vpn">>)>>
<1>3. VpnProgram(c) = front \o export
  BY DEF VpnProgram
<1>4. Silent(front)
  BY <1>1, <1>2, SilentOne, SilentTwo, SilentWhen, SilentConcat
<1>5. Once(export, {<<"vpn">>})
  BY OnceExport
<1> HIDE DEF front, export
<1> QED BY <1>3, <1>4, <1>5, SilentThenOnce

\* A virtual WAN exports itself and its hub, point-to-site its gateway, and
\* site-to-site nothing.
LEMMA OnceVwan ==
    ASSUME NEW c, Lists(c, {"hub_vnet_connections", "sites"})
    PROVE  /\ Once(VwanProgram(c), {<<"vwan">>, <<"vhub">>})
           /\ Once(P2sProgram, {<<"p2s_vpn">>})
           /\ Silent(S2sProgram(c))
<1>1. IsList(c.hub_vnet_connections) /\ IsList(c.sites)
  BY DEF Lists
<1>2. Once(VwanProgram(c), {<<"vwan">>, <<"vhub">>})
  <2> DEFINE front == <<VwanComponent, VirtualWan, VirtualHub>>
             links == ForEach(c.hub_vnet_connections, LAMBDA name, i :
                        <<Resource(VirtualHub, "HubVirtualNetworkConnection", name, {RG, VirtualHub.urn})>>)
             ends == <<Export(<<"vwan">>), Export(<<"vhub">>)>>
  <2>1. Silent(front)
    BY MuteComponent, MuteResource, SilentThree DEF VwanComponent, VirtualWan, VirtualHub
  <2>2. Silent(links)
    BY <1>1, MuteResource, SilentOne, SilentAll DEF ForEach
  <2>3. Once(ends, {<<"vwan">>, <<"vhub">>})
    BY OnceTwoExports
  <2>4. VwanProgram(c) = (front \o links) \o ends
    BY DEF VwanProgram
  <2> HIDE DEF front, links, ends
  <2> QED BY <2>1, <2>2, <2>3, <2>4, SilentConcat, SilentThenOnce
<1>3. Silent(S2sProgram(c))
  <2>1. Silent(ForEach(c.sites, LAMBDA name, i : <<VpnSite(name)>>))
    BY <1>1, MuteNamed, SilentOne, SilentAll DEF ForEach, VpnSite
  <2> QED BY <2>1, MuteResource, SilentOne, SilentConcat DEF S2sProgram
<1>4. Once(P2sProgram, {<<"p2s_vpn">>})
  <2> DEFINE gateway == Fixed(Resource(P2sComponent, "P2sVpnGateway", "w",
                                       {RG, VirtualHub.urn, ServerConfig.urn}), "w")
             s == P2sComponent
             t == ServerConfig
             export == Export(<<"p2s_vpn">>)
  <2>1. Mute(s) /\ Mute(t) /\ Mute(gateway)
    BY MuteComponent, MuteNamed DEF P2sComponent, ServerConfig
  <2>2. P2sProgram = <<s, t, gateway, export>>
    BY DEF P2sProgram
  <2>3. Once(<<export>>, {<<"p2s_vpn">>})
    BY OnceExport
  <2> HIDE DEF s, t, gateway, export
  <2>4. <<s, t, gateway, export>> = <<s, t, gateway>> \o <<export>>
    OBVIOUS
  <2>5. Silent(<<s, t, gateway>>)
    BY <2>1, SilentThree
  <2> QED BY <2>2, <2>3, <2>4, <2>5, SilentThenOnce
<1> QED BY <1>2, <1>3, <1>4

\* A resolver exports itself, unless its configuration is refused.
LEMMA OnceResolver ==
    ASSUME NEW c, Lists(c, {"rules", "linked_vnets"})
    PROVE  Once(ResolverProgram(c), {<<"private_dns_resolver">>})
<1>1. IsList(c.rules) /\ IsList(c.linked_vnets)
  BY DEF Lists
<1>2. /\ Mute(ResolverComponent) /\ Mute(Resolver) /\ Mute(InboundEndpoint)
      /\ Mute(OutboundEndpoint) /\ Mute(ForwardingRuleset)
      /\ \A type, name : Mute(OfRuleset(type, name))
  BY MuteComponent, MuteNamed
  DEF ResolverComponent, Resolver, InboundEndpoint, OutboundEndpoint, ForwardingRuleset, OfResolver, OfRuleset
<1> DEFINE rules == ForEach(c.rules, LAMBDA domain, i : <<OfRuleset("ForwardingRule", FmtName(domain))>>)
           links == ForEach(c.linked_vnets, LAMBDA vnet, i :
                      <<OfRuleset("PrivateResolverVirtualNetworkLink", vnet)>>)
           front == (<<ResolverComponent, Resolver>> \o When(c.inbound, <<InboundEndpoint>>))
                    \o When(c.outbound, <<OutboundEndpoint>> \o
                            When(c.rules # <<>>, (<<ForwardingRuleset>> \o rules) \o links))
           export == <<Export(<<"private_dns_resolver">>)>>
<1>3. Silent(rules) /\ Silent(links)
  BY <1>1, <1>2, SilentOne, SilentAll DEF ForEach
<1>4. ResolverProgram(c) = Validated(c.rules # <<>> => c.linked_vnets # <<>>, front \o export)
  BY DEF ResolverProgram
<1> HIDE DEF rules, links
<1>5. Silent(front)
  BY <1>2, <1>3, SilentOne, SilentTwo, SilentWhen, SilentConcat
<1>6. Once(export, {<<"private_dns_resolver">>})
  BY OnceExport
<1> HIDE DEF front, export
<1>7. Once(front \o export, {<<"private_dns_resolver">>})
  BY <1>5, <1>6, SilentThenOnce
<1> QED BY <1>4, <1>7, OnceValidated

\* A zone exports one key.
LEMMA OnceDnsZone ==
    ASSUME NEW parent, NEW c, Lists(c, {"records"})
    PROVE  Once(DnsZoneProgram(parent, c), {<<"dns_zone">>})
<1>1. Mute(DnsZoneComponent(parent, c)) /\ Mute(GroupOf(c)) /\ Mute(ParentNsRecord(parent, c))
      /\ \A subscription : Mute(Provider(subscription))
  BY MuteComponent, MuteResource DEF DnsZoneComponent, GroupOf, ParentNsRecord, Provider, ResourceGroup
<1>2. Mute(DnsZone(parent, c))
  <2> DEFINE name == IF c.existing THEN "dns-zone-reference" ELSE FmtName(c.name)
             refs == IF c.existing THEN {} ELSE {GroupOf(c).urn}
             zone == Resource(DnsZoneComponent(parent, c), "Zone", name, refs)
  <2> HIDE DEF name, refs
  <2>1. Mute(zone) /\ Mute(Fixed(zone, c.name))
    BY MuteResource, MuteNamed
  <2>2. DnsZone(parent, c) = IF c.existing THEN zone ELSE Fixed(zone, c.name)
    BY DEF DnsZone, name, refs
  <2> QED BY <2>1, <2>2
<1>3. Silent(DnsRecords(parent, c))
  <2> DEFINE n == Len(c.records)
             e == [i \in 1 .. n |-> DnsRecord(parent, c, c.records[i])]
  <2>1. n \in Nat
    BY ListLen DEF Lists
  <2>2. e = [i \in 1 .. n |-> e[i]] /\ \A i \in 1 .. n : Mute(e[i])
    <3> HIDE DEF n
    <3> QED BY MuteNamed DEF DnsRecord
  <2>3. DnsRecords(parent, c) = e
    BY DEF DnsRecords
  <2> HIDE DEF n, e
  <2>4. IsList(e) /\ Len(e) = n
    BY <2>1, <2>2, ListOf
  <2> QED BY <2>2, <2>3, <2>4, SilentAt DEF IsList
<1> DEFINE dnssec == Resource(DnsZoneComponent(parent, c), "DnssecConfig", FmtName(c.name),
                              {GroupOf(c).urn, DnsZone(parent, c).urn})
           front == (((<<DnsZoneComponent(parent, c), DnsZone(parent, c)>>
                    \o When(c.group # "" /\ c.records # <<>>, <<GroupOf(c)>>))
                    \o DnsRecords(parent, c))
                    \o When(c.parent_zone,
                         When(c.other_subscription, <<Provider(<<"parent", c.name>>)>>)
                         \o <<ParentNsRecord(parent, c)>>))
                    \o When(c.enable_dnssec, <<dnssec>>)
           export == When(~c.skip_exports, <<Export(<<"dns_zone">>)>>)
<1>4. DnsZoneProgram(parent, c) = front \o export
  BY DEF DnsZoneProgram
<1>5. Mute(dnssec)
  BY MuteResource
<1> HIDE DEF dnssec
<1>6. Silent(front)
  BY <1>1, <1>2, <1>3, <1>5, SilentOne, SilentTwo, SilentWhen, SilentConcat
<1>7. Once(export, {<<"dns_zone">>})
  BY OnceExport, OnceWhen
<1> HIDE DEF front, export
<1> QED BY <1>4, <1>6, <1>7, SilentThenOnce

\* A private zone that is told not to export exports nothing.
LEMMA SilentPrivateZone ==
    ASSUME NEW c, Lists(c, {"linked_vnets", "records"}), c.skip_exports = TRUE
    PROVE  Silent(PrivateZoneProgram(c))
<1>1. IsList(c.linked_vnets) /\ IsList(c.records)
  BY DEF Lists
<1>2. Mute(PrivateZoneComponent(c)) /\ Mute(PrivateZone(c))
      /\ \A record : Mute(PrivateRecord(c, record))
  BY MuteComponent, MuteNamed DEF PrivateZoneComponent, PrivateZone, PrivateRecord
<1>3. Silent(ForEach(c.linked_vnets, LAMBDA vnet, i :
         <<Fixed(Resource(PrivateZoneComponent(c), "VirtualNetworkLink", <<vnet, c.name>>,
                          {RG, PrivateZone(c).urn}), <<c.name, vnet>>)>>))
  BY <1>1, MuteNamed, SilentOne, SilentAll DEF ForEach
<1>4. Silent(ForEach(c.records, LAMBDA record, i :
         IF record.type = "NS" THEN Raise ELSE <<PrivateRecord(c, record)>>))
  BY <1>1, <1>2, SilentRaise, SilentOne, SilentAll DEF ForEach
<1>5. Silent(When(~c.skip_exports, <<Export(<<"private_dns_zone">>)>>))
  BY SilentWhen
<1> QED BY <1>2, <1>3, <1>4, <1>5, SilentTwo, SilentConcat DEF PrivateZoneProgram

\* The zones of the private endpoints export nothing.
LEMMA SilentDefaultZones ==
    ASSUME NEW c, HubConfiguration(c)
    PROVE  Silent(DefaultZones(c))
<1> DEFINE zone(name) == [name |-> name, linked_vnets |-> c.vwan.hub_vnet_connections,
                          records |-> <<>>, skip_exports |-> TRUE]
           f == [i \in 1 .. Len(c.default_zones) |->
                   When(\A j \in 1 .. i - 1 : c.default_zones[j] # c.default_zones[i],
                        PrivateZoneProgram(zone(c.default_zones[i])))]
<1>1. IsList(c.default_zones)
  BY DEF HubConfiguration, Lists
<1>2. ASSUME NEW name PROVE Silent(PrivateZoneProgram(zone(name)))
  <2>1. IsList(<<>>)
    BY PlainEmpty DEF PlainProgram
  <2>2. IsList(c.vwan.hub_vnet_connections)
    BY DEF HubConfiguration, Lists
  <2>3. Lists(zone(name), {"linked_vnets", "records"}) /\ zone(name).skip_exports = TRUE
    BY <2>1, <2>2 DEF Lists
  <2> HIDE DEF zone
  <2> QED BY <2>3, SilentPrivateZone
<1>3. DefaultZones(c) = FlattenSeq(f)
  BY DEF DefaultZones, ForEach
<1> HIDE DEF zone
<1>4. f = [i \in 1 .. Len(c.default_zones) |-> f[i]] /\ \A i \in 1 .. Len(c.default_zones) : Silent(f[i])
  BY <1>2, SilentWhen
<1> HIDE DEF f
<1> QED BY <1>1, <1>3, <1>4, SilentAll

\* A hub whose outputs have keys of their own: no two route tables of one name,
\* which would be one URN twice, and one public zone at most, since every zone
\* exports the same key.
OutputsApart(c) ==
    /\ TablesApart(c.vnet)
    /\ Len(c.dns_zone \o c.dns_zones) <= 1
    /\ \A zone \in ToSet(c.private_dns_zones) : "skip_exports" \in DOMAIN zone

\* The public zones of such a hub.
LEMMA OnceHubZones ==
    ASSUME NEW c, HubConfiguration(c), OutputsApart(c)
    PROVE  Once(HubDnsZones(c), {<<"dns_zone">>, <<"dns_zones">>})
<1> DEFINE list == c.dns_zone \o c.dns_zones
           f == [i \in 1 .. Len(list) |-> DnsZoneProgram(ResourceGroup, list[i])]
           K == [i \in 1 .. Len(list) |-> {<<"dns_zone">>}]
           export == <<Export(<<"dns_zones">>)>>
<1>1. IsList(list) /\ \A i \in 1 .. Len(list) : Lists(list[i], {"records"})
  <2>1. IsList(c.dns_zone) /\ IsList(c.dns_zones)
    BY DEF HubConfiguration, Lists
  <2>2. IsList(list) /\ ToSet(list) = ToSet(c.dns_zone) \cup ToSet(c.dns_zones)
    BY <2>1, ConcatLists
  <2> HIDE DEF list
  <2> QED BY <2>2, ListLen DEF HubConfiguration
<1>2. HubDnsZones(c) = FlattenSeq(f) \o export
  BY DEF HubDnsZones, ForEach
<1>3. Len(list) <= 1 /\ Len(list) \in Nat
  BY <1>1, ListLen DEF OutputsApart
<1> HIDE DEF list
<1>4. /\ f = [i \in 1 .. Len(list) |-> f[i]]
      /\ \A i \in 1 .. Len(list) : Once(f[i], K[i])
      /\ \A i, j \in 1 .. Len(list) : i # j => K[i] \cap K[j] = {}
  <2>1. \A i \in 1 .. Len(list) : Once(f[i], K[i])
    BY <1>1, OnceDnsZone
  <2>2. \A i, j \in 1 .. Len(list) : i = j
    BY <1>3
  <2> QED BY <2>1, <2>2
<1>5. UNION {K[i] : i \in 1 .. Len(list)} \subseteq {<<"dns_zone">>}
  OBVIOUS
<1> HIDE DEF f, K
<1>6. Once(FlattenSeq(f), {<<"dns_zone">>})
  <2>1. Once(FlattenSeq(f), UNION {K[i] : i \in 1 .. Len(list)})
    BY <1>1, <1>4, OnceAll
  <2> QED BY <1>5, <2>1, OnceMore
<1>7. Once(export, {<<"dns_zones">>})
  BY OnceExport
<1>8. {<<"dns_zone">>} \cap {<<"dns_zones">>} = {} /\ {<<"dns_zone">>} \cup {<<"dns_zones">>} = {<<"dns_zone">>, <<"dns_zones">>}
  OBVIOUS
<1> HIDE DEF export
<1>9. Once(FlattenSeq(f) \o export, {<<"dns_zone">>} \cup {<<"dns_zones">>})
  BY <1>6, <1>7, <1>8, OnceConcat
<1> QED BY <1>2, <1>8, <1>9

\* A statement and what comes after it.
LEMMA OneThenExport ==
    ASSUME NEW s, NEW t, NEW K, Mute(s), Once(<<t>>, K)
    PROVE  Once(<<s, t>>, K)
<1>1. <<s, t>> = <<s>> \o <<t>>
  <2> DEFINE S == {s, t}
             a == <<s>>
             b == <<t>>
             ab == <<s, t>>
  <2>1. a \in Seq(S) /\ b \in Seq(S) /\ ab \in Seq(S) /\ Len(a) = 1 /\ Len(b) = 1 /\ Len(ab) = 2
        /\ ab[1] = a[1] /\ ab[2] = b[1]
    OBVIOUS
  <2> HIDE DEF S, a, b, ab
  <2>2. /\ a \o b \in Seq(S) /\ Len(a \o b) = 2
        /\ (a \o b)[1] = a[1] /\ (a \o b)[2] = b[1]
    BY <2>1, ConcatProperties
  <2>3. \A i \in 1 .. 2 : i = 1 \/ i = 2
    OBVIOUS
  <2>4. ab = a \o b
    BY <2>1, <2>2, <2>3, SeqEqual
  <2> QED BY <2>4 DEF a, b, ab
<1>2. Silent(<<s>>)
  BY SilentOne
<1>3. Once(<<s>> \o <<t>>, K)
  BY <1>2, SilentThenOnce
<1> QED BY <1>1, <1>3

\* Every stack exports itself.
LEMMA OnceBegin == Once(Begin, {<<"stack">>})
<1> DEFINE s == ResourceGroup
           t == Export(<<"stack">>)
<1>1. Begin = <<s, t>> /\ Mute(s)
  BY MuteResource DEF Begin, ResourceGroup
<1>2. Once(<<t>>, {<<"stack">>})
  BY OnceExport
<1> HIDE DEF s, t
<1> QED BY <1>1, <1>2, OneThenExport

\* deploy_hub_spoke, for any configuration whose outputs have keys of their own: no
\* output is lost, neither by the zones of the private endpoints, however many, nor
\* by the private zones.
LEMMA OnceHub ==
    ASSUME NEW c, HubConfiguration(c), OutputsApart(c)
    PROVE  \E K : Once(HubSpokeProgram(c), K)
<1> DEFINE vnet == VnetProgram(c.vnet)
           wan == (((VwanProgram(c.vwan) \o When(c.p2s_vpn, P2sProgram))
                  \o When(c.s2s_vpn, S2sProgram(c.vwan)))
                  \o DefaultZones(c)) \o <<Export(<<"private_endpoint_dns_zones">>)>>
           vpn == When(c.has_vpn, VpnProgram(c.vpn))
           zones == HubDnsZones(c)
           resolver == When(c.has_resolver, ResolverProgram(c.resolver))
           private == ForEach(c.private_dns_zones, LAMBDA zone, i :
                        PrivateZoneProgram([zone EXCEPT !.skip_exports = TRUE]))
           ends == When(c.private_dns_zones # <<>>, <<Export(<<"private_dns_zones">>)>>)
           W == {<<"vwan">>, <<"vhub">>, <<"p2s_vpn">>, <<"private_endpoint_dns_zones">>}
           Z == {<<"dns_zone">>, <<"dns_zones">>}
           R == {<<"private_dns_resolver">>}
           V == VnetKeys(c.vnet)
<1>1. HubSpokeProgram(c) =
        ((((((Begin \o vnet) \o When(c.has_vwan, wan)) \o vpn) \o zones) \o resolver) \o private) \o ends
  BY DEF HubSpokeProgram
<1>2. Once(vnet, V)
  BY OnceVnet DEF HubConfiguration, OutputsApart
<1>3. Once(When(c.has_vwan, wan), W)
  <2> DEFINE A == {<<"vwan">>, <<"vhub">>}
             B == {<<"p2s_vpn">>}
             C == {<<"private_endpoint_dns_zones">>}
             a == VwanProgram(c.vwan)
             b == When(c.p2s_vpn, P2sProgram)
             s == When(c.s2s_vpn, S2sProgram(c.vwan))
             d == DefaultZones(c)
             e == <<Export(<<"private_endpoint_dns_zones">>)>>
  <2>1. Once(a, A) /\ Once(b, B) /\ Silent(s) /\ Silent(d) /\ Once(e, C)
    BY OnceVwan, OnceWhen, SilentWhen, SilentDefaultZones, OnceExport DEF HubConfiguration
  <2>2. A \cap B = {} /\ (A \cup B) \cap C = {} /\ (A \cup B) \cup C = W
    OBVIOUS
  <2>3. wan = (((a \o b) \o s) \o d) \o e
    OBVIOUS
  <2> HIDE DEF A, B, C, W, a, b, s, d, e, wan
  <2>4. Once(((a \o b) \o s) \o d, A \cup B)
    BY <2>1, <2>2, OnceConcat, OnceThenSilent
  <2>5. Once(wan, W)
    BY <2>1, <2>2, <2>3, <2>4, OnceConcat
  <2> QED BY <2>5, OnceWhen
<1>4. Once(vpn, {<<"vpn">>}) /\ Once(zones, Z) /\ Once(resolver, R) /\ Once(ends, {<<"private_dns_zones">>})
  <2>1. Lists(c.resolver, {"rules", "linked_vnets"})
    BY DEF HubConfiguration
  <2> QED BY <2>1, OnceVpn, OnceHubZones, OnceResolver, OnceExport, OnceWhen
<1>5. Silent(private)
  <2>1. ASSUME NEW zone, Lists(zone, {"linked_vnets", "records"}), "skip_exports" \in DOMAIN zone
        PROVE  Silent(PrivateZoneProgram([zone EXCEPT !.skip_exports = TRUE]))
    BY <2>1, SilentPrivateZone DEF Lists
  <2>2. IsList(c.private_dns_zones)
    BY DEF HubConfiguration, Lists
  <2>3. \A i \in 1 .. Len(c.private_dns_zones) :
          /\ Lists(c.private_dns_zones[i], {"linked_vnets", "records"})
          /\ "skip_exports" \in DOMAIN c.private_dns_zones[i]
    BY <2>2, ListLen DEF HubConfiguration, OutputsApart
  <2> QED BY <2>1, <2>2, <2>3, SilentAll DEF ForEach
<1>6. \A x \in V : x \in {<<"vnet">>, <<"subnets">>, <<"ip_groups">>} \/ \E name : x = <<"route_table", name>>
  BY DEF VnetKeys
<1> HIDE DEF V
<1>7. {<<"stack">>} \cap V = {} /\ ({<<"stack">>} \cup V) \cap W = {}
  BY <1>6
<1>8. (({<<"stack">>} \cup V) \cup W) \cap {<<"vpn">>} = {}
  BY <1>6
<1>9. ((({<<"stack">>} \cup V) \cup W) \cup {<<"vpn">>}) \cap Z = {}
  BY <1>6
<1>10. (((({<<"stack">>} \cup V) \cup W) \cup {<<"vpn">>}) \cup Z) \cap R = {}
  BY <1>6
<1>11. ((((({<<"stack">>} \cup V) \cup W) \cup {<<"vpn">>}) \cup Z) \cup R) \cap {<<"private_dns_zones">>} = {}
  BY <1>6
<1> DEFINE S == {<<"stack">>}
           N == {<<"vpn">>}
           P == {<<"private_dns_zones">>}
           w == When(c.has_vwan, wan)
<1>12. Once(Begin, S) /\ Once(w, W) /\ Once(vpn, N) /\ Once(ends, P)
  BY <1>3, <1>4, OnceBegin
<1>13. /\ S \cap V = {} /\ (S \cup V) \cap W = {} /\ ((S \cup V) \cup W) \cap N = {}
       /\ (((S \cup V) \cup W) \cup N) \cap Z = {} /\ ((((S \cup V) \cup W) \cup N) \cup Z) \cap R = {}
       /\ (((((S \cup V) \cup W) \cup N) \cup Z) \cup R) \cap P = {}
  BY <1>7, <1>8, <1>9, <1>10, <1>11
<1>14. HubSpokeProgram(c) = ((((((Begin \o vnet) \o w) \o vpn) \o zones) \o resolver) \o private) \o ends
  BY <1>1
<1> HIDE DEF S, N, P, W, Z, R, w, vnet, vpn, zones, resolver, private, ends
<1>15. Once((Begin \o vnet) \o w, (S \cup V) \cup W)
  BY <1>2, <1>12, <1>13, OnceConcat
<1>16. Once((((Begin \o vnet) \o w) \o vpn) \o zones, (((S \cup V) \cup W) \cup N) \cup Z)
  <2>1. Once(((Begin \o vnet) \o w) \o vpn, ((S \cup V) \cup W) \cup N)
    BY <1>12, <1>13, <1>15, OnceConcat
  <2> QED BY <1>4, <1>13, <2>1, OnceConcat
<1>17. Once((((((Begin \o vnet) \o w) \o vpn) \o zones) \o resolver) \o private,
            ((((S \cup V) \cup W) \cup N) \cup Z) \cup R)
  <2>1. Once(((((Begin \o vnet) \o w) \o vpn) \o zones) \o resolver, ((((S \cup V) \cup W) \cup N) \cup Z) \cup R)
    BY <1>4, <1>13, <1>16, OnceConcat
  <2> QED BY <1>5, <2>1, OnceThenSilent
<1>18. Once(HubSpokeProgram(c), (((((S \cup V) \cup W) \cup N) \cup Z) \cup R) \cup P)
  BY <1>12, <1>13, <1>14, <1>17, OnceConcat
<1> QED BY <1>18

\* An application registered by a base that exports them all together exports nothing.
LEMMA SilentEntraApp ==
    ASSUME NEW c, EntraConfiguration(c), c.skip_exports = TRUE
    PROVE  Silent(EntraAppProgram(c))
<1>1. /\ Mute(EntraComponent(c.name)) /\ Mute(EntraApplication(c)) /\ Mute(ServicePrincipal(c))
      /\ \A role : Mute(AppRoleId(c, role))
      /\ \A scope : Mute(ScopeId(scope))
  BY MuteComponent, MuteResource DEF EntraComponent, EntraApplication, ServicePrincipal, AppRoleId, ScopeId
<1>2. IsList(c.app_roles) /\ IsList(c.oauth2_scopes) /\ IsList(c.client_credentials)
      /\ IsList(c.federated_credentials) /\ IsList(c.entra_roles)
  BY DEF EntraConfiguration, Lists
<1>3. /\ Silent(ForEach(c.app_roles, LAMBDA role, i : <<AppRoleId(c, role)>>))
      /\ Silent(ForEach(c.oauth2_scopes, LAMBDA scope, i : <<ScopeId(scope)>>))
  BY <1>1, <1>2, SilentOne, SilentAll DEF ForEach
<1>4. Silent(ClientCredentials(c))
  BY <1>2, MuteResource, SilentTwo, SilentAll DEF ClientCredentials, ForEach
<1>5. Silent(FederatedCredentials(c)) /\ Silent(EntraRoles(c))
  BY <1>2, MuteResource, SilentOne, SilentAll DEF FederatedCredentials, EntraRoles, ForEach
<1>6. Silent(When(~c.skip_exports, <<Export(c.exports_prefix \o <<"entra_app">>)>>))
  BY SilentWhen
<1> QED BY <1>1, <1>3, <1>4, <1>5, <1>6, SilentOne, SilentTwo, SilentConcat DEF EntraAppProgram

\* The stack of the OAuth applications exports one key for all of them.
LEMMA OnceOauthApps ==
    ASSUME NEW c, OauthConfiguration(c), \A app \in ToSet(c.oauth_apps) : "skip_exports" \in DOMAIN app
    PROVE  \E K : Once(OauthAppsProgram(c), K)
<1> DEFINE apps == ForEach(c.oauth_apps, LAMBDA app, i : EntraAppProgram([app EXCEPT !.skip_exports = TRUE]))
           export == <<Export(<<"oauth_apps">>)>>
<1>1. /\ IsList(c.oauth_apps)
      /\ \A i \in 1 .. Len(c.oauth_apps) :
           EntraConfiguration(c.oauth_apps[i]) /\ "skip_exports" \in DOMAIN c.oauth_apps[i]
  BY ListLen DEF OauthConfiguration, Lists
<1>2. ASSUME NEW app, EntraConfiguration(app), "skip_exports" \in DOMAIN app
      PROVE  Silent(EntraAppProgram([app EXCEPT !.skip_exports = TRUE]))
  <2> DEFINE silenced == [app EXCEPT !.skip_exports = TRUE]
  <2>1. EntraConfiguration(silenced) /\ silenced.skip_exports = TRUE
    BY <1>2 DEF EntraConfiguration, Lists
  <2> HIDE DEF silenced
  <2>2. Silent(EntraAppProgram(silenced))
    BY <2>1, SilentEntraApp
  <2> QED BY <2>2 DEF silenced
<1>3. Silent(apps)
  BY <1>1, <1>2, SilentAll DEF ForEach
<1>4. OauthAppsProgram(c) = (Begin \o apps) \o export
  BY DEF OauthAppsProgram
<1>5. Once(export, {<<"oauth_apps">>}) /\ {<<"stack">>} \cap {<<"oauth_apps">>} = {}
  BY OnceExport
<1> HIDE DEF apps, export
<1>6. Once((Begin \o apps) \o export, {<<"stack">>} \cup {<<"oauth_apps">>})
  BY <1>3, <1>5, OnceBegin, OnceThenSilent, OnceConcat
<1> QED BY <1>4, <1>6

\* deploy_firewall exports the stack and the workspace it makes.
LEMMA OnceFirewall ==
    ASSUME NEW c, FirewallConfiguration(c)
    PROVE  \E K : Once(FirewallBaseProgram(c), K)
<1> DEFINE refs == IF c.log = "none" THEN <<>>
                   ELSE <<IF c.log = "own" THEN {LogWorkspace(ResourceGroup).urn} ELSE {}>>
           d == [c EXCEPT !.log_workspace = refs]
           w == When(c.log = "own", LogWorkspaceProgram(ResourceGroup))
           q == FirewallProgram(d)
<1>1. d.log_workspace = refs /\ d.rule_collection_groups = c.rule_collection_groups
  BY DEF FirewallConfiguration
<1>2. IsList(refs) /\ IsList(c.rule_collection_groups)
  <2>1. IsList(<<>>)
    BY PlainEmpty DEF PlainProgram
  <2>2. \A s : IsList(<<s>>)
    BY DEF IsList, ToSet
  <2> QED BY <2>1, <2>2 DEF FirewallConfiguration
<1>3. FirewallBaseProgram(c) = Begin \o ReadHere(w \o q)
  BY DEF FirewallBaseProgram
<1> HIDE DEF refs, d
<1>4. Once(w, {<<"log_workspace">>})
  <2> DEFINE s == LogWorkspace(ResourceGroup)
             t == Export(<<"log_workspace">>)
  <2>1. LogWorkspaceProgram(ResourceGroup) = <<s, t>> /\ Mute(s)
    BY MuteResource DEF LogWorkspaceProgram, LogWorkspace
  <2>2. Once(<<t>>, {<<"log_workspace">>})
    BY OnceExport
  <2> HIDE DEF s, t
  <2>3. Once(LogWorkspaceProgram(ResourceGroup), {<<"log_workspace">>})
    BY <2>1, <2>2, OneThenExport
  <2> QED BY <2>3, OnceWhen
<1>5. Once(q, {})
  <2>1. /\ Mute(FirewallComponent) /\ Mute(FirewallPolicy(d)) /\ Mute(Firewall(d))
        /\ \A parent, workload : Mute(PublicIp(parent, workload))
        /\ \A parent, resource, ids : Mute(DiagnosticSetting(parent, resource, ids))
        /\ \A i : Mute(RuleCollectionGroup(d, i))
    <3>1. \A group : Mute(PolicyGroup(d, group))
      BY MuteNamed, MuteOneAtATime, MuteTaking DEF PolicyGroup
    <3>2. \A i : Mute(RuleCollectionGroup(d, i))
      BY <3>1, MuteDependsOn DEF RuleCollectionGroup
    <3> QED BY <3>2, MuteComponent, MuteNamed
            DEF FirewallComponent, FirewallPolicy, Firewall, PublicIp, DiagnosticSetting
  <2>2. Silent(FirewallIps(d))
    BY <2>1, SilentOne, SilentWhen, SilentConcat DEF FirewallIps
  <2>3. Silent(Diagnostics(d, Firewall(d)))
    BY <1>1, <1>2, <2>1, SilentOne, SilentAll DEF Diagnostics, ForEach
  <2>4. Silent(ForEach(d.rule_collection_groups, LAMBDA g, i : <<RuleCollectionGroup(d, i)>>))
    BY <1>1, <1>2, <2>1, SilentOne, SilentAll DEF ForEach
  <2> DEFINE all == (((<<FirewallComponent, FirewallPolicy(d)>> \o FirewallIps(d)) \o <<Firewall(d)>>)
                     \o Diagnostics(d, Firewall(d)))
                    \o ForEach(d.rule_collection_groups, LAMBDA g, i : <<RuleCollectionGroup(d, i)>>)
  <2>5. Silent(all)
    BY <2>1, <2>2, <2>3, <2>4, SilentOne, SilentTwo, SilentConcat
  <2>6. q = Validated(ValidFirewall(d), all)
    BY DEF FirewallProgram
  <2> HIDE DEF all
  <2> QED BY <2>5, <2>6, OnceSilent, OnceValidated
<1> HIDE DEF w, q
<1>6. Once(w \o q, {<<"log_workspace">>})
  <2>1. Once(w \o q, {<<"log_workspace">>} \cup {})
    BY <1>4, <1>5, OnceConcat
  <2> QED BY <2>1
<1>7. Once(ReadHere(w \o q), {<<"log_workspace">>})
  BY <1>6, SilentRaise, OnceSilent, OnceMore DEF ReadHere
<1>8. {<<"stack">>} \cap {<<"log_workspace">>} = {}
  OBVIOUS
<1>9. Once(Begin \o ReadHere(w \o q), {<<"stack">>} \cup {<<"log_workspace">>})
  BY <1>7, <1>8, OnceBegin, OnceConcat
<1> QED BY <1>3, <1>9

-----------------------------------------------------------------------------
(* What the components of the zones export *)

\* A name in the arguments exports nothing.
LEMMA MuteNaming == \A s, names : Mute(s) => Mute(Naming(s, names))
  BY Fields DEF Naming, Mute, IsStatement

\* Nor do the parts of a resource,
LEMMA SilentParts ==
    ASSUME NEW owner, NEW type, NEW names, IsList(names)
    PROVE  Silent(Parts(owner, type, names))
<1>1. \A name : Mute(PartOf(owner, type, name))
  BY MuteNamed DEF PartOf
<1> QED BY <1>1, SilentAll, SilentOne DEF Parts, ForEach

\* ... or its diagnostic settings.
LEMMA SilentDiagnostics ==
    ASSUME NEW c, NEW resource, Lists(c, {"log_workspace"})
    PROVE  Silent(Diagnostics(c, resource))
<1>1. IsList(c.log_workspace)
  BY DEF Lists
<1>2. \A parent, r, refs : Mute(DiagnosticSetting(parent, r, refs))
  BY MuteResource DEF DiagnosticSetting
<1> QED BY <1>1, <1>2, SilentAll, SilentOne DEF Diagnostics, ForEach

\* Statements that export nothing before an export.
LEMMA SilentThenExport ==
    ASSUME NEW p, NEW key, Silent(p)
    PROVE  Once(p \o <<Export(key)>>, {key})
<1> DEFINE q == <<Export(key)>>
<1>1. Once(q, {key})
  BY OnceExport
<1> HIDE DEF q
<1>2. Once(p \o q, {key})
  BY <1>1, SilentThenOnce
<1> QED BY <1>2 DEF q

\* What a list of at most one entry declares exports what the entry does.
LEMMA OnceOptional ==
    ASSUME NEW f, NEW list, IsList(list), f = [i \in 1 .. Len(list) |-> f[i]], Len(list) <= 1,
           NEW K, \A i \in 1 .. Len(list) : Once(f[i], K)
    PROVE  Once(FlattenSeq(f), K)
<1> DEFINE L == [i \in 1 .. Len(list) |-> K]
<1>1. Len(list) \in Nat
  BY ListLen
<1>2. /\ \A i \in 1 .. Len(list) : Once(f[i], L[i])
      /\ \A i, j \in 1 .. Len(list) : i # j => L[i] \cap L[j] = {}
      /\ UNION {L[i] : i \in 1 .. Len(list)} \subseteq K
  <2>1. \A i, j \in 1 .. Len(list) : i = j
    BY <1>1
  <2> QED BY <2>1
<1> HIDE DEF L
<1>3. Once(FlattenSeq(f), UNION {L[i] : i \in 1 .. Len(list)})
  BY <1>2, OnceAll
<1> QED BY <1>2, <1>3, OnceMore

\* Every private endpoint exports the same key, whatever it is the endpoint of.
EndpointKeys(c) == IF Len(c.private_endpoints) = 0 THEN {} ELSE {<<"private_endpoint">>}

\* A resource with one endpoint at most.
OneEndpoint(c) == Lists(c, {"private_endpoints"}) /\ Len(c.private_endpoints) <= 1

\* Such a resource exports that key once, if at all.
LEMMA OnceEndpoints ==
    ASSUME NEW c, NEW target, OneEndpoint(c)
    PROVE  Once(PrivateEndpoints(c, target), EndpointKeys(c))
<1> DEFINE f == [i \in 1 .. Len(c.private_endpoints) |->
                   PrivateEndpointProgram(target, c.private_endpoints[i], TRUE)]
           key == <<"private_endpoint">>
<1>1. IsList(c.private_endpoints) /\ Len(c.private_endpoints) <= 1 /\ Len(c.private_endpoints) \in Nat
  BY ListLen DEF OneEndpoint, Lists
<1>2. ASSUME NEW has_zone PROVE Once(PrivateEndpointProgram(target, has_zone, TRUE), {key})
  <2> DEFINE front == <<PrivateEndpoint(target)>> \o When(has_zone, <<PrivateDnsZoneGroup(target)>>)
             component == <<PrivateEndpointComponent(target)>>
             export == <<Export(<<"private_endpoint">>)>>
  <2>1. /\ Mute(PrivateEndpointComponent(target)) /\ Mute(PrivateEndpoint(target))
        /\ Mute(PrivateDnsZoneGroup(target))
    BY MuteComponent, MuteNamed, MuteNaming
    DEF PrivateEndpointComponent, PrivateEndpoint, PrivateDnsZoneGroup
  <2>2. Silent(front) /\ Silent(component)
    BY <2>1, SilentOne, SilentWhen, SilentConcat
  <2>3. PrivateEndpointProgram(target, has_zone, TRUE) = component \o (front \o export)
    BY DEF PrivateEndpointProgram
  <2>4. Once(front \o export, {key})
    BY <2>2, SilentThenExport
  <2> HIDE DEF front, component, export, key
  <2> QED BY <2>2, <2>3, <2>4, SilentThenOnce
<1>3. PrivateEndpoints(c, target) = FlattenSeq(f)
  BY DEF PrivateEndpoints, ForEach
<1>4. f = [i \in 1 .. Len(c.private_endpoints) |-> f[i]]
      /\ \A i \in 1 .. Len(c.private_endpoints) : Once(f[i], {key})
  BY <1>2
<1>5. CASE Len(c.private_endpoints) = 0
  <2>1. \A i \in 1 .. Len(c.private_endpoints) : Once(f[i], {})
    BY <1>1, <1>5
  <2> HIDE DEF f
  <2>2. Once(FlattenSeq(f), {})
    BY <1>1, <1>4, <2>1, OnceOptional
  <2> QED BY <1>3, <1>5, <2>2 DEF EndpointKeys
<1>6. CASE Len(c.private_endpoints) # 0
  <2>1. EndpointKeys(c) = {key}
    BY <1>6 DEF EndpointKeys
  <2> HIDE DEF f, key
  <2>2. Once(FlattenSeq(f), {key})
    BY <1>1, <1>4, OnceOptional
  <2> QED BY <1>3, <2>1, <2>2
<1> QED BY <1>5, <1>6

\* The vault exports itself, and its endpoint.
LEMMA OnceKeyVault ==
    ASSUME NEW parent, NEW c, Lists(c, {"log_workspace"}), OneEndpoint(c)
    PROVE  Once(KeyVaultProgram(parent, c), {<<"keyvault">>} \cup EndpointKeys(c))
<1> DEFINE vault == Vault(parent, c)
           front == <<KeyVaultComponent(parent), vault>> \o Diagnostics(c, vault)
           export == <<Export(<<"keyvault">>)>>
<1>1. Mute(KeyVaultComponent(parent)) /\ Mute(vault)
  BY MuteComponent, MuteNamed DEF KeyVaultComponent, Vault
<1> HIDE DEF vault
<1>2. Silent(front)
  BY <1>1, SilentTwo, SilentDiagnostics, SilentConcat
<1>3. Once(front \o export, {<<"keyvault">>})
  BY <1>2, SilentThenExport
<1>4. {<<"keyvault">>} \cap EndpointKeys(c) = {}
  BY DEF EndpointKeys
<1>5. KeyVaultProgram(parent, c) = (front \o export) \o PrivateEndpoints(c, vault)
  BY DEF KeyVaultProgram, vault
<1> HIDE DEF front, export
<1> QED BY <1>3, <1>4, <1>5, OnceEndpoints, OnceConcat

\* The registry exports itself.
LEMMA OnceRegistry ==
    ASSUME NEW parent, NEW c
    PROVE  Once(ContainerRegistryProgram(parent, c), {<<"container_registry">>})
<1> DEFINE s == Fixed(Resource(parent, "Registry", c.name, {RG}), c.name)
           t == Export(<<"container_registry">>)
<1>1. Mute(s) /\ Once(<<t>>, {<<"container_registry">>}) /\ ContainerRegistryProgram(parent, c) = <<s, t>>
  BY MuteNamed, OnceExport DEF ContainerRegistryProgram
<1> HIDE DEF s, t
<1> QED BY <1>1, OneThenExport

\* The Event Hubs namespace exports itself and its endpoint.
LEMMA OnceEventHub ==
    ASSUME NEW parent, NEW c, Lists(c, {"hubs", "log_workspace"}), OneEndpoint(c)
    PROVE  Once(EventHubProgram(parent, c), {<<"eventhub">>} \cup EndpointKeys(c))
<1> DEFINE namespace == EhNamespace(parent)
           rules == Resource(EventHubComponent(parent), "eh.NetworkRuleSet", "w", {RG, namespace.urn})
           front == (<<EventHubComponent(parent), namespace>> \o Parts(namespace, "EventHub", c.hubs))
                    \o When(c.allowed_public_ips \/ c.allowed_subnet_ids, <<rules>>)
           export == <<Export(<<"eventhub">>)>>
<1>1. Mute(EventHubComponent(parent)) /\ Mute(namespace) /\ Mute(rules)
  BY MuteComponent, MuteResource DEF EventHubComponent, EhNamespace
<1>2. IsList(c.hubs) /\ Lists(c, {"log_workspace"})
  BY DEF Lists
<1>3. EventHubProgram(parent, c) =
        ((front \o PrivateEndpoints(c, namespace)) \o Diagnostics(c, namespace)) \o export
  BY DEF EventHubProgram
<1> HIDE DEF namespace, rules
<1>4. Silent(front)
  BY <1>1, <1>2, SilentParts, SilentOne, SilentTwo, SilentWhen, SilentConcat
<1>5. Once(export, {<<"eventhub">>}) /\ EndpointKeys(c) \cap {<<"eventhub">>} = {}
  BY OnceExport DEF EndpointKeys
<1> HIDE DEF front, export
<1>6. Once((front \o PrivateEndpoints(c, namespace)) \o Diagnostics(c, namespace), EndpointKeys(c))
  BY <1>2, <1>4, SilentDiagnostics, OnceEndpoints, SilentThenOnce, OnceThenSilent
<1>7. Once(EventHubProgram(parent, c), EndpointKeys(c) \cup {<<"eventhub">>})
  BY <1>3, <1>5, <1>6, OnceConcat
<1>8. EndpointKeys(c) \cup {<<"eventhub">>} = {<<"eventhub">>} \cup EndpointKeys(c)
  OBVIOUS
<1> QED BY <1>7, <1>8

\* The Service Bus namespace, with its endpoint.
LEMMA OnceServiceBus ==
    ASSUME NEW c, Lists(c, {"queues", "log_workspace"}), OneEndpoint(c)
    PROVE  Once(ServiceBusProgram(c), {<<"servicebus">>} \cup EndpointKeys(c))
<1> DEFINE namespace == SbNamespace(c)
           rules == Resource(namespace, "sb.NetworkRuleSet", "w", {RG, namespace.urn})
           queues == ForEach(c.queues, LAMBDA queue, i : <<SbQueue(c, queue)>>)
           front == <<ServiceBusComponent, namespace>> \o queues
           export == <<Export(<<"servicebus">>)>>
<1>1. Mute(ServiceBusComponent) /\ Mute(namespace) /\ Mute(rules)
  BY MuteComponent, MuteNamed DEF ServiceBusComponent, SbNamespace
<1>2. IsList(c.queues) /\ Lists(c, {"log_workspace"})
  BY DEF Lists
<1>3. \A queue : Mute(SbQueue(c, queue))
  <2>1. \A name : Mute(PartOf(namespace, "sb.Queue", name))
    BY MuteNamed DEF PartOf
  <2> HIDE DEF namespace
  <2> QED BY <2>1, MuteNaming DEF SbQueue, namespace
<1>4. Silent(queues)
  BY <1>2, <1>3, SilentOne, SilentAll DEF ForEach
<1>5. ServiceBusProgram(c) =
        (((front \o PrivateEndpoints(c, namespace)) \o Diagnostics(c, namespace))
         \o When(c.allowed_public_ips, <<rules>>)) \o export
  BY DEF ServiceBusProgram
<1> HIDE DEF namespace, rules, queues
<1>6. Silent(front) /\ Silent(When(c.allowed_public_ips, <<rules>>))
  BY <1>1, <1>4, SilentOne, SilentTwo, SilentWhen, SilentConcat
<1>7. Once(export, {<<"servicebus">>}) /\ EndpointKeys(c) \cap {<<"servicebus">>} = {}
  BY OnceExport DEF EndpointKeys
<1> HIDE DEF front, export
<1>8. Once(((front \o PrivateEndpoints(c, namespace)) \o Diagnostics(c, namespace))
           \o When(c.allowed_public_ips, <<rules>>), EndpointKeys(c))
  BY <1>2, <1>6, SilentDiagnostics, OnceEndpoints, SilentThenOnce, OnceThenSilent
<1>9. Once(ServiceBusProgram(c), EndpointKeys(c) \cup {<<"servicebus">>})
  <2> DEFINE all == ((front \o PrivateEndpoints(c, namespace)) \o Diagnostics(c, namespace))
                    \o When(c.allowed_public_ips, <<rules>>)
  <2>1. Once(all, EndpointKeys(c)) /\ ServiceBusProgram(c) = all \o export
    BY <1>5, <1>8
  <2> HIDE DEF all
  <2> QED BY <1>7, <2>1, OnceConcat
<1>10. EndpointKeys(c) \cup {<<"servicebus">>} = {<<"servicebus">>} \cup EndpointKeys(c)
  OBVIOUS
<1> QED BY <1>9, <1>10

\* An Event Grid domain, whose endpoints are never declared.
LEMMA OnceEventGrid ==
    ASSUME NEW c, Lists(c, {"topics", "azure_permissions", "log_workspace"})
    PROVE  Once(EventGridProgram(c), {<<"eventgrid_domain">>})
<1> DEFINE domain == EventGridDomain(c)
           topics == ForEach(c.topics, LAMBDA topic, i :
                       <<Beside(EventGridComponent, domain, "DomainTopic", topic)>>)
           roles == ForEach(c.azure_permissions, LAMBDA p, i :
                      <<RoleAssignment(domain, p.name_prefix \o <<c.name>>, p.role, domain.urn)>>)
           front == ((<<EventGridComponent, domain>> \o topics) \o roles) \o Diagnostics(c, domain)
           export == <<Export(<<"eventgrid_domain">>)>>
<1>1. Mute(EventGridComponent) /\ Mute(domain)
      /\ \A type, topic : Mute(Beside(EventGridComponent, domain, type, topic))
      /\ \A parent, prefix, role, principal : Mute(RoleAssignment(parent, prefix, role, principal))
  BY MuteComponent, MuteNamed DEF EventGridComponent, EventGridDomain, Beside, RoleAssignment
<1>2. IsList(c.topics) /\ IsList(c.azure_permissions) /\ Lists(c, {"log_workspace"})
  BY DEF Lists
<1>3. EventGridProgram(c) = front \o export
  BY DEF EventGridProgram
<1> HIDE DEF domain
<1>4. Silent(topics)
  BY <1>1, <1>2, SilentOne, SilentAll DEF ForEach
<1>5. Silent(roles)
  BY <1>1, <1>2, SilentOne, SilentAll DEF ForEach
<1> HIDE DEF topics, roles
<1>6. Silent(front)
  BY <1>1, <1>2, <1>4, <1>5, SilentDiagnostics, SilentTwo, SilentConcat
<1> HIDE DEF front
<1> QED BY <1>3, <1>6, SilentThenExport

\* A search service, with its endpoint.
LEMMA OnceSearch ==
    ASSUME NEW c, Lists(c, {"log_workspace"}), OneEndpoint(c)
    PROVE  Once(SearchProgram(c), {<<"search_service">>} \cup EndpointKeys(c))
<1> DEFINE front == <<SearchComponent, SearchService>>
           logs == ForEach(c.log_workspace,
                     LAMBDA refs, i : <<DiagnosticSetting(SearchComponent, SearchService, refs)>>)
           export == <<Export(<<"search_service">>)>>
<1>1. Silent(front)
  BY MuteComponent, MuteResource, SilentTwo DEF SearchComponent, SearchService
<1>2. Silent(logs)
  <2>1. IsList(c.log_workspace) /\ \A parent, r, refs : Mute(DiagnosticSetting(parent, r, refs))
    BY MuteResource DEF DiagnosticSetting, Lists
  <2> QED BY <2>1, SilentOne, SilentAll DEF ForEach
<1>3. SearchProgram(c) = ((front \o PrivateEndpoints(c, SearchService)) \o logs) \o export
  BY DEF SearchProgram
<1>4. Once(export, {<<"search_service">>}) /\ EndpointKeys(c) \cap {<<"search_service">>} = {}
  BY OnceExport DEF EndpointKeys
<1> HIDE DEF front, logs, export
<1>5. Once((front \o PrivateEndpoints(c, SearchService)) \o logs, EndpointKeys(c))
  BY <1>1, <1>2, OnceEndpoints, SilentThenOnce, OnceThenSilent
<1>6. Once(SearchProgram(c), EndpointKeys(c) \cup {<<"search_service">>})
  BY <1>3, <1>4, <1>5, OnceConcat
<1>7. EndpointKeys(c) \cup {<<"search_service">>} = {<<"search_service">>} \cup EndpointKeys(c)
  OBVIOUS
<1> QED BY <1>6, <1>7

\* What is put after a prefix is another key than what is put after another.
LEMMA KeysApart ==
    ASSUME NEW S, NEW p \in Seq(S), NEW q \in Seq(S), Len(p) = Len(q), p # q, NEW key \in S
    PROVE  p \o <<key>> # q \o <<key>>
<1>1. <<key>> \in Seq(S) /\ Len(p) \in Nat
  BY LenProperties
<1>2. PICK i \in 1 .. Len(p) : p[i] # q[i]
  BY <1>1, SeqEqual
<1>3. (p \o <<key>>)[i] = p[i] /\ (q \o <<key>>)[i] = q[i]
  BY <1>1, <1>2, ConcatProperties
<1> QED BY <1>2, <1>3

\* A storage account exports itself under its prefix; its endpoints raise.
LEMMA OnceStorage ==
    ASSUME NEW parent, NEW c, StorageConfiguration(c)
    PROVE  Once(StorageProgram(parent, c), {c.exports_prefix \o <<"storage_account">>})
<1> DEFINE account == StorageAccount(parent, c.name)
           key == c.exports_prefix \o <<"storage_account">>
           secure == When(c.file_shares # <<>> /\ c.smb_secure_defaults, <<FileShareSecurity(parent, account)>>)
           front == ((((((<<StorageComponent(parent), account>>
                    \o Parts(account, "BlobContainer", c.storage_containers))
                    \o Parts(account, "Table", c.storage_tables))
                    \o Parts(account, "Queue", c.storage_queues))
                    \o secure)
                    \o Parts(account, "FileShare", c.file_shares))
                    \o SftpUsers(c, account))
                    \o StorageEndpoints(c)
<1>1. Mute(StorageComponent(parent)) /\ Mute(account) /\ \A a : Mute(FileShareSecurity(parent, a))
  <2> DEFINE named(n) == Resource(StorageComponent(parent), "StorageAccount", n, {RG})
  <2>1. \A n, m : Mute(named(n)) /\ Mute(Fixed(named(n), m))
    BY MuteNamed
  <2>2. account = IF c.name = "" THEN named("w") ELSE Fixed(named(c.name), c.name)
    BY DEF StorageAccount
  <2> HIDE DEF named, account
  <2> QED BY <2>1, <2>2, MuteComponent, MuteResource DEF StorageComponent, FileShareSecurity
<1>2. /\ IsList(c.private_endpoints) /\ \A i \in 1 .. Len(c.private_endpoints) : IsList(c.private_endpoints[i])
      /\ IsList(c.sftp_users) /\ \A i \in 1 .. Len(c.sftp_users) : IsList(c.sftp_users[i].containers)
      /\ IsList(c.storage_containers) /\ IsList(c.storage_tables) /\ IsList(c.storage_queues) /\ IsList(c.file_shares)
  BY ListLen DEF StorageConfiguration, Lists
<1>3. Silent(StorageEndpoints(c))
  <2>1. ASSUME NEW sub_types, IsList(sub_types) PROVE Silent(ForEach(sub_types, LAMBDA t, k : Raise))
    BY <2>1, SilentRaise, SilentAll DEF ForEach
  <2> DEFINE f == [i \in 1 .. Len(c.private_endpoints) |->
                     ForEach(c.private_endpoints[i], LAMBDA t, k : Raise)]
  <2>2. StorageEndpoints(c) = FlattenSeq(f)
    BY DEF StorageEndpoints, ForEach
  <2>3. f = [i \in 1 .. Len(c.private_endpoints) |-> f[i]]
        /\ \A i \in 1 .. Len(c.private_endpoints) : Silent(f[i])
    BY <1>2, <2>1
  <2> HIDE DEF f
  <2> QED BY <1>2, <2>2, <2>3, SilentAll
<1>4. StorageProgram(parent, c) = front \o <<Export(key)>>
  BY DEF StorageProgram
<1> HIDE DEF account
<1>5. Silent(SftpUsers(c, account))
  <2> DEFINE containers == ToSet(Parts(account, "BlobContainer", c.storage_containers))
             user(u, container) ==
               Fixed(Resource(account, "LocalUser", <<"sftp", container, u>>, {RG, account.urn}),
                     <<account.urn[3], u>>)
             named(container) == {PartOf(account, "BlobContainer", container).urn}
             local(u, container) == DependsOn(Naming(user(u, container), named(container)), Urns(containers))
             OfUser(u) == ForEach(u.containers, LAMBDA container, k :
                IF container \notin ToSet(c.storage_containers) THEN Raise
                ELSE <<local(u.username, container)>>)
             f == [i \in 1 .. Len(c.sftp_users) |-> OfUser(c.sftp_users[i])]
  <2>1. \A u, container : Mute(user(u, container))
    BY MuteNamed
  <2>2. SftpUsers(c, account) = FlattenSeq(f)
    BY DEF SftpUsers, ForEach
  <2> HIDE DEF containers, user, named
  <2>3. \A u, container : Mute(local(u, container))
    BY <2>1, MuteNaming, MuteDependsOn
  <2> HIDE DEF local
  <2>4. ASSUME NEW u, IsList(u.containers) PROVE Silent(OfUser(u))
    BY <2>3, <2>4, SilentRaise, SilentOne, SilentAll DEF ForEach
  <2> HIDE DEF OfUser
  <2>5. f = [i \in 1 .. Len(c.sftp_users) |-> f[i]] /\ \A i \in 1 .. Len(c.sftp_users) : Silent(f[i])
    BY <1>2, <2>4
  <2> HIDE DEF f
  <2> QED BY <1>2, <2>2, <2>5, SilentAll
<1>6. Silent(secure)
  BY <1>1, SilentOne, SilentWhen
<1> HIDE DEF secure, key
<1>7. Silent(front)
  BY <1>1, <1>2, <1>3, <1>5, <1>6, SilentParts, SilentTwo, SilentConcat
<1> HIDE DEF front
<1>8. Once(StorageProgram(parent, c), {key})
  BY <1>4, <1>7, SilentThenExport
<1> QED BY <1>8 DEF key

\* An application that is told to export does so under its prefix.
LEMMA OnceEntraApp ==
    ASSUME NEW c, EntraConfiguration(c)
    PROVE  Once(EntraAppProgram(c), {c.exports_prefix \o <<"entra_app">>})
<1> DEFINE key == c.exports_prefix \o <<"entra_app">>
           roles == ForEach(c.app_roles, LAMBDA role, i : <<AppRoleId(c, role)>>)
           scopes == ForEach(c.oauth2_scopes, LAMBDA scope, i : <<ScopeId(scope)>>)
           front == (((((<<EntraComponent(c.name)>> \o roles) \o scopes)
                    \o <<EntraApplication(c), ServicePrincipal(c)>>)
                    \o ClientCredentials(c))
                    \o FederatedCredentials(c))
                    \o EntraRoles(c)
<1>1. /\ Mute(EntraComponent(c.name)) /\ Mute(EntraApplication(c)) /\ Mute(ServicePrincipal(c))
      /\ \A role : Mute(AppRoleId(c, role))
      /\ \A scope : Mute(ScopeId(scope))
  BY MuteComponent, MuteResource DEF EntraComponent, EntraApplication, ServicePrincipal, AppRoleId, ScopeId
<1>2. /\ IsList(c.app_roles) /\ IsList(c.oauth2_scopes) /\ IsList(c.client_credentials)
      /\ IsList(c.federated_credentials) /\ IsList(c.entra_roles)
  BY DEF EntraConfiguration, Lists
<1>3. Silent(roles) /\ Silent(scopes)
  BY <1>1, <1>2, SilentOne, SilentAll DEF ForEach
<1>4. Silent(ClientCredentials(c))
  BY <1>2, MuteResource, SilentTwo, SilentAll DEF ClientCredentials, ForEach
<1>5. Silent(FederatedCredentials(c)) /\ Silent(EntraRoles(c))
  BY <1>2, MuteResource, SilentOne, SilentAll DEF FederatedCredentials, EntraRoles, ForEach
<1>6. EntraAppProgram(c) = front \o When(~c.skip_exports, <<Export(key)>>)
  BY DEF EntraAppProgram
<1>7. Once(When(~c.skip_exports, <<Export(key)>>), {key})
  BY OnceExport, OnceWhen
<1> HIDE DEF roles, scopes, key
<1>8. Silent(front)
  BY <1>1, <1>3, <1>4, <1>5, SilentOne, SilentTwo, SilentConcat
<1> HIDE DEF front
<1>9. Once(EntraAppProgram(c), {key})
  BY <1>6, <1>7, <1>8, SilentThenOnce
<1> QED BY <1>9 DEF key

\* The roles of an application's principal export nothing.
LEMMA SilentPrincipalPermissions ==
    ASSUME NEW app, NEW permissions, IsList(permissions)
    PROVE  Silent(PrincipalPermissions(app, permissions))
<1> DEFINE s(p) == RoleAssignment(ServicePrincipal(app),
                     IF p.name_prefix = <<>> THEN <<"w">> ELSE p.name_prefix,
                     p.role, ServicePrincipal(app).urn)
           f == [i \in 1 .. Len(permissions) |-> <<s(permissions[i])>>]
<1>1. \A p : Mute(s(p))
  BY MuteResource DEF RoleAssignment
<1>2. PrincipalPermissions(app, permissions) = FlattenSeq(f)
  BY DEF PrincipalPermissions, ForEach
<1> HIDE DEF s
<1>3. f = [i \in 1 .. Len(permissions) |-> f[i]] /\ \A i \in 1 .. Len(permissions) : Silent(f[i])
  BY <1>1, SilentOne
<1> HIDE DEF f
<1> QED BY <1>2, <1>3, SilentAll

\* The key of a workload identity.
IdentityKey(credential) == <<credential.credential_type>> \o <<"entra_app">>

\* Workload identities of different kinds export different keys.
LEMMA OnceWorkloadIdentities ==
    ASSUME NEW credentials, IsList(credentials),
           \A credential \in ToSet(credentials) : CredentialConfiguration(credential),
           \A i, j \in 1 .. Len(credentials) :
               i # j => credentials[i].credential_type # credentials[j].credential_type
    PROVE  Once(WorkloadIdentities(credentials), {IdentityKey(credential) : credential \in ToSet(credentials)})
<1> DEFINE Identity(credential) ==
             EntraAppProgram(WorkloadIdentity(credential))
             \o PrincipalPermissions(WorkloadIdentity(credential), credential.permissions)
           f == [i \in 1 .. Len(credentials) |-> Identity(credentials[i])]
           K == [i \in 1 .. Len(credentials) |-> {IdentityKey(credentials[i])}]
<1>1. ASSUME NEW credential, CredentialConfiguration(credential)
      PROVE  Once(Identity(credential), {IdentityKey(credential)})
  <2> DEFINE app == WorkloadIdentity(credential)
             roles == PrincipalPermissions(app, credential.permissions)
  <2>1. EntraConfiguration(app) /\ app.exports_prefix = <<credential.credential_type>>
    <3>1. IsList(<<>>) /\ IsList(Credentials(credential))
      BY <1>1, PlainEmpty, CredentialsAreList DEF PlainProgram
    <3> QED BY <3>1 DEF WorkloadIdentity, EntraConfiguration, Lists
  <2>2. IsList(credential.permissions)
    BY <1>1 DEF CredentialConfiguration, Lists
  <2> HIDE DEF app
  <2>3. Silent(roles)
    BY <2>2, SilentPrincipalPermissions
  <2>4. Once(EntraAppProgram(app), {IdentityKey(credential)})
    BY <2>1, OnceEntraApp DEF IdentityKey
  <2> HIDE DEF roles
  <2>5. Once(EntraAppProgram(app) \o roles, {IdentityKey(credential)})
    BY <2>3, <2>4, OnceThenSilent
  <2> QED BY <2>5 DEF app, roles
<1>2. \A i \in 1 .. Len(credentials) : CredentialConfiguration(credentials[i])
  BY ListLen
<1> DEFINE valid == \A credential \in ToSet(credentials) :
                      credential.credential_type = "github" => ValidGitHub(credential)
<1>3. WorkloadIdentities(credentials) = Validated(valid, FlattenSeq(f))
  BY DEF WorkloadIdentities, ForEach
<1> HIDE DEF valid
<1> HIDE DEF Identity
<1>4. /\ f = [i \in 1 .. Len(credentials) |-> f[i]]
      /\ \A i \in 1 .. Len(credentials) : Once(f[i], K[i])
  BY <1>1, <1>2
<1>5. \A i, j \in 1 .. Len(credentials) : i # j => K[i] \cap K[j] = {}
  <2>1. ASSUME NEW i \in 1 .. Len(credentials), NEW j \in 1 .. Len(credentials), i # j
        PROVE  IdentityKey(credentials[i]) # IdentityKey(credentials[j])
    <3> DEFINE a == credentials[i].credential_type
               b == credentials[j].credential_type
               S == {a, b, "entra_app"}
    <3>1. a # b /\ <<a>> \in Seq(S) /\ <<b>> \in Seq(S) /\ Len(<<a>>) = Len(<<b>>) /\ "entra_app" \in S
      BY <2>1
    <3>2. <<a>>[1] = a /\ <<b>>[1] = b
      OBVIOUS
    <3>3. <<a>> # <<b>>
      BY <3>1, <3>2
    <3> HIDE DEF a, b, S
    <3>4. <<a>> \o <<"entra_app">> # <<b>> \o <<"entra_app">>
      BY <3>1, <3>3, KeysApart
    <3> QED BY <3>4 DEF IdentityKey, a, b
  <2> QED BY <2>1
<1>6. UNION {K[i] : i \in 1 .. Len(credentials)} \subseteq {IdentityKey(credential) : credential \in ToSet(credentials)}
  <2>1. \A i \in 1 .. Len(credentials) : credentials[i] \in ToSet(credentials)
    BY ListLen
  <2> QED BY <2>1
<1> HIDE DEF f, K
<1>7. Once(FlattenSeq(f), UNION {K[i] : i \in 1 .. Len(credentials)})
  BY <1>4, <1>5, OnceAll
<1>8. Once(FlattenSeq(f), {IdentityKey(credential) : credential \in ToSet(credentials)})
  BY <1>6, <1>7, OnceMore
<1> QED BY <1>3, <1>8, OnceValidated

\* The accounts of an environment's managed storages: no two of one name, one URN
\* that would be declared twice.
StoragesApart(c) ==
    \A i, j \in 1 .. Len(c.storage) : i # j => c.storage[i].name # c.storage[j].name

\* The key of such an account.
ManagedKey(managed) == <<"cae_storage", managed.name>> \o <<"storage_account">>

\* What an environment exports: itself, the records' zone if it has a domain, and the
\* accounts it manages.
EnvKeys(c) ==
    {<<"containerapp_env">>, <<"dns_zone">>} \cup {ManagedKey(managed) : managed \in ToSet(c.storage)}

\* An environment of container apps exports nothing twice, with any number of shares.
LEMMA OnceContainerAppEnv ==
    ASSUME NEW parent, NEW c, EnvConfiguration(c), StoragesApart(c)
    PROVE  Once(ContainerAppEnvProgram(parent, c), EnvKeys(c))
<1> DEFINE M == {ManagedKey(managed) : managed \in ToSet(c.storage)}
           environment == ManagedEnvironment(parent, c)
           front == <<EnvComponent(parent), environment>>
           records == EnvDnsRecords(parent, c)
           certificates == EnvCertificates(parent, c)
           accounts == EnvStorageAccounts(parent, c)
           storages == EnvStorages(parent, c)
           logs == Diagnostics(c, environment)
           export == <<Export(<<"containerapp_env">>)>>
<1>1. Silent(front)
  <2>1. Mute(EnvComponent(parent)) /\ Mute(ManagedEnvironment(parent, c))
    BY MuteComponent, MuteNamed DEF EnvComponent, ManagedEnvironment
  <2> QED BY <2>1, SilentTwo
<1>2. Once(records, {<<"dns_zone">>})
  <2> DEFINE urn == ManagedEnvironment(parent, c).urn
             record(type, name) == [type |-> type, name |-> name, refs |-> {urn}]
             all == <<record("A", <<"*">>), record("TXT", <<"asuid">>), record("TXT", <<"*">>)>>
             zone == [ name |-> c.custom_domain[1].name, group |-> c.custom_domain[1].group, existing |-> TRUE,
                       records |-> all, parent_zone |-> FALSE, enable_dnssec |-> FALSE,
                       skip_exports |-> c.custom_domain[1].group # "" ]
  <2>1. Lists(zone, {"records"})
    <3>1. all \in Seq({record("A", <<"*">>), record("TXT", <<"asuid">>), record("TXT", <<"*">>)})
      <4> HIDE DEF record
      <4> QED OBVIOUS
    <3>2. zone.records = all /\ "records" \in DOMAIN zone
      OBVIOUS
    <3> HIDE DEF all, zone
    <3> QED BY <3>1, <3>2, ListSet DEF Lists
  <2>2. records = When(c.custom_domain # <<>>,
             When(c.custom_domain[1].zone, DnsZoneProgram(EnvComponent(parent), zone)))
    BY DEF EnvDnsRecords
  <2> HIDE DEF zone, records
  <2>3. Once(DnsZoneProgram(EnvComponent(parent), zone), {<<"dns_zone">>})
    BY <2>1, OnceDnsZone
  <2> QED BY <2>2, <2>3, OnceWhen
<1>3. Silent(certificates)
  <2> DEFINE own == c.custom_domain[1].name
             names == c.certificates \o
                      When(c.custom_domain # <<>>, When(own \notin ToSet(c.certificates), <<own>>))
             f == [i \in 1 .. Len(names) |->
                     <<Fixed(Resource(EnvComponent(parent), "Certificate", FmtName(names[i]),
                                      {RG, ManagedEnvironment(parent, c).urn}), names[i])>>]
  <2>1. IsList(names)
    <3>1. IsList(<<>>) /\ IsList(<<own>>)
      BY DEF IsList, ToSet
    <3>2. IsList(c.certificates)
      BY DEF EnvConfiguration, Lists
    <3> HIDE DEF own
    <3> QED BY <3>1, <3>2, ConcatLists DEF When
  <2>2. certificates = FlattenSeq(f)
    BY DEF EnvCertificates, ForEach
  <2> HIDE DEF names, certificates
  <2>3. f = [i \in 1 .. Len(names) |-> f[i]] /\ \A i \in 1 .. Len(names) : Silent(f[i])
    BY MuteNamed, SilentOne
  <2> HIDE DEF f
  <2> QED BY <2>1, <2>2, <2>3, SilentAll
<1>4. IsList(c.storage) /\ \A i \in 1 .. Len(c.storage) : IsList(c.storage[i].file_shares)
  BY ListLen DEF EnvConfiguration, Lists
<1>5. Once(accounts, M)
  <2> DEFINE Account(managed) == StorageProgram(environment, ManagedStorageConfig(managed))
             f == [i \in 1 .. Len(c.storage) |-> Account(c.storage[i])]
             K == [i \in 1 .. Len(c.storage) |-> {ManagedKey(c.storage[i])}]
  <2>1. ASSUME NEW managed, IsList(managed.file_shares)
        PROVE  Once(Account(managed), {ManagedKey(managed)})
    <3>1. IsList(<<>>) /\ ToSet(<<>>) = {}
      BY PlainEmpty DEF PlainProgram, ToSet
    <3> DEFINE d == ManagedStorageConfig(managed)
    <3>2. StorageConfiguration(d) /\ d.exports_prefix = <<"cae_storage", managed.name>>
      BY <2>1, <3>1 DEF ManagedStorageConfig, StorageConfiguration, Lists
    <3> HIDE DEF d, environment
    <3>3. Once(StorageProgram(environment, d), {ManagedKey(managed)})
      BY <3>2, OnceStorage DEF ManagedKey
    <3> QED BY <3>3 DEF d
  <2>2. accounts = FlattenSeq(f)
    BY DEF EnvStorageAccounts, ForEach
  <2> HIDE DEF Account, environment, accounts
  <2>3. /\ f = [i \in 1 .. Len(c.storage) |-> f[i]]
        /\ \A i \in 1 .. Len(c.storage) : Once(f[i], K[i])
    BY <1>4, <2>1
  <2>4. \A i, j \in 1 .. Len(c.storage) : i # j => K[i] \cap K[j] = {}
    <3>1. ASSUME NEW i \in 1 .. Len(c.storage), NEW j \in 1 .. Len(c.storage), i # j
          PROVE  ManagedKey(c.storage[i]) # ManagedKey(c.storage[j])
      <4> DEFINE a == c.storage[i].name
                 b == c.storage[j].name
                 p == <<"cae_storage", a>>
                 q == <<"cae_storage", b>>
                 S == {a, b, "cae_storage", "storage_account"}
      <4>1. a # b
        BY <3>1 DEF StoragesApart
      <4> HIDE DEF a, b
      <4>2. p \in Seq(S) /\ q \in Seq(S) /\ Len(p) = Len(q) /\ "storage_account" \in S
        OBVIOUS
      <4>3. p # q
        BY <4>1
      <4> HIDE DEF p, q, S
      <4>4. p \o <<"storage_account">> # q \o <<"storage_account">>
        BY <4>2, <4>3, KeysApart
      <4> QED BY <4>4 DEF ManagedKey, p, q, a, b
    <3> QED BY <3>1
  <2>5. UNION {K[i] : i \in 1 .. Len(c.storage)} \subseteq M
    <3>1. \A i \in 1 .. Len(c.storage) : c.storage[i] \in ToSet(c.storage)
      BY <1>4, ListLen
    <3> QED BY <3>1
  <2> HIDE DEF f, K, M
  <2>6. Once(FlattenSeq(f), UNION {K[i] : i \in 1 .. Len(c.storage)})
    <3> DEFINE list == c.storage
    <3>1. /\ IsList(list) /\ f = [i \in 1 .. Len(list) |-> f[i]]
          /\ \A i \in 1 .. Len(list) : Once(f[i], K[i])
          /\ \A i, j \in 1 .. Len(list) : i # j => K[i] \cap K[j] = {}
      BY <1>4, <2>3, <2>4
    <3> HIDE DEF list
    <3>2. Once(FlattenSeq(f), UNION {K[i] : i \in 1 .. Len(list)})
      BY <3>1, OnceAll
    <3> QED BY <3>2 DEF list
  <2> QED BY <2>2, <2>5, <2>6, OnceMore
<1>6. Silent(storages)
  <2> DEFINE account(managed) == StorageAccount(environment, managed.prefix)
             resource(managed, share) ==
               Fixed(Resource(environment, "ManagedEnvironmentsStorage", <<managed.name, share>>,
                              {RG, environment.urn, account(managed).urn}), <<"w", managed.name, share>>)
             named(managed, share) == {PartOf(account(managed), "FileShare", share).urn}
             waits(managed) == Members(StorageComponent(environment),
                                       StorageProgram(environment, ManagedStorageConfig(managed)))
             OfStorage(managed) == ForEach(managed.file_shares,
                                     LAMBDA share, k : <<EnvStorage(parent, c, managed, share)>>)
             f == [i \in 1 .. Len(c.storage) |-> OfStorage(c.storage[i])]
  <2>1. \A managed, share : EnvStorage(parent, c, managed, share)
                              = DependsOn(Naming(resource(managed, share), named(managed, share)), waits(managed))
    BY DEF EnvStorage
  <2>2. \A managed, share : Mute(resource(managed, share))
    BY MuteNamed
  <2>3. storages = FlattenSeq(f)
    BY DEF EnvStorages, ForEach
  <2> HIDE DEF resource, named, waits, environment, storages
  <2>4. \A managed, share : Mute(EnvStorage(parent, c, managed, share))
    BY <2>1, <2>2, MuteNaming, MuteDependsOn
  <2>5. ASSUME NEW managed, IsList(managed.file_shares) PROVE Silent(OfStorage(managed))
    BY <2>4, <2>5, SilentOne, SilentAll DEF ForEach
  <2> HIDE DEF OfStorage
  <2>6. f = [i \in 1 .. Len(c.storage) |-> f[i]] /\ \A i \in 1 .. Len(c.storage) : Silent(f[i])
    BY <1>4, <2>5
  <2> HIDE DEF f
  <2> QED BY <1>4, <2>3, <2>6, SilentAll
<1>7. Silent(logs)
  <2>1. Lists(c, {"log_workspace"})
    BY DEF EnvConfiguration, Lists
  <2> QED BY <2>1, SilentDiagnostics
<1>8. ContainerAppEnvProgram(parent, c) =
        Validated(c.zone_redundant => c.subnet,
          (((((front \o records) \o certificates) \o accounts) \o storages) \o logs) \o export)
  BY DEF ContainerAppEnvProgram
<1>9. /\ {<<"dns_zone">>} \cap M = {} /\ ({<<"dns_zone">>} \cup M) \cap {<<"containerapp_env">>} = {}
      /\ ({<<"dns_zone">>} \cup M) \cup {<<"containerapp_env">>} = EnvKeys(c)
  <2>1. ASSUME NEW name PROVE Len(<<"cae_storage", name>> \o <<"storage_account">>) = 3
    <3> DEFINE S == {"cae_storage", name, "storage_account"}
               p == <<"cae_storage", name>>
               q == <<"storage_account">>
    <3>1. p \in Seq(S) /\ q \in Seq(S) /\ Len(p) = 2 /\ Len(q) = 1
      OBVIOUS
    <3> HIDE DEF S, p, q
    <3>2. Len(p \o q) = Len(p) + Len(q)
      BY <3>1, ConcatProperties
    <3>3. Len(p \o q) = 3
      BY <3>1, <3>2
    <3> QED BY <3>3 DEF p, q
  <2>2. <<"dns_zone">> # <<"containerapp_env">> /\ Len(<<"dns_zone">>) = 1 /\ Len(<<"containerapp_env">>) = 1
    OBVIOUS
  <2>3. <<"dns_zone">> \notin M /\ <<"containerapp_env">> \notin M
    BY <2>1, <2>2 DEF ManagedKey
  <2>4. EnvKeys(c) = {<<"containerapp_env">>, <<"dns_zone">>} \cup M
    BY DEF EnvKeys
  <2> HIDE DEF M
  <2> QED BY <2>2, <2>3, <2>4
<1>10. Once(export, {<<"containerapp_env">>})
  BY OnceExport
<1> DEFINE dns == {<<"dns_zone">>}
           self == {<<"containerapp_env">>}
<1> HIDE DEF M, front, records, certificates, accounts, storages, logs, export, dns, self
<1>11. Once(((front \o records) \o certificates) \o accounts, dns \cup M)
  BY <1>1, <1>2, <1>3, <1>5, <1>9, SilentThenOnce, OnceThenSilent, OnceConcat DEF dns
<1>12. Once(((((front \o records) \o certificates) \o accounts) \o storages) \o logs, dns \cup M)
  BY <1>6, <1>7, <1>11, OnceThenSilent
<1> DEFINE all == ((((front \o records) \o certificates) \o accounts) \o storages) \o logs
           valid == c.zone_redundant => c.subnet
<1>13. Once(all, dns \cup M) /\ ContainerAppEnvProgram(parent, c) = Validated(valid, all \o export)
  BY <1>8, <1>12
<1> HIDE DEF all, valid
<1>14. Once(all \o export, EnvKeys(c))
  BY <1>9, <1>10, <1>13, OnceConcat DEF dns, self
<1> QED BY <1>13, <1>14, OnceValidated

-----------------------------------------------------------------------------
(* What the zones export *)

\* Four programs with keys of their own.
LEMMA OnceFour ==
    ASSUME NEW p, NEW q, NEW r, NEW s, NEW K, NEW L, NEW M, NEW N,
           Once(p, K), Once(q, L), Once(r, M), Once(s, N),
           K \cap L = {}, K \cap M = {}, K \cap N = {}, L \cap M = {}, L \cap N = {}, M \cap N = {}
    PROVE  Once(((p \o q) \o r) \o s, ((K \cup L) \cup M) \cup N)
<1>1. Once(p \o q, K \cup L)
  BY OnceConcat
<1>2. (K \cup L) \cap M = {} /\ ((K \cup L) \cup M) \cap N = {}
  OBVIOUS
<1>3. Once((p \o q) \o r, (K \cup L) \cup M)
  BY <1>1, <1>2, OnceConcat
<1> QED BY <1>2, <1>3, OnceConcat

\* A workspace exports itself.
LEMMA OnceLogWorkspace == Once(LogWorkspaceProgram(ResourceGroup), {<<"log_workspace">>})
<1> DEFINE s == LogWorkspace(ResourceGroup)
           t == Export(<<"log_workspace">>)
<1>1. LogWorkspaceProgram(ResourceGroup) = <<s, t>> /\ Mute(s) /\ Once(<<t>>, {<<"log_workspace">>})
  BY MuteResource, OnceExport DEF LogWorkspaceProgram, LogWorkspace
<1> HIDE DEF s, t
<1> QED BY <1>1, OneThenExport

\* An ACME certificate exports itself, and not its secret.
LEMMA OnceAcme ==
    ASSUME NEW zone, NEW zones, NEW vault
    PROVE  Once(AcmeProgram(zone, zones, <<vault>>), {<<"certificate">>})
<1> DEFINE certificate == AcmeCertificate(zone, zones)
           a == AcmeComponent
           b == RandomPlus
           c == AcmeProvider(zone)
           d == RandomPassword(AcmeComponent, <<"pfx", zone>>)
           e == AcmeKey
           g == AcmeRegistration(zone)
           seven == <<a, b, c, d, e, g, certificate>>
           secret(refs) == SecretProgram(certificate, <<"cert", zone>>, refs, {certificate.urn})
           list == <<vault>>
           f == [i \in 1 .. Len(list) |-> secret(list[i])]
<1>1. Mute(a) /\ Mute(b) /\ Mute(c) /\ Mute(d) /\ Mute(e) /\ Mute(g)
  BY MuteComponent, MuteResource
  DEF AcmeComponent, RandomPlus, AcmeProvider, RandomPassword, AcmeKey, AcmeRegistration
<1>2. Mute(certificate)
  <2> DEFINE s == Resource(AcmeRegistration(zone), "acme.Certificate", zone,
                    {AcmeRegistration(zone).urn, AcmeProvider(zone).urn,
                     RandomPassword(AcmeComponent, <<"pfx", zone>>).urn})
  <2>1. certificate = Naming(s, zones) /\ Mute(s)
    BY MuteResource DEF AcmeCertificate
  <2> HIDE DEF s
  <2> QED BY <2>1, MuteNaming
<1>3. AcmeProgram(zone, zones, list) = (seven \o FlattenSeq(f)) \o <<Export(<<"certificate">>)>>
  BY DEF AcmeProgram, ForEach
<1> HIDE DEF certificate, a, b, c, d, e, g
<1>4. Silent(seven)
  <2>1. /\ seven \in Seq({a, b, c, d, e, g, certificate}) /\ Len(seven) = 7
        /\ seven[1] = a /\ seven[2] = b /\ seven[3] = c /\ seven[4] = d /\ seven[5] = e
        /\ seven[6] = g /\ seven[7] = certificate
    OBVIOUS
  <2> HIDE DEF seven
  <2>2. \A i \in 1 .. 7 : i = 1 \/ i = 2 \/ i = 3 \/ i = 4 \/ i = 5 \/ i = 6 \/ i = 7
    OBVIOUS
  <2>3. \A i \in 1 .. Len(seven) : Mute(seven[i])
    BY <1>1, <1>2, <2>1, <2>2
  <2> QED BY <2>1, <2>3, SilentAt
<1>5. \A refs : Silent(secret(refs))
  BY MuteNamed, SilentTwo DEF SecretProgram, VaultReference
<1>6. IsList(list)
  BY DEF IsList, ToSet
<1> HIDE DEF secret, list
<1>7. f = [i \in 1 .. Len(list) |-> f[i]] /\ \A i \in 1 .. Len(list) : Silent(f[i])
  BY <1>5
<1> HIDE DEF f, seven
<1>8. Silent(seven \o FlattenSeq(f))
  BY <1>4, <1>6, <1>7, SilentAll, SilentConcat
<1>9. Once(AcmeProgram(zone, zones, list), {<<"certificate">>})
  BY <1>3, <1>8, SilentThenExport
<1> QED BY <1>9 DEF list

\* Giving a configuration a workspace leaves its endpoints alone.
LEMMA EndpointsLogging ==
    ASSUME NEW c, NEW refs, OneEndpoint(c)
    PROVE  OneEndpoint(LoggingTo(refs, c)) /\ EndpointKeys(LoggingTo(refs, c)) = EndpointKeys(c)
<1> DEFINE l == LoggingTo(refs, c)
<1>1. Lists(l, {"private_endpoints"}) /\ l.private_endpoints = c.private_endpoints
  BY ListsLogging DEF OneEndpoint, LoggingTo, Lists
<1> HIDE DEF l
<1>2. OneEndpoint(l) /\ EndpointKeys(l) = EndpointKeys(c)
  BY <1>1 DEF OneEndpoint, EndpointKeys
<1> QED BY <1>2 DEF l

\* Of two resources one at most has an endpoint.
EndpointsApart(c, d) == Len(c.private_endpoints) = 0 \/ Len(d.private_endpoints) = 0

\* Then they do not share the endpoints' key.
LEMMA EndpointKeysApart ==
    ASSUME NEW c, NEW d, EndpointsApart(c, d)
    PROVE  EndpointKeys(c) \cap EndpointKeys(d) = {}
  BY DEF EndpointsApart, EndpointKeys

\* The endpoints' keys of a list of configurations.
EndpointsOf(configs) == UNION {EndpointKeys(c) : c \in ToSet(configs)}

\* They are the one key, or none.
LEMMA EndpointsOfOne ==
    ASSUME NEW configs
    PROVE  EndpointsOf(configs) \subseteq {<<"private_endpoint">>}
  BY DEF EndpointsOf, EndpointKeys

\* Kinds of credentials, one of each.
KindsApart(credentials) ==
    \A i, j \in 1 .. Len(credentials) :
        i # j => credentials[i].credential_type # credentials[j].credential_type

\* A key of two words is not one of one.
LEMMA KeyOfTwo ==
    ASSUME NEW a, NEW b, NEW word
    PROVE  <<a>> \o <<b>> # <<word>>
<1> DEFINE S == {a, b}
           p == <<a>>
           q == <<b>>
           w == <<word>>
<1>1. p \in Seq(S) /\ q \in Seq(S) /\ Len(p) = 1 /\ Len(q) = 1 /\ Len(w) = 1
  OBVIOUS
<1> HIDE DEF S, p, q, w
<1>2. Len(p \o q) = Len(p) + Len(q)
  BY <1>1, ConcatProperties
<1>3. p \o q # w
  BY <1>1, <1>2
<1> QED BY <1>3 DEF p, q, w

\* A landing zone whose outputs have keys of their own: one part of each kind, one
\* private endpoint altogether.
LandingOutputsApart(c) ==
    /\ Len(c.dns_zone) <= 1 /\ Len(c.container_registry) <= 1 /\ Len(c.eventhub) <= 1
    /\ Len(c.eventgrid_domain) <= 1 /\ Len(c.search_service) <= 1
    /\ KindsApart(c.workload_identities)
    /\ c.has_keyvault => OneEndpoint(c.keyvault)
    /\ \A e \in ToSet(c.eventhub) \cup ToSet(c.search_service) :
           OneEndpoint(e) /\ (c.has_keyvault => EndpointsApart(c.keyvault, e))
    /\ \A e \in ToSet(c.eventhub), s \in ToSet(c.search_service) : EndpointsApart(e, s)

\* deploy_landing_zone, for any such configuration, with a certificate or without.
LEMMA OnceLandingZone ==
    ASSUME NEW c, LandingZoneConfiguration(c), LandingOutputsApart(c)
    PROVE  \E K : Once(LandingZoneProgram(c), K)
<1> DEFINE logs == LogWorkspaceProgram(ResourceGroup)
           vault == When(c.has_keyvault, KeyVaultProgram(ResourceGroup, LoggingTo({Logs}, c.keyvault)))
           Zone(zone) == DnsZoneProgram(ResourceGroup, zone)
                         \o When(c.acme_ssl,
                              IF ~c.has_keyvault THEN Raise
                              ELSE AcmeProgram(zone.name, {DnsZone(ResourceGroup, zone).urn},
                                               <<{Vault(ResourceGroup, c.keyvault).urn}>>))
           fz == [i \in 1 .. Len(c.dns_zone) |-> Zone(c.dns_zone[i])]
           fr == [i \in 1 .. Len(c.container_registry) |->
                    ContainerRegistryProgram(ResourceGroup, c.container_registry[i])]
           fe == [i \in 1 .. Len(c.eventhub) |-> EventHubProgram(ResourceGroup, LoggingTo({Logs}, c.eventhub[i]))]
           fd == [i \in 1 .. Len(c.eventgrid_domain) |-> EventGridProgram(LoggingTo({Logs}, c.eventgrid_domain[i]))]
           fs == [i \in 1 .. Len(c.search_service) |-> SearchProgram(LoggingTo({Logs}, c.search_service[i]))]
           identities == WorkloadIdentities(c.workload_identities)
           KV == {<<"keyvault">>} \cup (IF c.has_keyvault THEN EndpointKeys(c.keyvault) ELSE {})
           KZ == {<<"dns_zone">>, <<"certificate">>}
           KE == {<<"eventhub">>} \cup EndpointsOf(c.eventhub)
           KS == {<<"search_service">>} \cup EndpointsOf(c.search_service)
           KI == {IdentityKey(credential) : credential \in ToSet(c.workload_identities)}
           Stack == {<<"stack">>}
           Log == {<<"log_workspace">>}
           KR == {<<"container_registry">>}
           KD == {<<"eventgrid_domain">>}
<1>1. /\ IsList(c.dns_zone) /\ IsList(c.container_registry) /\ IsList(c.eventhub) /\ IsList(c.eventgrid_domain)
      /\ IsList(c.search_service) /\ IsList(c.workload_identities)
  BY DEF LandingZoneConfiguration, Lists
<1>2. Once(vault, KV)
  <2>1. ASSUME c.has_keyvault
        PROVE  Once(KeyVaultProgram(ResourceGroup, LoggingTo({Logs}, c.keyvault)),
                    {<<"keyvault">>} \cup EndpointKeys(c.keyvault))
    <3> DEFINE l == LoggingTo({Logs}, c.keyvault)
    <3>1. Lists(c.keyvault, {"log_workspace"}) /\ OneEndpoint(c.keyvault)
      BY <2>1 DEF LandingZoneConfiguration, LandingOutputsApart, Lists
    <3>2. Lists(l, {"log_workspace"}) /\ OneEndpoint(l) /\ EndpointKeys(l) = EndpointKeys(c.keyvault)
      BY <3>1, ListsLogging, EndpointsLogging
    <3> HIDE DEF l
    <3>3. Once(KeyVaultProgram(ResourceGroup, l), {<<"keyvault">>} \cup EndpointKeys(c.keyvault))
      BY <3>2, OnceKeyVault
    <3> QED BY <3>3 DEF l
  <2>2. c.has_keyvault => Once(KeyVaultProgram(ResourceGroup, LoggingTo({Logs}, c.keyvault)), KV)
    BY <2>1
  <2> HIDE DEF KV
  <2> QED BY <2>2, OnceWhen
<1>3. Once(FlattenSeq(fz), KZ)
  <2>1. ASSUME NEW zone, Lists(zone, {"records"}) PROVE Once(Zone(zone), KZ)
    <3> DEFINE dns == DnsZoneProgram(ResourceGroup, zone)
               acme == AcmeProgram(zone.name, {DnsZone(ResourceGroup, zone).urn},
                                   <<{Vault(ResourceGroup, c.keyvault).urn}>>)
               rest == IF ~c.has_keyvault THEN Raise ELSE acme
               D == {<<"dns_zone">>}
               A == {<<"certificate">>}
    <3>1. Once(dns, D) /\ Once(acme, A)
      BY <2>1, OnceDnsZone, OnceAcme
    <3>2. D \cap A = {} /\ D \cup A = KZ
      OBVIOUS
    <3>3. Zone(zone) = dns \o When(c.acme_ssl, rest)
      OBVIOUS
    <3> HIDE DEF dns, acme, D, A, Zone, KZ
    <3>4. Once(rest, A)
      BY <3>1, SilentRaise, OnceSilent, OnceMore
    <3> HIDE DEF rest
    <3>5. Once(dns \o When(c.acme_ssl, rest), D \cup A)
      BY <3>1, <3>2, <3>4, OnceWhen, OnceConcat
    <3> QED BY <3>2, <3>3, <3>5
  <2>2. \A i \in 1 .. Len(c.dns_zone) : Lists(c.dns_zone[i], {"records"})
    BY <1>1, ListLen DEF LandingZoneConfiguration
  <2> HIDE DEF Zone, KZ
  <2>3. fz = [i \in 1 .. Len(c.dns_zone) |-> fz[i]] /\ \A i \in 1 .. Len(c.dns_zone) : Once(fz[i], KZ)
    BY <2>1, <2>2
  <2>4. Len(c.dns_zone) <= 1
    BY DEF LandingOutputsApart
  <2> HIDE DEF fz
  <2> QED BY <1>1, <2>3, <2>4, OnceOptional
<1>4. Once(FlattenSeq(fr), KR)
  <2>1. fr = [i \in 1 .. Len(c.container_registry) |-> fr[i]]
        /\ \A i \in 1 .. Len(c.container_registry) : Once(fr[i], KR)
    BY OnceRegistry
  <2>2. Len(c.container_registry) <= 1
    BY DEF LandingOutputsApart
  <2> HIDE DEF fr, KR
  <2> QED BY <1>1, <2>1, <2>2, OnceOptional
<1>5. Once(FlattenSeq(fe), KE)
  <2>1. ASSUME NEW e \in ToSet(c.eventhub)
        PROVE  Once(EventHubProgram(ResourceGroup, LoggingTo({Logs}, e)), KE)
    <3> DEFINE l == LoggingTo({Logs}, e)
    <3>1. Lists(e, {"hubs", "log_workspace"}) /\ OneEndpoint(e)
      BY DEF LandingZoneConfiguration, LandingOutputsApart, Lists
    <3>2. Lists(l, {"hubs", "log_workspace"}) /\ OneEndpoint(l) /\ EndpointKeys(l) = EndpointKeys(e)
      BY <3>1, ListsLogging, EndpointsLogging
    <3> HIDE DEF l
    <3>3. Once(EventHubProgram(ResourceGroup, l), {<<"eventhub">>} \cup EndpointKeys(e))
      BY <3>2, OnceEventHub
    <3>4. {<<"eventhub">>} \cup EndpointKeys(e) \subseteq KE
      BY DEF EndpointsOf
    <3> HIDE DEF KE
    <3>5. Once(EventHubProgram(ResourceGroup, l), KE)
      BY <3>3, <3>4, OnceMore
    <3> QED BY <3>5 DEF l
  <2>2. \A i \in 1 .. Len(c.eventhub) : c.eventhub[i] \in ToSet(c.eventhub)
    BY <1>1, ListLen
  <2>3. Len(c.eventhub) <= 1
    BY DEF LandingOutputsApart
  <2> HIDE DEF KE
  <2>4. fe = [i \in 1 .. Len(c.eventhub) |-> fe[i]] /\ \A i \in 1 .. Len(c.eventhub) : Once(fe[i], KE)
    BY <2>1, <2>2
  <2> HIDE DEF fe
  <2> QED BY <1>1, <2>3, <2>4, OnceOptional
<1>6. Once(FlattenSeq(fd), KD)
  <2>1. ASSUME NEW d \in ToSet(c.eventgrid_domain) PROVE Once(EventGridProgram(LoggingTo({Logs}, d)), KD)
    BY ListsLogging, OnceEventGrid DEF LandingZoneConfiguration
  <2>2. \A i \in 1 .. Len(c.eventgrid_domain) : c.eventgrid_domain[i] \in ToSet(c.eventgrid_domain)
    BY <1>1, ListLen
  <2>3. Len(c.eventgrid_domain) <= 1
    BY DEF LandingOutputsApart
  <2> HIDE DEF KD
  <2>4. fd = [i \in 1 .. Len(c.eventgrid_domain) |-> fd[i]]
        /\ \A i \in 1 .. Len(c.eventgrid_domain) : Once(fd[i], KD)
    BY <2>1, <2>2
  <2> HIDE DEF fd
  <2> QED BY <1>1, <2>3, <2>4, OnceOptional
<1>7. Once(FlattenSeq(fs), KS)
  <2>1. ASSUME NEW s \in ToSet(c.search_service) PROVE Once(SearchProgram(LoggingTo({Logs}, s)), KS)
    <3> DEFINE l == LoggingTo({Logs}, s)
    <3>1. Lists(s, {"log_workspace"}) /\ OneEndpoint(s)
      BY DEF LandingZoneConfiguration, LandingOutputsApart, Lists
    <3>2. Lists(l, {"log_workspace"}) /\ OneEndpoint(l) /\ EndpointKeys(l) = EndpointKeys(s)
      BY <3>1, ListsLogging, EndpointsLogging
    <3> HIDE DEF l
    <3>3. Once(SearchProgram(l), {<<"search_service">>} \cup EndpointKeys(s))
      BY <3>2, OnceSearch
    <3>4. {<<"search_service">>} \cup EndpointKeys(s) \subseteq KS
      BY DEF EndpointsOf
    <3> HIDE DEF KS
    <3>5. Once(SearchProgram(l), KS)
      BY <3>3, <3>4, OnceMore
    <3> QED BY <3>5 DEF l
  <2>2. \A i \in 1 .. Len(c.search_service) : c.search_service[i] \in ToSet(c.search_service)
    BY <1>1, ListLen
  <2>3. Len(c.search_service) <= 1
    BY DEF LandingOutputsApart
  <2> HIDE DEF KS
  <2>4. fs = [i \in 1 .. Len(c.search_service) |-> fs[i]]
        /\ \A i \in 1 .. Len(c.search_service) : Once(fs[i], KS)
    BY <2>1, <2>2
  <2> HIDE DEF fs
  <2> QED BY <1>1, <2>3, <2>4, OnceOptional
<1>8. Once(identities, KI)
  BY <1>1, OnceWorkloadIdentities DEF LandingZoneConfiguration, LandingOutputsApart, KindsApart
<1>9. Once(Begin, Stack) /\ Once(logs, Log)
  BY OnceBegin, OnceLogWorkspace
<1>10. LandingZoneProgram(c) =
         (((((((Begin \o logs) \o vault) \o FlattenSeq(fz)) \o FlattenSeq(fr)) \o FlattenSeq(fe))
         \o FlattenSeq(fd)) \o FlattenSeq(fs)) \o identities
  BY DEF LandingZoneProgram, ForEach
<1> DEFINE V == IF c.has_keyvault THEN EndpointKeys(c.keyvault) ELSE {}
           E == EndpointsOf(c.eventhub)
           S == EndpointsOf(c.search_service)
<1>11. /\ V \subseteq {<<"private_endpoint">>} /\ E \subseteq {<<"private_endpoint">>}
       /\ S \subseteq {<<"private_endpoint">>}
       /\ V \cap E = {} /\ V \cap S = {} /\ E \cap S = {}
  <2>1. \A e \in ToSet(c.eventhub) \cup ToSet(c.search_service) : V \cap EndpointKeys(e) = {}
    BY EndpointKeysApart DEF LandingOutputsApart
  <2>2. \A e \in ToSet(c.eventhub), s \in ToSet(c.search_service) : EndpointKeys(e) \cap EndpointKeys(s) = {}
    BY EndpointKeysApart DEF LandingOutputsApart
  <2>3. V \subseteq {<<"private_endpoint">>}
    BY DEF EndpointKeys
  <2> HIDE DEF V
  <2>4. V \cap E = {} /\ V \cap S = {}
    BY <2>1 DEF EndpointsOf
  <2>5. E \cap S = {}
    BY <2>2 DEF EndpointsOf
  <2> QED BY <2>3, <2>4, <2>5, EndpointsOfOne
<1>12. KV = {<<"keyvault">>} \cup V /\ KE = {<<"eventhub">>} \cup E /\ KS = {<<"search_service">>} \cup S
  OBVIOUS
<1>13. \A credential, word : IdentityKey(credential) # <<word>>
  BY KeyOfTwo DEF IdentityKey
<1> HIDE DEF V, E, S, KV, KE, KS
<1>14. \A word : <<word>> \notin KI
  BY <1>13
<1> HIDE DEF KI
<1> DEFINE first == ((Begin \o logs) \o vault) \o FlattenSeq(fz)
           second == ((first \o FlattenSeq(fr)) \o FlattenSeq(fe)) \o FlattenSeq(fd)
           KF == ((Stack \cup Log) \cup KV) \cup KZ
           KG == ((KF \cup KR) \cup KE) \cup KD
<1>15. /\ Stack \cap Log = {} /\ Stack \cap KV = {} /\ Stack \cap KZ = {}
       /\ Log \cap KV = {} /\ Log \cap KZ = {} /\ KV \cap KZ = {}
  BY <1>11, <1>12
<1>16. /\ KF \cap KR = {} /\ KF \cap KE = {} /\ KF \cap KD = {}
       /\ KR \cap KE = {} /\ KR \cap KD = {} /\ KE \cap KD = {}
  BY <1>11, <1>12
<1>17. KG \cap KS = {} /\ (KG \cup KS) \cap KI = {}
  <2>1. KG \cap KS = {}
    BY <1>11, <1>12
  <2>2. \A k \in KG \cup KS : \E word : k = <<word>>
    BY <1>11, <1>12
  <2> HIDE DEF KG
  <2> QED BY <1>14, <2>1, <2>2
<1> HIDE DEF Stack, Log, KZ, KR, KD, KF, KG, fz, fr, fe, fd, fs, logs, vault, identities
<1>18. Once(first, KF)
  BY <1>2, <1>3, <1>9, <1>15, OnceFour DEF KF
<1>19. LandingZoneProgram(c) = (second \o FlattenSeq(fs)) \o identities
  BY <1>10
<1> HIDE DEF first
<1>20. Once(second, KG)
  BY <1>4, <1>5, <1>6, <1>16, <1>18, OnceFour DEF KG
<1> HIDE DEF second
<1>21. Once(second \o FlattenSeq(fs), KG \cup KS)
  BY <1>7, <1>17, <1>20, OnceConcat
<1>22. Once(LandingZoneProgram(c), (KG \cup KS) \cup KI)
  BY <1>8, <1>17, <1>19, <1>21, OnceConcat
<1> QED BY <1>22

\* An app zone whose outputs have keys of their own: managed storages of different
\* names, one other part of each kind, one private endpoint altogether.
AppZoneOutputsApart(c) ==
    /\ Len(c.container_registry) <= 1 /\ Len(c.event_hub) <= 1 /\ Len(c.servicebus) <= 1
    /\ Len(c.storage_accounts) <= 1 /\ \A st \in ToSet(c.storage_accounts) : st.exports_prefix = <<>>
    /\ StoragesApart(c.containerapp_env) /\ KindsApart(c.workload_identities)
    /\ OneEndpoint(c.keyvault)
    /\ \A e \in ToSet(c.event_hub) \cup ToSet(c.servicebus) : OneEndpoint(e) /\ EndpointsApart(c.keyvault, e)
    /\ \A e \in ToSet(c.event_hub), s \in ToSet(c.servicebus) : EndpointsApart(e, s)

\* A key of three words is not one of one or of two.
LEMMA KeyLengths ==
    ASSUME NEW a, NEW b
    PROVE  Len(<<a>> \o <<b>>) = 2 /\ \A x : Len(<<x, a>> \o <<b>>) = 3
<1>1. ASSUME NEW x PROVE Len(<<a>> \o <<b>>) = 2 /\ Len(<<x, a>> \o <<b>>) = 3
  <2> DEFINE S == {x, a, b}
             p == <<x, a>>
             q == <<b>>
             o == <<a>>
  <2>1. p \in Seq(S) /\ q \in Seq(S) /\ o \in Seq(S) /\ Len(p) = 2 /\ Len(q) = 1 /\ Len(o) = 1
    OBVIOUS
  <2> HIDE DEF S, p, q, o
  <2>2. Len(p \o q) = Len(p) + Len(q) /\ Len(o \o q) = Len(o) + Len(q)
    BY <2>1, ConcatProperties
  <2>3. Len(p \o q) = 3 /\ Len(o \o q) = 2
    BY <2>1, <2>2
  <2> QED BY <2>3 DEF p, q, o
<1> QED BY <1>1

\* deploy_app_zone, for any such configuration.
LEMMA OnceAppZone ==
    ASSUME NEW c, AppZoneConfiguration(c), AppZoneOutputsApart(c)
    PROVE  \E K : Once(AppZoneProgram(c), K)
<1> DEFINE logs == LogWorkspaceProgram(ResourceGroup)
           insights == <<AppInsights(c), Export(<<"app_insights">>)>>
           environment == ContainerAppEnvProgram(ResourceGroup,
                            LoggingTo({Logs}, [c.containerapp_env EXCEPT !.refs = @ \cup {AppInsights(c).urn}]))
           fr == [i \in 1 .. Len(c.container_registry) |->
                    ContainerRegistryProgram(ResourceGroup, c.container_registry[i])]
           vault == KeyVaultProgram(ResourceGroup, LoggingTo({Logs}, c.keyvault))
           fe == [i \in 1 .. Len(c.event_hub) |-> EventHubProgram(ResourceGroup, LoggingTo({RG}, c.event_hub[i]))]
           fb == [i \in 1 .. Len(c.servicebus) |-> ServiceBusProgram(LoggingTo({Logs}, c.servicebus[i]))]
           fa == [i \in 1 .. Len(c.storage_accounts) |-> StorageProgram(ResourceGroup, c.storage_accounts[i])]
           identities == WorkloadIdentities(c.workload_identities)
           Stack == {<<"stack">>}
           Log == {<<"log_workspace">>}
           Ins == {<<"app_insights">>}
           Env == EnvKeys(c.containerapp_env)
           KR == {<<"container_registry">>}
           KV == {<<"keyvault">>} \cup EndpointKeys(c.keyvault)
           KE == {<<"eventhub">>} \cup EndpointsOf(c.event_hub)
           KB == {<<"servicebus">>} \cup EndpointsOf(c.servicebus)
           KA == {<<"storage_account">>}
           KI == {IdentityKey(credential) : credential \in ToSet(c.workload_identities)}
<1>1. /\ IsList(c.container_registry) /\ IsList(c.event_hub) /\ IsList(c.servicebus)
      /\ IsList(c.storage_accounts) /\ IsList(c.workload_identities)
  BY DEF AppZoneConfiguration, Lists
<1>2. Once(insights, Ins)
  <2> DEFINE s == AppInsights(c)
             t == Export(<<"app_insights">>)
  <2>1. Mute(s) /\ Once(<<t>>, Ins) /\ insights = <<s, t>>
    BY MuteResource, OnceExport DEF AppInsights
  <2> HIDE DEF s, t, insights, Ins
  <2>2. Once(<<s, t>>, Ins)
    BY <2>1, OneThenExport
  <2> QED BY <2>1, <2>2
<1>3. Once(environment, Env)
  <2> DEFINE e == [c.containerapp_env EXCEPT !.refs = @ \cup {AppInsights(c).urn}]
             l == LoggingTo({Logs}, e)
  <2>1. /\ Lists(e, {"storage", "certificates", "log_workspace"})
        /\ e.storage = c.containerapp_env.storage
    BY DEF AppZoneConfiguration, EnvConfiguration, Lists
  <2> HIDE DEF e
  <2>2. Lists(l, {"storage", "certificates", "log_workspace"})
    BY <2>1, ListsLogging
  <2>3. l.storage = e.storage
    BY <2>1 DEF LoggingTo, Lists
  <2>4. environment = ContainerAppEnvProgram(ResourceGroup, l)
    BY DEF l, e
  <2> HIDE DEF l, environment
  <2>5. EnvConfiguration(l) /\ StoragesApart(l) /\ EnvKeys(l) = Env
    BY <2>1, <2>2, <2>3
    DEF AppZoneConfiguration, EnvConfiguration, AppZoneOutputsApart, StoragesApart, EnvKeys
  <2> HIDE DEF Env
  <2> QED BY <2>4, <2>5, OnceContainerAppEnv
<1>4. Once(FlattenSeq(fr), KR)
  <2>1. fr = [i \in 1 .. Len(c.container_registry) |-> fr[i]]
        /\ \A i \in 1 .. Len(c.container_registry) : Once(fr[i], KR)
    BY OnceRegistry
  <2>2. Len(c.container_registry) <= 1
    BY DEF AppZoneOutputsApart
  <2> HIDE DEF fr, KR
  <2> QED BY <1>1, <2>1, <2>2, OnceOptional
<1>5. Once(vault, KV)
  <2> DEFINE l == LoggingTo({Logs}, c.keyvault)
  <2>1. Lists(c.keyvault, {"log_workspace"}) /\ OneEndpoint(c.keyvault)
    BY DEF AppZoneConfiguration, AppZoneOutputsApart, Lists
  <2>2. Lists(l, {"log_workspace"}) /\ OneEndpoint(l) /\ EndpointKeys(l) = EndpointKeys(c.keyvault)
    BY <2>1, ListsLogging, EndpointsLogging
  <2> HIDE DEF l
  <2>3. Once(KeyVaultProgram(ResourceGroup, l), KV)
    BY <2>2, OnceKeyVault
  <2> QED BY <2>3 DEF l
<1>6. Once(FlattenSeq(fe), KE)
  <2>1. ASSUME NEW e \in ToSet(c.event_hub)
        PROVE  Once(EventHubProgram(ResourceGroup, LoggingTo({RG}, e)), KE)
    <3> DEFINE l == LoggingTo({RG}, e)
    <3>1. Lists(e, {"hubs", "log_workspace"}) /\ OneEndpoint(e)
      BY DEF AppZoneConfiguration, AppZoneOutputsApart, Lists
    <3>2. Lists(l, {"hubs", "log_workspace"}) /\ OneEndpoint(l) /\ EndpointKeys(l) = EndpointKeys(e)
      BY <3>1, ListsLogging, EndpointsLogging
    <3> HIDE DEF l
    <3>3. Once(EventHubProgram(ResourceGroup, l), {<<"eventhub">>} \cup EndpointKeys(e))
      BY <3>2, OnceEventHub
    <3>4. {<<"eventhub">>} \cup EndpointKeys(e) \subseteq KE
      BY DEF EndpointsOf
    <3> HIDE DEF KE
    <3>5. Once(EventHubProgram(ResourceGroup, l), KE)
      BY <3>3, <3>4, OnceMore
    <3> QED BY <3>5 DEF l
  <2>2. \A i \in 1 .. Len(c.event_hub) : c.event_hub[i] \in ToSet(c.event_hub)
    BY <1>1, ListLen
  <2>3. Len(c.event_hub) <= 1
    BY DEF AppZoneOutputsApart
  <2> HIDE DEF KE
  <2>4. fe = [i \in 1 .. Len(c.event_hub) |-> fe[i]] /\ \A i \in 1 .. Len(c.event_hub) : Once(fe[i], KE)
    BY <2>1, <2>2
  <2> HIDE DEF fe
  <2> QED BY <1>1, <2>3, <2>4, OnceOptional
<1>7. Once(FlattenSeq(fb), KB)
  <2>1. ASSUME NEW s \in ToSet(c.servicebus) PROVE Once(ServiceBusProgram(LoggingTo({Logs}, s)), KB)
    <3> DEFINE l == LoggingTo({Logs}, s)
    <3>1. Lists(s, {"queues", "log_workspace"}) /\ OneEndpoint(s)
      BY DEF AppZoneConfiguration, AppZoneOutputsApart, Lists
    <3>2. Lists(l, {"queues", "log_workspace"}) /\ OneEndpoint(l) /\ EndpointKeys(l) = EndpointKeys(s)
      BY <3>1, ListsLogging, EndpointsLogging
    <3> HIDE DEF l
    <3>3. Once(ServiceBusProgram(l), {<<"servicebus">>} \cup EndpointKeys(s))
      BY <3>2, OnceServiceBus
    <3>4. {<<"servicebus">>} \cup EndpointKeys(s) \subseteq KB
      BY DEF EndpointsOf
    <3> HIDE DEF KB
    <3>5. Once(ServiceBusProgram(l), KB)
      BY <3>3, <3>4, OnceMore
    <3> QED BY <3>5 DEF l
  <2>2. \A i \in 1 .. Len(c.servicebus) : c.servicebus[i] \in ToSet(c.servicebus)
    BY <1>1, ListLen
  <2>3. Len(c.servicebus) <= 1
    BY DEF AppZoneOutputsApart
  <2> HIDE DEF KB
  <2>4. fb = [i \in 1 .. Len(c.servicebus) |-> fb[i]] /\ \A i \in 1 .. Len(c.servicebus) : Once(fb[i], KB)
    BY <2>1, <2>2
  <2> HIDE DEF fb
  <2> QED BY <1>1, <2>3, <2>4, OnceOptional
<1>8. Once(FlattenSeq(fa), KA)
  <2>1. ASSUME NEW st \in ToSet(c.storage_accounts) PROVE Once(StorageProgram(ResourceGroup, st), KA)
    <3>1. StorageConfiguration(st) /\ st.exports_prefix = <<>>
      BY DEF AppZoneConfiguration, AppZoneOutputsApart
    <3>2. <<>> \o <<"storage_account">> = <<"storage_account">>
      BY ConcatEmptySeq
    <3> QED BY <3>1, <3>2, OnceStorage
  <2>2. \A i \in 1 .. Len(c.storage_accounts) : c.storage_accounts[i] \in ToSet(c.storage_accounts)
    BY <1>1, ListLen
  <2>3. Len(c.storage_accounts) <= 1
    BY DEF AppZoneOutputsApart
  <2> HIDE DEF KA
  <2>4. fa = [i \in 1 .. Len(c.storage_accounts) |-> fa[i]]
        /\ \A i \in 1 .. Len(c.storage_accounts) : Once(fa[i], KA)
    BY <2>1, <2>2
  <2> HIDE DEF fa
  <2> QED BY <1>1, <2>3, <2>4, OnceOptional
<1>9. Once(identities, KI)
  BY <1>1, OnceWorkloadIdentities DEF AppZoneConfiguration, AppZoneOutputsApart, KindsApart
<1>10. Once(Begin, Stack) /\ Once(logs, Log)
  BY OnceBegin, OnceLogWorkspace
<1>11. AppZoneProgram(c) =
         ((((((((Begin \o logs) \o insights) \o environment) \o FlattenSeq(fr)) \o vault) \o FlattenSeq(fe))
         \o FlattenSeq(fb)) \o FlattenSeq(fa)) \o identities
  BY DEF AppZoneProgram, ForEach
<1> DEFINE V == EndpointKeys(c.keyvault)
           E == EndpointsOf(c.event_hub)
           S == EndpointsOf(c.servicebus)
           M == {ManagedKey(managed) : managed \in ToSet(c.containerapp_env.storage)}
<1>12. /\ V \subseteq {<<"private_endpoint">>} /\ E \subseteq {<<"private_endpoint">>}
       /\ S \subseteq {<<"private_endpoint">>}
       /\ V \cap E = {} /\ V \cap S = {} /\ E \cap S = {}
  <2>1. \A e \in ToSet(c.event_hub) \cup ToSet(c.servicebus) : V \cap EndpointKeys(e) = {}
    BY EndpointKeysApart DEF AppZoneOutputsApart
  <2>2. \A e \in ToSet(c.event_hub), s \in ToSet(c.servicebus) : EndpointKeys(e) \cap EndpointKeys(s) = {}
    BY EndpointKeysApart DEF AppZoneOutputsApart
  <2>3. V \subseteq {<<"private_endpoint">>}
    BY DEF EndpointKeys
  <2> HIDE DEF V
  <2>4. V \cap E = {} /\ V \cap S = {}
    BY <2>1 DEF EndpointsOf
  <2>5. E \cap S = {}
    BY <2>2 DEF EndpointsOf
  <2> QED BY <2>3, <2>4, <2>5, EndpointsOfOne
<1>13. /\ KV = {<<"keyvault">>} \cup V /\ KE = {<<"eventhub">>} \cup E /\ KB = {<<"servicebus">>} \cup S
       /\ Env = {<<"containerapp_env">>, <<"dns_zone">>} \cup M
  BY DEF EnvKeys
<1>14. /\ \A word : Len(<<word>>) = 1
       /\ \A k \in M : Len(k) = 3
       /\ \A k \in KI : Len(k) = 2
  BY KeyLengths DEF ManagedKey, IdentityKey
<1> HIDE DEF V, E, S, M, KV, KE, KB, Env, KI
<1>15. /\ \A word : <<word>> \notin M /\ <<word>> \notin KI
       /\ M \cap KI = {}
  BY <1>14
<1> DEFINE first == ((Begin \o logs) \o insights) \o environment
           second == ((first \o FlattenSeq(fr)) \o vault) \o FlattenSeq(fe)
           third == ((second \o FlattenSeq(fb)) \o FlattenSeq(fa)) \o identities
           KF == ((Stack \cup Log) \cup Ins) \cup Env
           KG == ((KF \cup KR) \cup KV) \cup KE
<1>16. /\ Stack \cap Log = {} /\ Stack \cap Ins = {} /\ Stack \cap Env = {}
       /\ Log \cap Ins = {} /\ Log \cap Env = {} /\ Ins \cap Env = {}
  BY <1>13, <1>15
<1>17. /\ KF \cap KR = {} /\ KF \cap KV = {} /\ KF \cap KE = {}
       /\ KR \cap KV = {} /\ KR \cap KE = {} /\ KV \cap KE = {}
  <2>1. <<"private_endpoint">> \notin KF
    BY <1>13, <1>15
  <2>2. KF \cap {<<"container_registry">>, <<"keyvault">>, <<"eventhub">>} = {}
    BY <1>13, <1>15
  <2> HIDE DEF KF
  <2> QED BY <1>12, <1>13, <2>1, <2>2
<1>18. KG \cap KB = {} /\ KG \cap KA = {} /\ KG \cap KI = {} /\ KB \cap KA = {} /\ KB \cap KI = {} /\ KA \cap KI = {}
  <2>1. \A k \in KG : k \in M \/ k \in V \/ k \in E \/ k = <<"stack">> \/ k = <<"log_workspace">>
                      \/ k = <<"app_insights">> \/ k = <<"containerapp_env">> \/ k = <<"dns_zone">>
                      \/ k = <<"container_registry">> \/ k = <<"keyvault">> \/ k = <<"eventhub">>
    BY <1>13
  <2>2. \A k \in KB : k \in S \/ k = <<"servicebus">>
    BY <1>13
  <2>3. \A k \in V \cup E \cup S : k = <<"private_endpoint">>
    BY <1>12
  <2> HIDE DEF KG
  <2>4. KG \cap S = {} /\ <<"servicebus">> \notin KG /\ <<"storage_account">> \notin KG
    BY <1>12, <1>15, <2>1, <2>3
  <2>5. KG \cap KI = {} /\ KB \cap KI = {}
    BY <1>15, <2>1, <2>2, <2>3
  <2>6. KB \cap KA = {} /\ KA \cap KI = {}
    BY <1>15, <2>2, <2>3
  <2> QED BY <2>2, <2>4, <2>5, <2>6
<1> HIDE DEF Stack, Log, Ins, KR, KA, KF, KG, fr, fe, fb, fa, logs, insights, environment, vault, identities
<1>19. Once(first, KF)
  BY <1>2, <1>3, <1>10, <1>16, OnceFour DEF KF
<1>20. AppZoneProgram(c) = third
  BY <1>11
<1> HIDE DEF first
<1>21. Once(second, KG)
  BY <1>4, <1>5, <1>6, <1>17, <1>19, OnceFour DEF KG
<1> HIDE DEF second
<1>22. Once(third, ((KG \cup KB) \cup KA) \cup KI)
  BY <1>7, <1>8, <1>9, <1>18, <1>21, OnceFour
<1> HIDE DEF third
<1> QED BY <1>20, <1>22

-----------------------------------------------------------------------------
(* What the data zone and the servers export *)

\* A database exports itself.
LEMMA OnceDatabase ==
    ASSUME NEW parent, NEW c, NEW refs, Lists(c, {"log_workspace"})
    PROVE  Once(SqlDatabaseProgram(parent, c, refs), {<<"database">>})
<1> DEFINE s == SqlDatabaseComponent(parent, c.name)
           t == SqlDatabase(parent, c, refs)
<1>1. Mute(s) /\ Mute(t)
  BY MuteComponent, MuteNamed DEF SqlDatabaseComponent, SqlDatabase
<1>2. SqlDatabaseProgram(parent, c, refs) = (<<s, t>> \o Diagnostics(c, t)) \o <<Export(<<"database">>)>>
  BY DEF SqlDatabaseProgram
<1> HIDE DEF s, t
<1>3. Silent(<<s, t>> \o Diagnostics(c, t))
  BY <1>1, SilentDiagnostics, SilentTwo, SilentConcat
<1> QED BY <1>2, <1>3, SilentThenExport

\* The databases of a server: one, or none.
DatabaseKeys(databases) == IF Len(databases) = 0 THEN {} ELSE {<<"database">>}

\* One database at most exports the key once at most.
LEMMA OnceSqlDatabases ==
    ASSUME NEW c, NEW server, NEW databases, IsList(databases), Len(databases) <= 1,
           \A db \in ToSet(databases) : Lists(db, {"log_workspace"})
    PROVE  Once(SqlDatabases(c, server, databases), DatabaseKeys(databases))
<1> DEFINE refs == {SqlServer(server).urn} \cup IF server.elastic_pool THEN {SqlElasticPool(server).urn} ELSE {}
           f == [i \in 1 .. Len(databases) |->
                   SqlDatabaseProgram(ResourceGroup, OverridingLog(c, databases[i]), refs)]
<1>1. SqlDatabases(c, server, databases) = FlattenSeq(f)
  BY DEF SqlDatabases, ForEach
<1> HIDE DEF refs
<1>2. f = [i \in 1 .. Len(databases) |-> f[i]]
      /\ \A i \in 1 .. Len(databases) : Once(f[i], {<<"database">>})
  BY ListLen, ListsOverriding, OnceDatabase
<1>3. \A i \in 1 .. Len(databases) : Once(f[i], DatabaseKeys(databases))
  <2>1. \A i \in 1 .. Len(databases) : Len(databases) # 0
    BY ListLen
  <2> QED BY <1>2, <2>1 DEF DatabaseKeys
<1> HIDE DEF f
<1> QED BY <1>1, <1>2, <1>3, OnceOptional

\* A server whose outputs have keys of their own: one endpoint at most, and one
\* database at most, that of the job agent included.
SqlApart(c, databases) ==
    /\ OneEndpoint(c) /\ "job_agent_enabled" \in DOMAIN c
    /\ Len(databases) <= IF c.job_agent_enabled THEN 0 ELSE 1

\* What the server itself exports.
SqlKeys(c) ==
    ({<<"server">>} \cup EndpointKeys(c)) \cup (IF c.job_agent_enabled THEN {<<"database">>} ELSE {})

\* A SQL server exports itself, its endpoint and the database of its job agent.
LEMMA OnceSql ==
    ASSUME NEW c, SqlConfiguration(c), OneEndpoint(c)
    PROVE  Once(SqlProgram(c), SqlKeys(c))
<1> DEFINE server == SqlServer(c)
           alias == Resource(server, "ServerDnsAlias", "w", {RG, server.urn})
           front == ((((<<SqlComponent>>
                    \o When(~c.azure_ad_only_authentication /\ ~c.admin_password, <<SqlAdminPassword>>))
                    \o <<server>>)
                    \o SqlNetworkRules(c, server))
                    \o When(c.dns_alias, <<alias>>))
                    \o When(c.elastic_pool, <<SqlElasticPool(c)>>)
           endpoints == PrivateEndpoints(c, server)
           logs == When(c.elastic_pool, Diagnostics(c, SqlElasticPool(c)))
           agents == When(c.job_agent_enabled, SqlJobAgent(c))
           export == <<Export(<<"server">>)>>
           D == IF c.job_agent_enabled THEN {<<"database">>} ELSE {}
           E == EndpointKeys(c)
           S == {<<"server">>}
<1>1. /\ Mute(SqlComponent) /\ Mute(SqlAdminPassword) /\ Mute(server) /\ Mute(SqlElasticPool(c)) /\ Mute(alias)
      /\ \A name : Mute(FirewallRule(server, name))
  BY MuteComponent, MuteNamed
  DEF SqlComponent, SqlAdminPassword, RandomPassword, SqlServer, SqlElasticPool, PartOf, FirewallRule
<1>2. Silent(SqlNetworkRules(c, server))
  <2>1. IsList(c.allowed_subnet_ids) /\ IsList(c.allowed_public_networks)
    BY DEF SqlConfiguration, Lists
  <2>2. Silent(ForEach(c.allowed_subnet_ids, LAMBDA subnet, i :
            <<Resource(server, "VirtualNetworkRule", "w", {RG, server.urn})>>))
    BY <2>1, MuteResource, SilentOne, SilentAll DEF ForEach
  <2>3. Silent(ForEach(c.allowed_public_networks, LAMBDA name, i : <<FirewallRule(server, name)>>))
    BY <1>1, <2>1, SilentOne, SilentAll DEF ForEach
  <2> QED BY <1>1, <2>2, <2>3, SilentOne, SilentWhen, SilentConcat DEF SqlNetworkRules
<1>3. Once(SqlJobAgent(c), {<<"database">>})
  <2> DEFINE pool == IF c.elastic_pool THEN {SqlElasticPool(c).urn} ELSE {}
             db == [name |-> "jobagent", log_workspace |-> c.log_workspace]
             identity == Resource(SqlComponent, "UserAssignedIdentity", "sqljobagent", {RG})
             agent == Resource(SqlComponent, "JobAgent", c.name,
                       {RG, server.urn, identity.urn, SqlDatabase(SqlComponent, db, pool \cup {server.urn}).urn})
             group == Resource(SqlComponent, "JobTargetGroup", c.name, {RG, server.urn, agent.urn} \cup pool)
             refs == pool \cup {server.urn}
  <2>1. SqlJobAgent(c) = SqlDatabaseProgram(SqlComponent, db, refs) \o <<identity, agent, group>>
    BY DEF SqlJobAgent
  <2>2. Mute(identity) /\ Mute(agent) /\ Mute(group)
    BY MuteResource
  <2>3. Lists(db, {"log_workspace"})
    BY DEF SqlConfiguration, Lists
  <2> HIDE DEF identity, agent, group, refs, db
  <2>4. Once(SqlDatabaseProgram(SqlComponent, db, refs), {<<"database">>}) /\ Silent(<<identity, agent, group>>)
    BY <2>2, <2>3, OnceDatabase, SilentThree
  <2> QED BY <2>1, <2>4, OnceThenSilent
<1>4. Lists(c, {"log_workspace"})
  BY DEF SqlConfiguration, Lists
<1>5. SqlProgram(c) = (((front \o endpoints) \o logs) \o agents) \o export
  BY DEF SqlProgram
<1>6. Once(endpoints, E)
  BY OnceEndpoints
<1> HIDE DEF server, alias
<1>7. Silent(front)
  BY <1>1, <1>2, SilentOne, SilentWhen, SilentConcat
<1>8. Silent(logs)
  BY <1>4, SilentDiagnostics, SilentWhen
<1>9. Once(agents, D)
  <2>1. c.job_agent_enabled => Once(SqlJobAgent(c), D)
    BY <1>3
  <2> HIDE DEF D
  <2> QED BY <2>1, OnceWhen
<1>10. Once(export, S)
  BY OnceExport
<1>11. E \cap D = {} /\ (E \cup D) \cap S = {} /\ (E \cup D) \cup S = SqlKeys(c)
  BY DEF EndpointKeys, SqlKeys
<1> HIDE DEF front, endpoints, logs, agents, export, D, E, S
<1>12. Once((front \o endpoints) \o logs, E)
  BY <1>6, <1>7, <1>8, SilentThenOnce, OnceThenSilent
<1> DEFINE first == (front \o endpoints) \o logs
<1> HIDE DEF first
<1>13. Once(first \o agents, E \cup D)
  BY <1>9, <1>11, <1>12, OnceConcat DEF first
<1>14. Once((first \o agents) \o export, SqlKeys(c))
  BY <1>10, <1>11, <1>13, OnceConcat
<1> QED BY <1>5, <1>14 DEF first

\* The keys of a server and of its databases.
ServerKeys == {<<"server">>, <<"database">>, <<"private_endpoint">>}

\* A server, under whatever workspace, and its databases.
LEMMA OnceServer ==
    ASSUME NEW c, NEW server, NEW configured, NEW databases, IsList(databases),
           \A db \in ToSet(databases) : Lists(db, {"log_workspace"}),
           SqlConfiguration(server), SqlApart(server, databases)
    PROVE  Once(SqlProgram(server) \o SqlDatabases(c, configured, databases), ServerKeys)
<1>1. Len(databases) <= 1 /\ Len(databases) \in Nat /\ (server.job_agent_enabled => Len(databases) = 0)
  BY ListLen DEF SqlApart
<1>2. Once(SqlProgram(server), SqlKeys(server)) /\ Once(SqlDatabases(c, configured, databases), DatabaseKeys(databases))
  BY <1>1, OnceSql, OnceSqlDatabases DEF SqlApart
<1>3. SqlKeys(server) \cap DatabaseKeys(databases) = {}
  BY <1>1 DEF SqlKeys, DatabaseKeys, EndpointKeys
<1>4. SqlKeys(server) \cup DatabaseKeys(databases) \subseteq ServerKeys
  BY DEF SqlKeys, DatabaseKeys, EndpointKeys, ServerKeys
<1>5. Once(SqlProgram(server) \o SqlDatabases(c, configured, databases),
           SqlKeys(server) \cup DatabaseKeys(databases))
  BY <1>2, <1>3, OnceConcat
<1> QED BY <1>4, <1>5, OnceMore

\* MySQL and PostgreSQL: nothing of the server's is exported but itself.
LEMMA MuteFlexibleServer ==
    ASSUME NEW type, NEW server_type, NEW c
    PROVE  LET m == FlexibleServer(type, server_type, c)
           IN  Mute(m.component) /\ Mute(m.password) /\ Mute(m.server)
<1> DEFINE component == Component(ResourceGroup, type, "w")
           password == RandomPassword(component, <<type, "admin-pwd">>)
           refs == {RG} \cup (IF c.admin_password THEN {} ELSE {password.urn})
           server == Resource(component, server_type, "w", refs)
<1>1. Mute(component) /\ Mute(password) /\ \A name : Mute(Fixed(server, name))
  <2>1. Mute(component) /\ Mute(password)
    BY MuteComponent, MuteResource DEF RandomPassword
  <2> HIDE DEF refs, component, password
  <2> QED BY <2>1, MuteNamed
<1> DEFINE m == FlexibleServer(type, server_type, c)
<1>2. /\ m.component = component /\ m.password = password
      /\ m.server = IF c.server_name # "" THEN Fixed(server, c.server_name) ELSE Fixed(server, "w")
  BY DEF FlexibleServer
<1> HIDE DEF component, password, server, m
<1>3. Mute(m.component) /\ Mute(m.password) /\ Mute(m.server)
  BY <1>1, <1>2
<1> QED BY <1>3 DEF m

\* Nor are its parameters.
LEMMA SilentServerParams ==
    ASSUME NEW c, NEW server, IsList(c.server_params)
    PROVE  Silent(ServerParams(c, server))
<1>1. \A name : Mute(Fixed(Resource(server, "Configuration", FmtName(name), {RG, server.urn}),
                            <<server.urn[3], name>>))
  BY MuteNamed
<1> QED BY <1>1, SilentOne, SilentAll DEF ServerParams, ForEach

\* A MySQL server exports itself.
LEMMA OnceMysql ==
    ASSUME NEW c, Lists(c, {"databases", "allowed_public_networks", "server_params", "log_workspace"})
    PROVE  Once(MysqlProgram(c), {<<"mysql">>})
<1> DEFINE m == FlexibleServer("Graviton:MysqlFlexibleServer", "mysql.Server", c)
           valid == /\ ValidCreateMode(c, {"PointInTimeRestore"})
                    /\ c.network => c.allowed_public_networks = <<>> /\ ~c.allow_azure_services
           networks == ForEach(c.allowed_public_networks, LAMBDA name, i : <<FirewallRule(m.server, name)>>)
           front == (((((((<<m.component>> \o When(~c.admin_password, <<m.password>>)) \o <<m.server>>)
                    \o When(c.entra_auth /\ c.azure_environment, <<EntraAdmin(m.server)>>))
                    \o Parts(m.server, "MysqlDatabase", c.databases))
                    \o networks)
                    \o When(c.allow_azure_services, <<FirewallRule(m.server, <<"AzureServices">>)>>))
                    \o Diagnostics(c, m.server))
                    \o ServerParams(c, m.server)
<1>1. Mute(m.component) /\ Mute(m.password) /\ Mute(m.server)
  BY MuteFlexibleServer
<1>2. /\ IsList(c.databases) /\ IsList(c.allowed_public_networks) /\ IsList(c.server_params)
      /\ Lists(c, {"log_workspace"})
  BY DEF Lists
<1>3. MysqlProgram(c) = Validated(valid, front \o <<Export(<<"mysql">>)>>)
  BY DEF MysqlProgram
<1> HIDE DEF m, valid
<1>4. Mute(EntraAdmin(m.server)) /\ \A name : Mute(FirewallRule(m.server, name))
  BY MuteNamed DEF EntraAdmin, FirewallRule
<1>5. Silent(networks)
  BY <1>2, <1>4, SilentOne, SilentAll DEF ForEach
<1> HIDE DEF networks
<1>6. Silent(front)
  BY <1>1, <1>2, <1>4, <1>5, SilentParts, SilentDiagnostics, SilentServerParams, SilentOne, SilentWhen, SilentConcat
<1> HIDE DEF front
<1> QED BY <1>3, <1>6, SilentThenExport, OnceValidated

\* So does a PostgreSQL server.
LEMMA OncePostgres ==
    ASSUME NEW c, Lists(c, {"server_params", "log_workspace"})
    PROVE  Once(PostgresProgram(c), {<<"postgres">>})
<1> DEFINE p == FlexibleServer("Graviton:PostgresFlexibleServer", "postgres.Server", c)
           valid == ValidCreateMode(c, {}) /\ (c.premium_v2 => c.iops /\ c.throughput)
           front == ((((<<p.component>> \o When(~c.admin_password, <<p.password>>)) \o <<p.server>>)
                    \o When(c.azure_environment, <<EntraAdmin(p.server)>>))
                    \o Diagnostics(c, p.server))
                    \o ServerParams(c, p.server)
<1>1. Mute(p.component) /\ Mute(p.password) /\ Mute(p.server)
  BY MuteFlexibleServer
<1>2. IsList(c.server_params) /\ Lists(c, {"log_workspace"})
  BY DEF Lists
<1>3. PostgresProgram(c) = Validated(valid, front \o <<Export(<<"postgres">>)>>)
  BY DEF PostgresProgram
<1> HIDE DEF p, valid
<1>4. Mute(EntraAdmin(p.server))
  BY MuteResource DEF EntraAdmin
<1>5. Silent(front)
  BY <1>1, <1>2, <1>4, SilentDiagnostics, SilentServerParams, SilentOne, SilentWhen, SilentConcat
<1> HIDE DEF front
<1> QED BY <1>3, <1>5, SilentThenExport, OnceValidated

\* A data zone whose outputs have keys of their own: one server of each kind, with
\* one database and one endpoint at most, and one storage account.
DataZoneOutputsApart(c) ==
    /\ Len(c.postgres) <= 1 /\ Len(c.mysql) <= 1 /\ Len(c.sql_server) <= 1 /\ Len(c.storage_accounts) <= 1
    /\ \A s \in ToSet(c.sql_server) : SqlApart(s, c.sql_databases)
    /\ \A st \in ToSet(c.storage_accounts) : st.exports_prefix = <<>>

\* A server is not changed by the workspace of its zone.
LEMMA SqlApartOverriding ==
    ASSUME NEW c, NEW s, NEW databases, SqlConfiguration(s), SqlApart(s, databases)
    PROVE  SqlConfiguration(OverridingLog(c, s)) /\ SqlApart(OverridingLog(c, s), databases)
<1>1. ASSUME NEW refs PROVE SqlApart(LoggingTo(refs, s), databases)
  <2> DEFINE l == LoggingTo(refs, s)
  <2>1. OneEndpoint(l) /\ "job_agent_enabled" \in DOMAIN l /\ l.job_agent_enabled = s.job_agent_enabled
    BY EndpointsLogging DEF SqlApart, LoggingTo
  <2> HIDE DEF l
  <2>2. SqlApart(l, databases)
    BY <2>1 DEF SqlApart
  <2> QED BY <2>2 DEF l
<1> QED BY <1>1, ListsOverriding DEF SqlConfiguration, OverridingLog

\* deploy_data_zone, for any such configuration.
LEMMA OnceDataZone ==
    ASSUME NEW c, DataZoneConfiguration(c), DataZoneOutputsApart(c)
    PROVE  \E K : Once(DataZoneProgram(c), K)
<1> DEFINE fp == [i \in 1 .. Len(c.postgres) |-> PostgresProgram(OverridingLog(c, c.postgres[i]))]
           fm == [i \in 1 .. Len(c.mysql) |-> MysqlProgram(OverridingLog(c, c.mysql[i]))]
           Server(s) == SqlProgram(OverridingLog(c, s)) \o SqlDatabases(c, s, c.sql_databases)
           fs == [i \in 1 .. Len(c.sql_server) |-> Server(c.sql_server[i])]
           fa == [i \in 1 .. Len(c.storage_accounts) |-> StorageProgram(ResourceGroup, c.storage_accounts[i])]
           Stack == {<<"stack">>}
           KP == {<<"postgres">>}
           KM == {<<"mysql">>}
           KA == {<<"storage_account">>}
<1>1. /\ IsList(c.postgres) /\ IsList(c.mysql) /\ IsList(c.sql_server) /\ IsList(c.sql_databases)
      /\ IsList(c.storage_accounts)
  BY DEF DataZoneConfiguration, Lists
<1>2. /\ Len(c.postgres) <= 1 /\ Len(c.mysql) <= 1 /\ Len(c.sql_server) <= 1 /\ Len(c.storage_accounts) <= 1
      /\ \A i \in 1 .. Len(c.postgres) : c.postgres[i] \in ToSet(c.postgres)
      /\ \A i \in 1 .. Len(c.mysql) : c.mysql[i] \in ToSet(c.mysql)
      /\ \A i \in 1 .. Len(c.sql_server) : c.sql_server[i] \in ToSet(c.sql_server)
      /\ \A i \in 1 .. Len(c.storage_accounts) : c.storage_accounts[i] \in ToSet(c.storage_accounts)
  BY <1>1, ListLen DEF DataZoneOutputsApart
<1>3. Once(FlattenSeq(fp), KP)
  <2>1. fp = [i \in 1 .. Len(c.postgres) |-> fp[i]] /\ \A i \in 1 .. Len(c.postgres) : Once(fp[i], KP)
    BY <1>2, ListsOverriding, OncePostgres DEF DataZoneConfiguration
  <2> HIDE DEF fp, KP
  <2> QED BY <1>1, <1>2, <2>1, OnceOptional
<1>4. Once(FlattenSeq(fm), KM)
  <2>1. fm = [i \in 1 .. Len(c.mysql) |-> fm[i]] /\ \A i \in 1 .. Len(c.mysql) : Once(fm[i], KM)
    BY <1>2, ListsOverriding, OnceMysql DEF DataZoneConfiguration
  <2> HIDE DEF fm, KM
  <2> QED BY <1>1, <1>2, <2>1, OnceOptional
<1>5. Once(FlattenSeq(fs), ServerKeys)
  <2>1. ASSUME NEW s \in ToSet(c.sql_server) PROVE Once(Server(s), ServerKeys)
    <3> DEFINE l == OverridingLog(c, s)
    <3>1. SqlConfiguration(l) /\ SqlApart(l, c.sql_databases)
      BY SqlApartOverriding DEF DataZoneConfiguration, DataZoneOutputsApart
    <3> HIDE DEF l
    <3>2. Once(SqlProgram(l) \o SqlDatabases(c, s, c.sql_databases), ServerKeys)
      BY <1>1, <3>1, OnceServer DEF DataZoneConfiguration
    <3> QED BY <3>2 DEF l
  <2> HIDE DEF Server
  <2>2. fs = [i \in 1 .. Len(c.sql_server) |-> fs[i]] /\ \A i \in 1 .. Len(c.sql_server) : Once(fs[i], ServerKeys)
    BY <1>2, <2>1
  <2> HIDE DEF fs
  <2> QED BY <1>1, <1>2, <2>2, OnceOptional
<1>6. Once(FlattenSeq(fa), KA)
  <2>1. ASSUME NEW st \in ToSet(c.storage_accounts) PROVE Once(StorageProgram(ResourceGroup, st), KA)
    <3>1. StorageConfiguration(st) /\ st.exports_prefix = <<>>
      BY DEF DataZoneConfiguration, DataZoneOutputsApart
    <3>2. <<>> \o <<"storage_account">> = <<"storage_account">>
      BY ConcatEmptySeq
    <3> QED BY <3>1, <3>2, OnceStorage
  <2> HIDE DEF KA
  <2>2. fa = [i \in 1 .. Len(c.storage_accounts) |-> fa[i]]
        /\ \A i \in 1 .. Len(c.storage_accounts) : Once(fa[i], KA)
    BY <1>2, <2>1
  <2> HIDE DEF fa
  <2> QED BY <1>1, <1>2, <2>2, OnceOptional
<1>7. Once(Begin, Stack)
  BY OnceBegin
<1> DEFINE first == ((Begin \o FlattenSeq(fp)) \o FlattenSeq(fm)) \o FlattenSeq(fs)
           KF == ((Stack \cup KP) \cup KM) \cup ServerKeys
<1>8. DataZoneProgram(c) = first \o FlattenSeq(fa)
  BY DEF DataZoneProgram, ForEach
<1>9. /\ Stack \cap KP = {} /\ Stack \cap KM = {} /\ Stack \cap ServerKeys = {}
      /\ KP \cap KM = {} /\ KP \cap ServerKeys = {} /\ KM \cap ServerKeys = {}
      /\ KF \cap KA = {}
  BY DEF ServerKeys
<1> HIDE DEF Stack, KP, KM, KA, fp, fm, fs, fa, KF
<1>10. Once(first, KF)
  BY <1>3, <1>4, <1>5, <1>7, <1>9, OnceFour DEF KF
<1> HIDE DEF first
<1>11. Once(DataZoneProgram(c), KF \cup KA)
  BY <1>6, <1>8, <1>9, <1>10, OnceConcat
<1> QED BY <1>11

\* The SQL base, whose server takes the workspace of the base.
LEMMA OnceAzureSql ==
    ASSUME NEW c, AzureSqlConfiguration(c), SqlApart(c.server, c.databases)
    PROVE  \E K : Once(AzureSqlProgram(c), K)
<1> DEFINE server == [c.server EXCEPT !.log_workspace = c.log_workspace]
<1>1. IsList(c.databases) /\ \A db \in ToSet(c.databases) : Lists(db, {"log_workspace"})
  BY DEF AzureSqlConfiguration, Lists
<1>2. SqlConfiguration(server)
  BY DEF AzureSqlConfiguration, SqlConfiguration, Lists
<1>3. Lists(server, {"private_endpoints"}) /\ server.private_endpoints = c.server.private_endpoints
      /\ "job_agent_enabled" \in DOMAIN server /\ server.job_agent_enabled = c.server.job_agent_enabled
  BY <1>2 DEF AzureSqlConfiguration, SqlConfiguration, SqlApart, Lists
<1>4. AzureSqlProgram(c) = Begin \o SqlProgram(server) \o SqlDatabases(c, c.server, c.databases)
  BY DEF AzureSqlProgram
<1> HIDE DEF server
<1>5. SqlApart(server, c.databases)
  BY <1>3 DEF SqlApart, OneEndpoint
<1> DEFINE p == SqlProgram(server)
           q == SqlDatabases(c, c.server, c.databases)
<1>6. Once(p \o q, ServerKeys)
  BY <1>1, <1>2, <1>5, OnceServer
<1>7. IsList(Begin) /\ IsList(p) /\ IsList(q)
  <2>1. Len(c.databases) <= 1
    BY <1>1, ListLen DEF SqlApart
  <2> QED BY <1>1, <1>2, <1>5, <2>1, OnceBegin, OnceSql, OnceSqlDatabases DEF Once, SqlApart
<1> HIDE DEF p, q
<1>8. (Begin \o p) \o q = Begin \o (p \o q)
  <2> DEFINE S == (ToSet(Begin) \cup ToSet(p)) \cup ToSet(q)
  <2>1. Begin \in Seq(S) /\ p \in Seq(S) /\ q \in Seq(S)
    BY <1>7 DEF IsList
  <2> HIDE DEF S
  <2> QED BY <2>1, ConcatAssociative
<1>9. Once(Begin \o (p \o q), {<<"stack">>} \cup ServerKeys)
  <2>1. {<<"stack">>} \cap ServerKeys = {}
    BY DEF ServerKeys
  <2> QED BY <1>6, <2>1, OnceBegin, OnceConcat
<1> QED BY <1>4, <1>8, <1>9 DEF p, q

-----------------------------------------------------------------------------
(* What the other bases export *)

\* A machine with one data disk at most.
LEMMA OnceVm ==
    ASSUME NEW parent, NEW waits, NEW c, Lists(c, {"disks"}), Len(c.disks) <= 1
    PROVE  Once(VmProgram(parent, waits, c), {<<"disk">>, <<"nic">>, <<"vm">>})
<1> DEFINE component == VmComponent(parent, waits)
           valid == ValidImage(c.image) /\ \A d \in c.disk_configs : ValidDisk(d)
           interface == NetworkInterface(component)
           machine == VirtualMachine(component, c)
           f == [i \in 1 .. Len(c.disks) |-> <<DataDisk(component, c.disks[i]), Export(<<"disk">>)>>]
           nic == Export(<<"nic">>)
           vm == Export(<<"vm">>)
<1>1. Mute(component)
  BY MuteComponent, MuteDependsOn DEF VmComponent
<1>2. VmProgram(parent, waits, c) =
        Validated(valid, (<<component>> \o FlattenSeq(f)) \o <<interface, nic, machine, vm>>)
  BY DEF VmProgram, ForEach
<1> HIDE DEF component, valid
<1>3. Mute(interface) /\ Mute(machine) /\ \A name : Mute(DataDisk(component, name))
  BY MuteNamed DEF NetworkInterface, VirtualMachine, DataDisk
<1>4. Once(FlattenSeq(f), {<<"disk">>})
  <2>1. \A name : Once(<<DataDisk(component, name), Export(<<"disk">>)>>, {<<"disk">>})
    <3> DEFINE t == Export(<<"disk">>)
    <3>1. Once(<<t>>, {<<"disk">>})
      BY OnceExport
    <3> HIDE DEF t
    <3> QED BY <1>3, <3>1, OneThenExport DEF t
  <2>2. f = [i \in 1 .. Len(c.disks) |-> f[i]] /\ \A i \in 1 .. Len(c.disks) : Once(f[i], {<<"disk">>})
    BY <2>1
  <2>3. IsList(c.disks)
    BY DEF Lists
  <2> HIDE DEF f
  <2> QED BY <2>2, <2>3, OnceOptional
<1>5. Once(<<nic>>, {<<"nic">>}) /\ Once(<<vm>>, {<<"vm">>})
  BY OnceExport
<1> HIDE DEF interface, machine, nic, vm, f
<1>6. <<interface, nic, machine, vm>> = <<interface, nic>> \o <<machine, vm>>
  <2> DEFINE S == {interface, nic, machine, vm}
             p == <<interface, nic>>
             q == <<machine, vm>>
             r == <<interface, nic, machine, vm>>
  <2>1. /\ p \in Seq(S) /\ Len(p) = 2 /\ p[1] = interface /\ p[2] = nic
        /\ q \in Seq(S) /\ Len(q) = 2 /\ q[1] = machine /\ q[2] = vm
        /\ r \in Seq(S) /\ Len(r) = 4 /\ r[1] = interface /\ r[2] = nic /\ r[3] = machine /\ r[4] = vm
    OBVIOUS
  <2> HIDE DEF S, p, q, r
  <2>2. /\ p \o q \in Seq(S) /\ Len(p \o q) = 4
        /\ (p \o q)[1] = p[1] /\ (p \o q)[2] = p[2] /\ (p \o q)[3] = q[1] /\ (p \o q)[4] = q[2]
    <3>1. /\ p \o q \in Seq(S) /\ Len(p \o q) = Len(p) + Len(q)
          /\ \A i \in 1 .. Len(p) + Len(q) : (p \o q)[i] = IF i <= Len(p) THEN p[i] ELSE q[i - Len(p)]
      BY <2>1, ConcatProperties
    <3>2. Len(p) + Len(q) = 4 /\ 1 \in 1 .. 4 /\ 2 \in 1 .. 4 /\ 3 \in 1 .. 4 /\ 4 \in 1 .. 4
      BY <2>1
    <3>3. /\ (p \o q)[1] = p[1] /\ (p \o q)[2] = p[2]
          /\ (p \o q)[3] = q[3 - 2] /\ (p \o q)[4] = q[4 - 2]
      BY <2>1, <3>1, <3>2
    <3> QED BY <3>1, <3>2, <3>3
  <2>3. \A i \in 1 .. 4 : i = 1 \/ i = 2 \/ i = 3 \/ i = 4
    OBVIOUS
  <2>4. r = p \o q
    BY <2>1, <2>2, <2>3, SeqEqual
  <2> QED BY <2>4 DEF p, q, r
<1>7. Once(<<interface, nic>>, {<<"nic">>}) /\ Once(<<machine, vm>>, {<<"vm">>})
  BY <1>3, <1>5, OneThenExport
<1>8. {<<"nic">>} \cap {<<"vm">>} = {} /\ {<<"disk">>} \cap ({<<"nic">>} \cup {<<"vm">>}) = {}
      /\ {<<"disk">>} \cup ({<<"nic">>} \cup {<<"vm">>}) = {<<"disk">>, <<"nic">>, <<"vm">>}
  OBVIOUS
<1>9. Once(<<interface, nic, machine, vm>>, {<<"nic">>} \cup {<<"vm">>})
  <2> DEFINE p == <<interface, nic>>
             q == <<machine, vm>>
             P == {<<"nic">>}
             Q == {<<"vm">>}
  <2>1. Once(p, P) /\ Once(q, Q) /\ P \cap Q = {}
    BY <1>7, <1>8
  <2> HIDE DEF p, q, P, Q
  <2>2. Once(p \o q, P \cup Q)
    BY <2>1, OnceConcat
  <2> QED BY <1>6, <2>2 DEF p, q, P, Q
<1>10. Once(<<component>> \o FlattenSeq(f), {<<"disk">>})
  BY <1>1, <1>4, SilentOne, SilentThenOnce
<1> DEFINE first == <<component>> \o FlattenSeq(f)
           second == <<interface, nic, machine, vm>>
           D == {<<"disk">>}
           N == {<<"nic">>} \cup {<<"vm">>}
           all == {<<"disk">>, <<"nic">>, <<"vm">>}
<1>11. Once(first, D) /\ Once(second, N) /\ D \cap N = {} /\ D \cup N = all
  BY <1>8, <1>9, <1>10
<1>12. VmProgram(parent, waits, c) = Validated(valid, first \o second)
  BY <1>2
<1> HIDE DEF first, second, D, N, all
<1>13. Once(first \o second, all)
  BY <1>11, OnceConcat
<1>14. Once(VmProgram(parent, waits, c), all)
  BY <1>12, <1>13, OnceValidated
<1> QED BY <1>14 DEF all

\* The Oracle host, whose account has no prefix.
LEMMA OnceOracle ==
    ASSUME NEW c, OracleConfiguration(c), c.storage.exports_prefix = <<>>, Len(c.vm.disks) <= 1
    PROVE  \E K : Once(OracleProgram(c), K)
<1> DEFINE storage == StorageProgram(ResourceGroup, c.storage)
           account == StorageAccount(ResourceGroup, c.storage.name)
           init == CloudInitConfig(account, Parts(account, "FileShare", c.storage.file_shares))
           vm == [c.vm EXCEPT !.custom_data = {init.urn}]
           waits == Members(StorageComponent(ResourceGroup), storage) \cup {init.urn}
           A == {<<"storage_account">>}
           V == {<<"disk">>, <<"nic">>, <<"vm">>}
           B == {<<"stack">>}
<1>1. Once(storage, A)
  <2>1. <<>> \o <<"storage_account">> = <<"storage_account">>
    BY ConcatEmptySeq
  <2> QED BY <2>1, OnceStorage DEF OracleConfiguration
<1>2. Mute(init)
  BY MuteResource DEF CloudInitConfig
<1>3. OracleProgram(c) = ((Begin \o storage) \o <<init>>) \o VmProgram(ResourceGroup, waits, vm)
  BY DEF OracleProgram
<1> HIDE DEF init, storage, waits
<1>4. Lists(vm, {"disks"}) /\ Len(vm.disks) <= 1
  BY DEF OracleConfiguration, Lists
<1> HIDE DEF vm
<1>5. Once(VmProgram(ResourceGroup, waits, vm), V)
  BY <1>4, OnceVm
<1>6. B \cap A = {} /\ (B \cup A) \cap V = {} /\ Once(Begin, B)
  BY OnceBegin
<1> HIDE DEF A, B, V
<1>7. Once((Begin \o storage) \o <<init>>, B \cup A)
  BY <1>1, <1>2, <1>6, SilentOne, OnceThenSilent, OnceConcat
<1> DEFINE first == (Begin \o storage) \o <<init>>
           machine == VmProgram(ResourceGroup, waits, vm)
<1>8. OracleProgram(c) = first \o machine /\ Once(first, B \cup A) /\ Once(machine, V)
  BY <1>3, <1>5, <1>7
<1> HIDE DEF first, machine
<1>9. Once(first \o machine, (B \cup A) \cup V)
  BY <1>6, <1>8, OnceConcat
<1> QED BY <1>8, <1>9

\* The workload identities by themselves.
LEMMA OnceIdentities ==
    ASSUME NEW c, IsList(c.identities), KindsApart(c.identities),
           \A credential \in ToSet(c.identities) : CredentialConfiguration(credential)
    PROVE  \E K : Once(WorkloadIdentitiesProgram(c), K)
<1> DEFINE KI == {IdentityKey(credential) : credential \in ToSet(c.identities)}
<1>1. Once(WorkloadIdentities(c.identities), KI)
  BY OnceWorkloadIdentities DEF KindsApart
<1>2. {<<"stack">>} \cap KI = {}
  BY KeyOfTwo DEF IdentityKey
<1> HIDE DEF KI
<1> QED BY <1>1, <1>2, OnceBegin, OnceConcat DEF WorkloadIdentitiesProgram

\* An ESC environment exports nothing.
LEMMA SilentPulumiEnv ==
    ASSUME NEW env, NEW input, NEW refs
    PROVE  Silent(PulumiEnvProgram(env, input, refs))
<1> DEFINE component == Component(Root, "Graviton:PulumiEscEnv", env)
           command == Fixed(Resource(component, "Command", env, refs), env)
<1>1. Mute(component) /\ Mute(command)
  BY MuteComponent, MuteNamed
<1>2. PulumiEnvProgram(env, input, refs) =
        <<component>> \o IF "env_name" \notin input THEN Raise ELSE <<command>>
  BY DEF PulumiEnvProgram
<1> HIDE DEF component, command
<1> QED BY <1>1, <1>2, SilentOne, SilentRaise, SilentConcat

\* The environment of the tenant exports its application.
LEMMA OnceAzureEnvironment ==
    ASSUME NEW c, IsList(c.azure_permissions)
    PROVE  \E K : Once(AzureEnvironmentProgram(c), K)
<1> DEFINE roles == PrincipalPermissions(PulumiApp, c.azure_permissions \o DefaultPermissions)
           env == PulumiEnvProgram(c.env, {"env_name", "imports", "values"},
                        {RG, EntraApplication(PulumiApp).urn, ServicePrincipal(PulumiApp).urn})
           app == EntraAppProgram(PulumiApp)
           A == {PulumiApp.exports_prefix \o <<"entra_app">>}
<1>1. Once(app, A) /\ Silent(roles) /\ Silent(env)
  BY PulumiAppFacts, OnceEntraApp, SilentPrincipalPermissions, SilentPulumiEnv
<1>2. AzureEnvironmentProgram(c) = ((Begin \o app) \o roles) \o env
  BY DEF AzureEnvironmentProgram
<1>3. {<<"stack">>} \cap A = {}
  <2>1. PulumiApp.exports_prefix = <<"pulumi">>
    BY DEF PulumiApp
  <2>2. <<"pulumi">> \o <<"entra_app">> # <<"stack">>
    BY KeyOfTwo
  <2> QED BY <2>1, <2>2
<1> HIDE DEF A, roles, env, app
<1>4. Once(Begin \o app, {<<"stack">>} \cup A)
  BY <1>1, <1>3, OnceBegin, OnceConcat
<1> QED BY <1>1, <1>2, <1>4, OnceThenSilent

\* The small bases: a tenant's environment, an external tenant, the App Service
\* suite that raises.
LEMMA OnceSmallBases ==
    ASSUME NEW c, NEW p, p \in {AzureTenantProgram(c), ExternalIdProgram(c), AppServiceSuiteProgram}
    PROVE  \E K : Once(p, K)
<1>1. Once(AzureTenantProgram(c), {})
  BY SilentPulumiEnv, OnceSilent DEF AzureTenantProgram
<1>2. Once(ExternalIdProgram(c), {<<"stack">>} \cup {<<"tenant">>})
  <2> DEFINE component == Component(Root, "Graviton:ExternalIdTenant", "w")
             tenant == Fixed(Resource(component, "CIAMTenant", c.initial_domain_prefix, {RG}), c.initial_domain_prefix)
             export == Export(<<"tenant">>)
  <2>1. Mute(component) /\ Mute(tenant) /\ Once(<<export>>, {<<"tenant">>})
    BY MuteComponent, MuteNamed, OnceExport
  <2>2. ExternalIdTenantProgram(c.initial_domain_prefix) = <<component, tenant, export>>
    BY DEF ExternalIdTenantProgram
  <2> HIDE DEF component, tenant, export
  <2>3. <<component, tenant, export>> = <<component>> \o <<tenant, export>>
    OBVIOUS
  <2>4. Once(<<component, tenant, export>>, {<<"tenant">>})
    <3> DEFINE q == <<tenant, export>>
    <3>1. Once(q, {<<"tenant">>}) /\ Silent(<<component>>)
      BY <2>1, OneThenExport, SilentOne
    <3> HIDE DEF q
    <3>2. Once(<<component>> \o q, {<<"tenant">>})
      BY <3>1, SilentThenOnce
    <3> QED BY <2>3, <3>2 DEF q
  <2>5. {<<"stack">>} \cap {<<"tenant">>} = {}
    OBVIOUS
  <2> QED BY <2>2, <2>4, <2>5, OnceBegin, OnceConcat DEF ExternalIdProgram
<1>3. Once(AppServiceSuiteProgram, {<<"stack">>} \cup {<<"resource_group_name">>})
  <2> DEFINE export == <<Export(<<"resource_group_name">>)>>
  <2>1. Once(export, {<<"resource_group_name">>}) /\ {<<"stack">>} \cap {<<"resource_group_name">>} = {}
    BY OnceExport
  <2>2. AppServiceSuiteProgram = (Begin \o export) \o Raise
    BY DEF AppServiceSuiteProgram
  <2> HIDE DEF export
  <2> QED BY <2>1, <2>2, SilentRaise, OnceBegin, OnceConcat, OnceThenSilent
<1> QED BY <1>1, <1>2, <1>3

-----------------------------------------------------------------------------
(* What an app workload exports *)

\* A key of two words.
LEMMA KeyPair ==
    ASSUME NEW a, NEW b
    PROVE  <<a>> \o <<b>> = <<a, b>>
<1> DEFINE S == {a, b}
           p == <<a>>
           q == <<b>>
           r == <<a, b>>
<1>1. /\ p \in Seq(S) /\ q \in Seq(S) /\ r \in Seq(S) /\ Len(p) = 1 /\ Len(q) = 1 /\ Len(r) = 2
      /\ r[1] = p[1] /\ r[2] = q[1]
  OBVIOUS
<1> HIDE DEF S, p, q, r
<1>2. p \o q \in Seq(S) /\ Len(p \o q) = 2 /\ (p \o q)[1] = p[1] /\ (p \o q)[2] = q[1]
  <2>1. /\ p \o q \in Seq(S)
        /\ Len(p \o q) = Len(p) + Len(q)
        /\ \A i \in 1 .. Len(p) + Len(q) : (p \o q)[i] = IF i <= Len(p) THEN p[i] ELSE q[i - Len(p)]
    BY <1>1, ConcatProperties, Zenon
  <2>2. /\ \A i \in 1 .. 2 : (p \o q)[i] = IF i <= 1 THEN p[i] ELSE q[i - 1]
        /\ Len(p \o q) = 2
    BY <1>1, <2>1
  <2>3. 1 \in 1 .. 2 /\ 2 \in 1 .. 2 /\ 1 <= 1 /\ ~(2 <= 1) /\ 2 - 1 = 1
    OBVIOUS
  <2>4. (p \o q)[1] = p[1] /\ (p \o q)[2] = q[1]
    BY <2>2, <2>3
  <2> QED BY <2>1, <2>2, <2>4
<1>3. \A i \in 1 .. 2 : i = 1 \/ i = 2
  OBVIOUS
<1>4. p \o q = r
  BY <1>1, <1>2, <1>3, SeqEqual
<1> QED BY <1>4 DEF p, q, r

\* A custom domain exports the zone that holds its records.
LEMMA OnceCustomDomain ==
    ASSUME NEW owner, NEW domain, NEW environment, NEW verification
    PROVE  Once(CustomDomain(owner, domain, environment, verification), {<<"dns_zone">>})
<1> DEFINE zone == DomainZone(domain, owner, verification)
           records == IF domain.zone = <<>> THEN {} ELSE Urns(ToSet(DnsRecords(owner, zone)))
           dns == DnsZoneProgram(owner, zone)
           certificate == ManagedCertificate(owner, domain, environment, records)
           D == {<<"dns_zone">>}
<1>1. Lists(zone, {"records"})
  <2> DEFINE a == [type |-> "CNAME", name |-> domain.name, refs |-> {owner.urn}]
             b == [type |-> "TXT", name |-> <<"asuid", ".">> \o domain.name, refs |-> verification]
  <2>1. zone.records = <<a, b>> /\ "records" \in DOMAIN zone
    BY DEF DomainZone
  <2> HIDE DEF a, b, zone
  <2>2. <<a, b>> \in Seq({a, b})
    OBVIOUS
  <2> QED BY <2>1, <2>2, ListSet DEF Lists
<1>2. Mute(certificate)
  <2> DEFINE s == Fixed(Resource(owner, "ManagedCertificate", FmtName(domain.name), environment),
                        <<"cert", domain.name>>)
  <2>1. Mute(s) /\ certificate = DependsOn(Naming(s, records), records)
    BY MuteNamed DEF ManagedCertificate
  <2> HIDE DEF s, records, certificate
  <2> QED BY <2>1, MuteNaming, MuteDependsOn
<1>3. CustomDomain(owner, domain, environment, verification) =
        IF domain.zone # <<>> /\ ~domain.zone[1].holds THEN Raise
        ELSE When(domain.zone # <<>>, dns) \o When(domain.auto, <<certificate>>)
  BY DEF CustomDomain
<1> HIDE DEF zone, records, certificate
<1>4. Once(dns, D)
  BY <1>1, OnceDnsZone
<1> HIDE DEF dns, D
<1>5. Once(When(domain.zone # <<>>, dns) \o When(domain.auto, <<certificate>>), D)
  BY <1>2, <1>4, OnceWhen, SilentOne, SilentWhen, OnceThenSilent
<1>6. Once(Raise, D)
  BY SilentRaise, OnceSilent, OnceMore
<1>7. Once(CustomDomain(owner, domain, environment, verification), D)
  BY <1>3, <1>5, <1>6
<1> QED BY <1>7 DEF D

\* The key of the domains' zones, if there are any.
DomainKeys(domains) == IF Len(domains) = 0 THEN {} ELSE {<<"dns_zone">>}

\* The programs of an owner's domains, one after the other.
DomainPrograms(owner, domains, environment, verification) ==
    [i \in 1 .. Len(domains) |-> CustomDomain(owner, domains[i], environment, verification)]

\* One domain at most exports it once at most.
LEMMA OnceDomains ==
    ASSUME NEW owner, NEW domains, NEW environment, NEW verification, IsList(domains), Len(domains) <= 1
    PROVE  Once(FlattenSeq(DomainPrograms(owner, domains, environment, verification)), DomainKeys(domains))
<1> DEFINE f == DomainPrograms(owner, domains, environment, verification)
<1>1. f = [i \in 1 .. Len(domains) |-> f[i]]
      /\ \A i \in 1 .. Len(domains) : Once(f[i], {<<"dns_zone">>})
  BY OnceCustomDomain DEF DomainPrograms
<1> HIDE DEF f
<1>2. \A i \in 1 .. Len(domains) : Once(f[i], DomainKeys(domains))
  <2>1. \A i \in 1 .. Len(domains) : Len(domains) # 0
    BY ListLen
  <2> QED BY <1>1, <2>1 DEF DomainKeys
<1>3. Once(FlattenSeq(f), DomainKeys(domains))
  BY <1>1, <1>2, OnceOptional
<1> QED BY <1>3 DEF f

\* A container app or a job exports itself and the zone of its domain.
LEMMA OnceContainerApp ==
    ASSUME NEW parent, NEW waits, NEW c, IsList(c.domains), IsList(c.permissions), Len(c.domains) <= 1
    PROVE  Once(ContainerAppProgram(parent, waits, c), {<<"app">>} \cup DomainKeys(c.domains))
<1> DEFINE app == ContainerApp(parent, waits, c)
           component == AppComponent(parent, waits, c)
           resiliency == When(c.resiliency, <<PartOf(app, "AppResiliency", "appres")>>)
           domains == ForEach(c.domains, LAMBDA domain, i : CustomDomain(app, domain, c.environment, {app.urn}))
           roles == AppPermissions(app, c.permissions)
           export == <<Export(<<"app">>)>>
           A == {<<"app">>}
           D == DomainKeys(c.domains)
<1>1. Mute(component)
  BY MuteComponent, MuteDependsOn DEF AppComponent
<1>2. Mute(app)
  <2> DEFINE s == Fixed(Resource(component, IF c.job THEN "Job" ELSE "ContainerApp",
                                 AppName(c), {RG} \cup c.environment \cup c.registry \cup c.refs), AppName(c))
  <2>1. Mute(s) /\ app = [s EXCEPT !.keys = AppSecrets(c)]
    BY MuteNamed DEF ContainerApp
  <2> HIDE DEF s
  <2> QED BY <2>1 DEF Mute, IsStatement
<1>3. ContainerAppProgram(parent, waits, c) =
        (((<<component, app>> \o resiliency) \o When(~c.job, domains)) \o roles) \o export
  BY DEF ContainerAppProgram
<1> HIDE DEF app, component
<1>4. Silent(resiliency)
  BY MuteNamed, SilentOne, SilentWhen DEF PartOf
<1>5. Silent(roles)
  BY MuteResource, SilentOne, SilentAll DEF AppPermissions, RoleAssignment, ForEach
<1>6. Once(domains, D)
  <2>1. domains = FlattenSeq(DomainPrograms(app, c.domains, c.environment, {app.urn}))
    BY DEF ForEach, DomainPrograms
  <2> HIDE DEF domains
  <2> QED BY <2>1, OnceDomains
<1>7. Once(export, A) /\ D \cap A = {} /\ D \cup A = {<<"app">>} \cup DomainKeys(c.domains)
  BY OnceExport DEF DomainKeys
<1> HIDE DEF resiliency, domains, roles, export, A, D
<1>8. Once(((<<component, app>> \o resiliency) \o When(~c.job, domains)) \o roles, D)
  BY <1>1, <1>2, <1>4, <1>5, <1>6, SilentTwo, SilentConcat, OnceWhen, SilentThenOnce, OnceThenSilent
<1> DEFINE all == ((<<component, app>> \o resiliency) \o When(~c.job, domains)) \o roles
<1>9. ContainerAppProgram(parent, waits, c) = all \o export /\ Once(all, D)
  BY <1>3, <1>8
<1> HIDE DEF all
<1>10. Once(all \o export, D \cup A)
  BY <1>7, <1>9, OnceConcat
<1> QED BY <1>7, <1>9, <1>10

\* A route exports itself under its name, and the zone of its domain.
LEMMA OnceHttpRoute ==
    ASSUME NEW parent, NEW waits, NEW c, IsList(c.domains), Len(c.domains) <= 1
    PROVE  Once(HttpRouteProgram(parent, waits, c), {<<"http_route", c.name>>} \cup DomainKeys(c.domains))
<1> DEFINE route == HttpRouteConfig(parent, waits, c)
           domains == ForEach(c.domains, LAMBDA domain, i :
                                CustomDomain(route, domain, c.environment, c.environment))
           export == <<Export(<<"http_route", c.name>>)>>
           R == {<<"http_route", c.name>>}
           D == DomainKeys(c.domains)
           valid == ValidRoute(c)
<1>1. Mute(route)
  <2> DEFINE s == Fixed(Resource(parent, "HttpRouteConfig", c.name, c.environment), c.name)
  <2>1. Mute(s) /\ route = DependsOn(Naming(s, c.targets), waits)
    BY MuteNamed DEF HttpRouteConfig
  <2> HIDE DEF s, route
  <2> QED BY <2>1, MuteNaming, MuteDependsOn
<1>2. HttpRouteProgram(parent, waits, c) = Validated(valid, (<<route>> \o domains) \o export)
  BY DEF HttpRouteProgram
<1> HIDE DEF route, valid
<1>3. Once(domains, D)
  <2>1. domains = FlattenSeq(DomainPrograms(route, c.domains, c.environment, c.environment))
    BY DEF ForEach, DomainPrograms
  <2> HIDE DEF domains
  <2> QED BY <2>1, OnceDomains
<1>4. Once(export, R) /\ D \cap R = {} /\ D \cup R = {<<"http_route", c.name>>} \cup DomainKeys(c.domains)
  <2>1. <<"http_route", c.name>> # <<"dns_zone">>
    OBVIOUS
  <2> QED BY <2>1, OnceExport DEF DomainKeys
<1> HIDE DEF domains, export, R, D
<1>5. Once((<<route>> \o domains) \o export, D \cup R)
  BY <1>1, <1>3, <1>4, SilentOne, SilentThenOnce, OnceConcat
<1>6. Once(HttpRouteProgram(parent, waits, c), D \cup R)
  BY <1>2, <1>5, OnceValidated
<1> QED BY <1>4, <1>6

\* A configuration store exports itself.
LEMMA OnceAppConfig ==
    ASSUME NEW parent, NEW waits, NEW c, Lists(c, {"keys"})
    PROVE  Once(AppConfigProgram(parent, waits, c), {<<"app_config">>})
<1> DEFINE store == ConfigurationStore(parent, waits)
           component == AppConfigComponent(parent, waits)
           values == ForEach(c.keys, LAMBDA key, i : <<PartOf(store, "KeyValue", key)>>)
<1>1. Mute(component) /\ Mute(store)
  BY MuteComponent, MuteDependsOn, MuteResource DEF AppConfigComponent, ConfigurationStore
<1>2. IsList(c.keys)
  BY DEF Lists
<1>3. AppConfigProgram(parent, waits, c) = (<<component, store>> \o values) \o <<Export(<<"app_config">>)>>
  BY DEF AppConfigProgram
<1> HIDE DEF store, component
<1>4. Silent(values)
  BY <1>2, MuteNamed, SilentOne, SilentAll DEF PartOf, ForEach
<1> HIDE DEF values
<1>5. Silent(<<component, store>> \o values)
  BY <1>1, <1>4, SilentTwo, SilentConcat
<1> QED BY <1>3, <1>5, SilentThenExport

\* A workload whose outputs have keys of their own: accounts of different names, one
\* other part of each kind (apps and jobs are one kind), one domain altogether.  An
\* account named http_route, were that a name for one, would share a key with a route.
WorkloadOutputsApart(c) ==
    /\ Len(c.search_service) <= 1 /\ Len(c.app_config) <= 1 /\ Len(c.oauth_app) <= 1
    /\ Len(c.apps \o c.jobs) <= 1
    /\ \A i, j \in 1 .. Len(c.storage_accounts) :
           i # j => c.storage_accounts[i].name # c.storage_accounts[j].name
    /\ \A st \in ToSet(c.storage_accounts) : st.name # "http_route"
    /\ \A s \in ToSet(c.search_service) : OneEndpoint(s)
    /\ \A a \in ToSet(c.oauth_app) : "exports_prefix" \in DOMAIN a
    /\ \A route \in ToSet(c.http_routes) : "name" \in DOMAIN route
    /\ \A a \in ToSet(c.apps \o c.jobs) \cup ToSet(c.http_routes) : Len(a.domains) <= 1
    /\ \A a \in ToSet(c.apps \o c.jobs), route \in ToSet(c.http_routes) :
           Len(a.domains) = 0 \/ Len(route.domains) = 0
    /\ \A i, j \in 1 .. Len(c.http_routes) :
           i # j => Len(c.http_routes[i].domains) = 0 \/ Len(c.http_routes[j].domains) = 0

\* What the workload's data exports.
DataKeys(c) ==
    {<<st.name, "storage_account">> : st \in ToSet(c.storage_accounts)}
    \cup ({<<"search_service">>} \cup EndpointsOf(c.search_service))

\* The storage accounts, each under its name, and the search service.
LEMMA OnceWorkloadData ==
    ASSUME NEW c, WorkloadConfiguration(c), WorkloadOutputsApart(c)
    PROVE  Once(WorkloadData(c), DataKeys(c))
<1> DEFINE Account(st) == StorageProgram(ResourceGroup, [st EXCEPT !.exports_prefix = <<st.name>>])
           fa == [i \in 1 .. Len(c.storage_accounts) |-> Account(c.storage_accounts[i])]
           fs == [i \in 1 .. Len(c.search_service) |-> SearchProgram(c.search_service[i])]
           K == [i \in 1 .. Len(c.storage_accounts) |-> {<<c.storage_accounts[i].name, "storage_account">>}]
           A == {<<st.name, "storage_account">> : st \in ToSet(c.storage_accounts)}
           S == {<<"search_service">>} \cup EndpointsOf(c.search_service)
<1>1. /\ IsList(c.storage_accounts) /\ IsList(c.search_service)
      /\ \A i \in 1 .. Len(c.storage_accounts) : c.storage_accounts[i] \in ToSet(c.storage_accounts)
      /\ \A i \in 1 .. Len(c.search_service) : c.search_service[i] \in ToSet(c.search_service)
  BY ListLen DEF WorkloadConfiguration, Lists
<1>2. Once(FlattenSeq(fa), A)
  <2>1. ASSUME NEW st \in ToSet(c.storage_accounts)
        PROVE  Once(Account(st), {<<st.name, "storage_account">>})
    <3> DEFINE prefix == <<st.name>>
               s == [st EXCEPT !.exports_prefix = prefix]
               key == prefix \o <<"storage_account">>
    <3>1. key = <<st.name, "storage_account">>
      BY KeyPair
    <3> HIDE DEF prefix
    <3>2. StorageConfiguration(s) /\ s.exports_prefix = prefix
      BY DEF WorkloadConfiguration, StorageConfiguration, Lists
    <3> HIDE DEF s
    <3>3. Once(StorageProgram(ResourceGroup, s), {key})
      BY <3>2, OnceStorage
    <3> QED BY <3>1, <3>3 DEF s, prefix
  <2> HIDE DEF Account
  <2>2. /\ fa = [i \in 1 .. Len(c.storage_accounts) |-> fa[i]]
        /\ \A i \in 1 .. Len(c.storage_accounts) : Once(fa[i], K[i])
    BY <1>1, <2>1
  <2>3. \A i, j \in 1 .. Len(c.storage_accounts) : i # j => K[i] \cap K[j] = {}
    <3>1. ASSUME NEW i \in 1 .. Len(c.storage_accounts), NEW j \in 1 .. Len(c.storage_accounts), i # j
          PROVE  <<c.storage_accounts[i].name, "storage_account">> # <<c.storage_accounts[j].name, "storage_account">>
      <4> DEFINE a == c.storage_accounts[i].name
                 b == c.storage_accounts[j].name
      <4>1. a # b
        BY <3>1 DEF WorkloadOutputsApart
      <4> HIDE DEF a, b
      <4>2. <<a, "storage_account">> # <<b, "storage_account">>
        BY <4>1
      <4> QED BY <4>2 DEF a, b
    <3> QED BY <3>1
  <2>4. UNION {K[i] : i \in 1 .. Len(c.storage_accounts)} \subseteq A
    BY <1>1
  <2> HIDE DEF fa, K, A
  <2> DEFINE list == c.storage_accounts
  <2>5. /\ IsList(list) /\ fa = [i \in 1 .. Len(list) |-> fa[i]]
        /\ \A i \in 1 .. Len(list) : Once(fa[i], K[i])
        /\ \A i, j \in 1 .. Len(list) : i # j => K[i] \cap K[j] = {}
        /\ UNION {K[i] : i \in 1 .. Len(list)} \subseteq A
    BY <1>1, <2>2, <2>3, <2>4
  <2> HIDE DEF list
  <2>6. Once(FlattenSeq(fa), UNION {K[i] : i \in 1 .. Len(list)})
    BY <2>5, OnceAll
  <2> QED BY <2>5, <2>6, OnceMore
<1>3. Once(FlattenSeq(fs), S)
  <2>1. ASSUME NEW s \in ToSet(c.search_service) PROVE Once(SearchProgram(s), S)
    <3>1. Lists(s, {"log_workspace"}) /\ OneEndpoint(s)
      BY DEF WorkloadConfiguration, WorkloadOutputsApart, Lists
    <3>2. Once(SearchProgram(s), {<<"search_service">>} \cup EndpointKeys(s))
      BY <3>1, OnceSearch
    <3>3. {<<"search_service">>} \cup EndpointKeys(s) \subseteq S
      BY DEF EndpointsOf
    <3> HIDE DEF S
    <3> QED BY <3>2, <3>3, OnceMore
  <2> HIDE DEF S
  <2>2. fs = [i \in 1 .. Len(c.search_service) |-> fs[i]]
        /\ \A i \in 1 .. Len(c.search_service) : Once(fs[i], S)
    BY <1>1, <2>1
  <2>3. Len(c.search_service) <= 1
    BY DEF WorkloadOutputsApart
  <2> HIDE DEF fs
  <2> QED BY <1>1, <2>2, <2>3, OnceOptional
<1>4. WorkloadData(c) = FlattenSeq(fa) \o FlattenSeq(fs)
  BY DEF WorkloadData, ForEach
<1>5. A \cap S = {} /\ DataKeys(c) = A \cup S
  <2>1. \A name, word : <<name, "storage_account">> # <<word>>
    OBVIOUS
  <2>2. \A k \in S : \E word : k = <<word>>
    BY EndpointsOfOne
  <2>3. DataKeys(c) = A \cup S
    BY DEF DataKeys
  <2> HIDE DEF S
  <2> QED BY <2>1, <2>2, <2>3
<1> HIDE DEF A, S, fa, fs
<1> QED BY <1>2, <1>3, <1>4, <1>5, OnceConcat

\* The domains of the apps and jobs.
AppsDomainKeys(c) == UNION {DomainKeys(a.domains) : a \in ToSet(c.apps \o c.jobs)}

\* One app or job.
LEMMA OnceWorkloadApps ==
    ASSUME NEW c, WorkloadConfiguration(c), WorkloadOutputsApart(c)
    PROVE  Once(WorkloadApps(c), {<<"app">>} \cup AppsDomainKeys(c))
<1> DEFINE f == WorkloadAppPrograms(c)
           list == c.apps \o c.jobs
           K == {<<"app">>} \cup AppsDomainKeys(c)
<1>1. IsList(list) /\ ToSet(list) = ToSet(c.apps) \cup ToSet(c.jobs)
      /\ \A k \in 1 .. Len(list) : list[k] \in ToSet(list)
  BY ConcatLists, ListLen DEF WorkloadConfiguration, Lists
<1>2. WorkloadApps(c) = FlattenSeq(f)
      /\ f = [k \in 1 .. Len(list) |-> f[k]]
      /\ \A k \in 1 .. Len(list) : f[k] = ContainerAppProgram(ResourceGroup, AppDeps(c), WorkloadApp(c, list[k], k))
  BY DEF WorkloadApps, WorkloadAppPrograms, ForEach
<1>3. ASSUME NEW k, NEW a \in ToSet(list)
      PROVE  Once(ContainerAppProgram(ResourceGroup, AppDeps(c), WorkloadApp(c, a, k)), K)
  <2> DEFINE app == WorkloadApp(c, a, k)
  <2>1. Lists(a, {"domains", "permissions"}) /\ {"name", "job"} \subseteq DOMAIN a /\ Len(a.domains) <= 1
    BY <1>1 DEF WorkloadConfiguration, WorkloadOutputsApart
  <2>2. IsList(app.domains) /\ IsList(app.permissions) /\ app.domains = a.domains
    BY <2>1, WorkloadAppFacts
  <2> HIDE DEF app
  <2>3. Once(ContainerAppProgram(ResourceGroup, AppDeps(c), app), {<<"app">>} \cup DomainKeys(a.domains))
    BY <2>1, <2>2, OnceContainerApp
  <2>4. {<<"app">>} \cup DomainKeys(a.domains) \subseteq K
    BY DEF AppsDomainKeys
  <2> HIDE DEF K
  <2>5. Once(ContainerAppProgram(ResourceGroup, AppDeps(c), app), K)
    BY <2>3, <2>4, OnceMore
  <2> QED BY <2>5 DEF app
<1>4. Len(list) <= 1
  BY DEF WorkloadOutputsApart
<1> HIDE DEF f, list, K
<1>5. \A k \in 1 .. Len(list) : Once(f[k], K)
  BY <1>1, <1>2, <1>3
<1>6. Once(FlattenSeq(f), K)
  BY <1>1, <1>2, <1>4, <1>5, OnceOptional
<1> QED BY <1>2, <1>6 DEF K

\* The domains of the routes.
RoutesDomainKeys(c) == UNION {DomainKeys(route.domains) : route \in ToSet(c.http_routes)}

\* Routes of different names, in any number.
LEMMA OnceWorkloadRoutes ==
    ASSUME NEW c, WorkloadConfiguration(c), WorkloadOutputsApart(c), DistinctNames(c.http_routes)
    PROVE  Once(WorkloadRoutes(c),
                {<<"http_route", route.name>> : route \in ToSet(c.http_routes)} \cup RoutesDomainKeys(c))
<1> DEFINE apps == ToSet(c.apps)
           app(name) == {ContainerApp(ResourceGroup, AppDeps(c), a).urn : a \in {b \in apps : AppName(b) = name}}
           waits == UNION {Members(AppComponent(ResourceGroup, AppDeps(c), a), WorkloadApps(c)) : a \in apps}
           environment == c.apps[1].environment
           targets(route) == UNION {app(name) : name \in route.targets}
           completed(route) == [route EXCEPT !.environment = environment, !.targets = targets(route)]
           f == [i \in 1 .. Len(c.http_routes) |->
                   HttpRouteProgram(ResourceGroup, waits, completed(c.http_routes[i]))]
           Key(route) == {<<"http_route", route.name>>} \cup DomainKeys(route.domains)
           K == [i \in 1 .. Len(c.http_routes) |-> Key(c.http_routes[i])]
           R == {<<"http_route", route.name>> : route \in ToSet(c.http_routes)} \cup RoutesDomainKeys(c)
<1>1. WorkloadRoutes(c) = IF c.http_routes # <<>> /\ apps = {} THEN Raise ELSE FlattenSeq(f)
  BY DEF WorkloadRoutes, ForEach
<1>2. IsList(c.http_routes) /\ \A i \in 1 .. Len(c.http_routes) : c.http_routes[i] \in ToSet(c.http_routes)
  BY ListLen DEF WorkloadConfiguration, Lists
<1> HIDE DEF waits, environment, app
<1>3. ASSUME NEW route \in ToSet(c.http_routes)
      PROVE  Once(HttpRouteProgram(ResourceGroup, waits, completed(route)), Key(route))
  <2>1. Lists(route, {"domains"}) /\ "name" \in DOMAIN route /\ Len(route.domains) <= 1
    BY DEF WorkloadConfiguration, WorkloadOutputsApart
  <2> HIDE DEF targets
  <2>2. completed(route).domains = route.domains /\ completed(route).name = route.name /\ IsList(route.domains)
    BY <2>1 DEF Lists
  <2> HIDE DEF completed
  <2> QED BY <2>1, <2>2, OnceHttpRoute
<1> HIDE DEF completed
<1>4. f = [i \in 1 .. Len(c.http_routes) |-> f[i]] /\ \A i \in 1 .. Len(c.http_routes) : Once(f[i], K[i])
  <2> HIDE DEF Key
  <2> QED BY <1>2, <1>3
<1>5. \A i, j \in 1 .. Len(c.http_routes) : i # j => K[i] \cap K[j] = {}
  <2>1. ASSUME NEW i \in 1 .. Len(c.http_routes), NEW j \in 1 .. Len(c.http_routes), i # j
        PROVE  Key(c.http_routes[i]) \cap Key(c.http_routes[j]) = {}
    <3> DEFINE a == c.http_routes[i]
               b == c.http_routes[j]
               m == a.name
               n == b.name
    <3>1. DomainKeys(a.domains) \cap DomainKeys(b.domains) = {}
      BY <2>1 DEF WorkloadOutputsApart, DomainKeys
    <3>2. m # n
      BY <2>1 DEF DistinctNames
    <3>3. DomainKeys(a.domains) \subseteq {<<"dns_zone">>} /\ DomainKeys(b.domains) \subseteq {<<"dns_zone">>}
      BY DEF DomainKeys
    <3>4. /\ Key(a) = {<<"http_route", m>>} \cup DomainKeys(a.domains)
          /\ Key(b) = {<<"http_route", n>>} \cup DomainKeys(b.domains)
      OBVIOUS
    <3> HIDE DEF a, b, m, n, Key
    <3>5. <<"http_route", m>> # <<"http_route", n>>
      BY <3>2
    <3>6. \A x : <<"http_route", x>> # <<"dns_zone">>
      OBVIOUS
    <3>7. Key(a) \cap Key(b) = {}
      BY <3>1, <3>3, <3>4, <3>5, <3>6
    <3> QED BY <3>7 DEF a, b
  <2> HIDE DEF Key
  <2> QED BY <2>1
<1>6. UNION {K[i] : i \in 1 .. Len(c.http_routes)} \subseteq R
  BY <1>2 DEF RoutesDomainKeys
<1> HIDE DEF f, K, R, apps
<1>7. Once(FlattenSeq(f), R)
  <2> DEFINE list == c.http_routes
  <2>1. /\ IsList(list) /\ f = [i \in 1 .. Len(list) |-> f[i]]
        /\ \A i \in 1 .. Len(list) : Once(f[i], K[i])
        /\ \A i, j \in 1 .. Len(list) : i # j => K[i] \cap K[j] = {}
        /\ UNION {K[i] : i \in 1 .. Len(list)} \subseteq R
    BY <1>2, <1>4, <1>5, <1>6
  <2> HIDE DEF list
  <2>2. Once(FlattenSeq(f), UNION {K[i] : i \in 1 .. Len(list)})
    BY <2>1, OnceAll
  <2> QED BY <2>1, <2>2, OnceMore
<1>8. Once(Raise, R)
  BY SilentRaise, OnceSilent, OnceMore
<1>9. Once(WorkloadRoutes(c), R)
  BY <1>1, <1>7, <1>8
<1> QED BY <1>9 DEF R

\* deploy_app_workload, for any such configuration.
LEMMA OnceAppWorkload ==
    ASSUME NEW c, WorkloadConfiguration(c), WorkloadOutputsApart(c)
    PROVE  \E K : Once(AppWorkloadProgram(c), K)
<1> DEFINE valid == DistinctNames(c.apps) /\ DistinctNames(c.http_routes)
           data == WorkloadData(c)
           store == WorkloadStore(c)
           apps == WorkloadApps(c)
           routes == WorkloadRoutes(c)
           Oauth(a) == EntraAppProgram([a EXCEPT !.exports_prefix = <<"oauth">>])
           fo == [i \in 1 .. Len(c.oauth_app) |-> Oauth(c.oauth_app[i])]
           B == {<<"stack">>}
           D == DataKeys(c)
           C == {<<"app_config">>}
           A == {<<"app">>} \cup AppsDomainKeys(c)
           R == {<<"http_route", route.name>> : route \in ToSet(c.http_routes)} \cup RoutesDomainKeys(c)
           O == {<<"oauth", "entra_app">>}
<1>1. /\ IsList(c.app_config) /\ IsList(c.oauth_app)
      /\ \A i \in 1 .. Len(c.app_config) : c.app_config[i] \in ToSet(c.app_config)
      /\ \A i \in 1 .. Len(c.oauth_app) : c.oauth_app[i] \in ToSet(c.oauth_app)
      /\ Len(c.app_config) <= 1 /\ Len(c.oauth_app) <= 1
  BY ListLen DEF WorkloadConfiguration, WorkloadOutputsApart, Lists
<1>2. Once(store, C)
  <2> DEFINE f == [i \in 1 .. Len(c.app_config) |-> AppConfigProgram(ResourceGroup, DataDeps(c), c.app_config[i])]
  <2>1. store = FlattenSeq(f)
    BY DEF WorkloadStore, ForEach
  <2>2. f = [i \in 1 .. Len(c.app_config) |-> f[i]] /\ \A i \in 1 .. Len(c.app_config) : Once(f[i], C)
    BY <1>1, OnceAppConfig DEF WorkloadConfiguration
  <2> HIDE DEF f, C, store
  <2> QED BY <1>1, <2>1, <2>2, OnceOptional
<1>3. Once(FlattenSeq(fo), O)
  <2>1. ASSUME NEW a \in ToSet(c.oauth_app) PROVE Once(Oauth(a), O)
    <3> DEFINE prefix == <<"oauth">>
               e == [a EXCEPT !.exports_prefix = prefix]
               key == prefix \o <<"entra_app">>
    <3>1. key = <<"oauth", "entra_app">>
      BY KeyPair
    <3> HIDE DEF prefix
    <3>2. EntraConfiguration(e) /\ e.exports_prefix = prefix
      BY DEF WorkloadConfiguration, WorkloadOutputsApart, EntraConfiguration, Lists
    <3> HIDE DEF e
    <3>3. Once(EntraAppProgram(e), {key})
      BY <3>2, OnceEntraApp
    <3> QED BY <3>1, <3>3 DEF e, prefix
  <2> HIDE DEF Oauth, O
  <2>2. fo = [i \in 1 .. Len(c.oauth_app) |-> fo[i]] /\ \A i \in 1 .. Len(c.oauth_app) : Once(fo[i], O)
    BY <1>1, <2>1
  <2> HIDE DEF fo
  <2> QED BY <1>1, <2>2, OnceOptional
<1>4. AppWorkloadProgram(c) =
        Validated(valid, ((((Begin \o data) \o store) \o apps) \o routes) \o FlattenSeq(fo))
  BY DEF AppWorkloadProgram, ForEach
<1>5. Once(Begin, B) /\ Once(data, D) /\ Once(apps, A) /\ (valid => Once(routes, R))
  BY OnceBegin, OnceWorkloadData, OnceWorkloadApps, OnceWorkloadRoutes
<1> DEFINE Accounts == {<<st.name, "storage_account">> : st \in ToSet(c.storage_accounts)}
           E == EndpointsOf(c.search_service)
           Routes == {<<"http_route", route.name>> : route \in ToSet(c.http_routes)}
           X == AppsDomainKeys(c)
           Y == RoutesDomainKeys(c)
<1>6. E \subseteq {<<"private_endpoint">>} /\ X \subseteq {<<"dns_zone">>} /\ Y \subseteq {<<"dns_zone">>}
      /\ X \cap Y = {}
  <2>1. \A domains : DomainKeys(domains) \subseteq {<<"dns_zone">>}
    BY DEF DomainKeys
  <2>2. \A a \in ToSet(c.apps \o c.jobs), route \in ToSet(c.http_routes) :
           DomainKeys(a.domains) \cap DomainKeys(route.domains) = {}
    BY DEF WorkloadOutputsApart, DomainKeys
  <2>3. E \subseteq {<<"private_endpoint">>}
    BY EndpointsOfOne
  <2> HIDE DEF E
  <2> QED BY <2>1, <2>2, <2>3 DEF AppsDomainKeys, RoutesDomainKeys
<1>7. \A k \in Accounts \cup Routes \cup O : \E a, b : k = <<a, b>>
  OBVIOUS
<1>8. Accounts \cap Routes = {} /\ Accounts \cap O = {} /\ Routes \cap O = {}
  <2>1. ASSUME NEW st \in ToSet(c.storage_accounts), NEW name
        PROVE  <<st.name, "storage_account">> # <<"http_route", name>>
    <3> DEFINE n == st.name
    <3>1. n # "http_route"
      BY DEF WorkloadOutputsApart
    <3> HIDE DEF n
    <3>2. <<n, "storage_account">> # <<"http_route", name>>
      BY <3>1
    <3> QED BY <3>2 DEF n
  <2>2. \A x, y : <<x, "storage_account">> # <<"oauth", "entra_app">> /\ <<"http_route", y>> # <<"oauth", "entra_app">>
    OBVIOUS
  <2> QED BY <2>1, <2>2
<1>9. D = Accounts \cup ({<<"search_service">>} \cup E) /\ A = {<<"app">>} \cup X /\ R = Routes \cup Y
  BY DEF DataKeys
<1>10. \A a, b, word : <<a, b>> # <<word>>
  OBVIOUS
<1>11. \A word : <<word>> \notin Accounts /\ <<word>> \notin Routes /\ <<word>> \notin O
  <2> HIDE DEF Accounts, Routes, O
  <2> QED BY <1>7, <1>10
<1> HIDE DEF Accounts, Routes, E, X, Y, A, D, R, O
<1> DEFINE first == ((Begin \o data) \o store) \o apps
           KF == ((B \cup D) \cup C) \cup A
<1>12. B \cap D = {} /\ B \cap C = {} /\ B \cap A = {} /\ D \cap C = {} /\ D \cap A = {} /\ C \cap A = {}
  BY <1>6, <1>9, <1>11
<1>13. KF \cap R = {}
  <2>1. Accounts \cap R = {}
    BY <1>6, <1>8, <1>9, <1>11
  <2>2. B \cap R = {} /\ C \cap R = {} /\ A \cap R = {} /\ ({<<"search_service">>} \cup E) \cap R = {}
    BY <1>6, <1>9, <1>11
  <2> HIDE DEF B, C
  <2> QED BY <1>9, <2>1, <2>2
<1>14. (KF \cup R) \cap O = {}
  BY <1>6, <1>8, <1>9, <1>11
<1> HIDE DEF B, C, KF, data, store, apps, routes, fo, valid
<1>15. Once(first, KF)
  BY <1>2, <1>5, <1>12, OnceFour DEF KF
<1> DEFINE oauth == FlattenSeq(fo)
<1>16. AppWorkloadProgram(c) = Validated(valid, (first \o routes) \o oauth) /\ Once(oauth, O)
  BY <1>3, <1>4
<1> HIDE DEF first, oauth
<1>17. ASSUME valid PROVE Once((first \o routes) \o oauth, (KF \cup R) \cup O)
  <2>1. Once(first \o routes, KF \cup R)
    BY <1>5, <1>13, <1>15, <1>17, OnceConcat
  <2> QED BY <1>14, <1>16, <2>1, OnceConcat
<1>18. Once(AppWorkloadProgram(c), (KF \cup R) \cup O)
  BY <1>16, <1>17, OnceValidated
<1> QED BY <1>18

\* The stacks of which every output has a key of its own: those of every base, as far
\* as their configuration keeps the outputs apart.
KeepingProgram(p) ==
    \/ \E c : HubConfiguration(c) /\ OutputsApart(c) /\ p = HubSpokeProgram(c)
    \/ \E c : AppZoneConfiguration(c) /\ AppZoneOutputsApart(c) /\ p = AppZoneProgram(c)
    \/ \E c : LandingZoneConfiguration(c) /\ LandingOutputsApart(c) /\ p = LandingZoneProgram(c)
    \/ \E c : WorkloadConfiguration(c) /\ WorkloadOutputsApart(c) /\ p = AppWorkloadProgram(c)
    \/ \E c : DataZoneConfiguration(c) /\ DataZoneOutputsApart(c) /\ p = DataZoneProgram(c)
    \/ \E c : /\ AzureSqlConfiguration(c) /\ SqlApart(c.server, c.databases)
              /\ p = AzureSqlProgram(c)
    \/ \E c : /\ OracleConfiguration(c) /\ c.storage.exports_prefix = <<>> /\ Len(c.vm.disks) <= 1
              /\ p = OracleProgram(c)
    \/ \E c : FirewallConfiguration(c) /\ p = FirewallBaseProgram(c)
    \/ \E c : /\ OauthConfiguration(c)
              /\ \A app \in ToSet(c.oauth_apps) : "skip_exports" \in DOMAIN app
              /\ p = OauthAppsProgram(c)
    \/ \E c : /\ IsList(c.identities) /\ KindsApart(c.identities)
              /\ \A credential \in ToSet(c.identities) : CredentialConfiguration(credential)
              /\ p = WorkloadIdentitiesProgram(c)
    \/ \E c : IsList(c.azure_permissions) /\ p = AzureEnvironmentProgram(c)
    \/ \E c : p \in {AzureTenantProgram(c), ExternalIdProgram(c), AppServiceSuiteProgram}

\* When an update of such a stack succeeds, none of its outputs has been overwritten
\* by another.  What may occur any number of times (route tables, private zones, OAuth
\* applications, managed storages, accounts of a workload, routes, credentials)
\* exports a key of its own or, by skip_exports, none.
THEOREM StacksKeepOutputs ==
    ASSUME \A u \in Updates : \E p : KeepingProgram(p) /\ u = Update(p)
    PROVE  Spec => []OutputsKept
<1>1. ASSUME NEW u \in Updates PROVE u.shadowed = {}
  <2>1. PICK p : KeepingProgram(p) /\ u = Update(p)
    OBVIOUS
  <2>2. \E K : Once(p, K)
    BY <2>1, OnceHub, OnceAppZone, OnceLandingZone, OnceAppWorkload, OnceDataZone, OnceAzureSql, OnceOracle,
       OnceFirewall, OnceOauthApps, OnceIdentities, OnceAzureEnvironment, OnceSmallBases DEF KeepingProgram
  <2> QED BY <2>1, <2>2, OnceKeeps
<1>2. TypeOK => OutputsKept
  BY <1>1, UpdateKnown DEF OutputsKept
<1> QED BY <1>2, TypeCorrect, PTL

\* A program that exports a key, and one that exports it twice.
Exports(p, key) == \E s \in ToSet(p) : s.output = key
Twice(p, key) == \E i, j \in 1 .. Len(p) : i # j /\ p[i].output = key /\ p[j].output = key

\* What is exported twice is lost once.
LEMMA TwiceShadows ==
    ASSUME NEW p, NEW key, IsList(p), Twice(p, key), key # <<>>
    PROVE  key \in Update(p).shadowed
<1> DEFINE T == {i \in 1 .. Len(p) : p[i].output = key}
<1>1. PICK i \in T, j \in T : i # j
  BY DEF Twice
<1>2. Len(p) \in Nat /\ key \in {s.output : s \in ToSet(p)}
  BY <1>1, ListLen
<1>3. IsFiniteSet(1 .. Len(p))
  <2>1. 1 \in Int /\ Len(p) \in Int
    BY <1>2
  <2> HIDE DEF T
  <2> QED BY <2>1, FS_Interval
<1>4. T \subseteq 1 .. Len(p)
  OBVIOUS
<1>5. Cardinality(T) > 1
  <2> HIDE DEF T
  <2>1. IsFiniteSet(T) /\ Cardinality(T) \in Nat
    BY <1>3, <1>4, FS_Subset, FS_CardinalityType
  <2>2. IsFiniteSet({i}) /\ Cardinality({i}) = 1
    BY FS_Singleton
  <2>3. Cardinality({i} \cup {j}) = 2
    <3>1. j \notin {i}
      BY <1>1
    <3>2. Cardinality({i} \cup {j}) = Cardinality({i}) + 1
      BY <2>2, <3>1, FS_AddElement
    <3> QED BY <2>2, <3>2
  <2>4. {i} \cup {j} \subseteq T
    BY <1>1
  <2>5. Cardinality({i} \cup {j}) <= Cardinality(T)
    BY <2>1, <2>4, FS_Subset
  <2> DEFINE n == Cardinality(T)
  <2>6. n \in Nat /\ 2 <= n
    BY <2>1, <2>3, <2>5
  <2> HIDE DEF n
  <2>7. n > 1
    BY <2>6
  <2> QED BY <2>7 DEF n
<1>6. key \in Shadowed(p)
  BY <1>2, <1>5 DEF Shadowed
<1> QED BY <1>6 DEF Update

\* Two programs that export a key, or one of them twice.
LEMMA TwiceConcat ==
    ASSUME NEW p, NEW q, NEW key, IsList(p), IsList(q)
    PROVE  /\ Exports(p, key) \/ Exports(q, key) => Exports(p \o q, key)
           /\ Exports(p, key) /\ Exports(q, key) => Twice(p \o q, key)
           /\ Twice(p, key) \/ Twice(q, key) => Twice(p \o q, key)
<1>1. Len(p) \in Nat /\ Len(q) \in Nat
      /\ ToSet(p) = {p[i] : i \in 1 .. Len(p)} /\ ToSet(q) = {q[i] : i \in 1 .. Len(q)}
  BY ListLen
<1>2. /\ Len(p \o q) = Len(p) + Len(q) /\ ToSet(p \o q) = ToSet(p) \cup ToSet(q)
      /\ \A i \in 1 .. Len(p) : (p \o q)[i] = p[i]
      /\ \A i \in 1 .. Len(q) : (p \o q)[Len(p) + i] = q[i]
  BY ConcatLists
<1>3. /\ \A i \in 1 .. Len(p) : i \in 1 .. Len(p) + Len(q)
      /\ \A i \in 1 .. Len(q) : Len(p) + i \in 1 .. Len(p) + Len(q)
      /\ \A i, j \in 1 .. Len(q) : i # j => Len(p) + i # Len(p) + j
      /\ \A i \in 1 .. Len(p), j \in 1 .. Len(q) : i # Len(p) + j
  BY <1>1
<1> DEFINE r == p \o q
<1> HIDE DEF r
<1>4. /\ Len(r) = Len(p) + Len(q)
      /\ \A i \in 1 .. Len(p) : r[i] = p[i]
      /\ \A i \in 1 .. Len(q) : r[Len(p) + i] = q[i]
  BY <1>2 DEF r
<1>5. Exports(p, key) \/ Exports(q, key) => Exports(r, key)
  BY <1>2 DEF Exports, r
<1>6. ASSUME Exports(p, key), Exports(q, key) PROVE Twice(r, key)
  <2>1. PICK i \in 1 .. Len(p) : p[i].output = key
    BY <1>1, <1>6 DEF Exports
  <2>2. PICK j \in 1 .. Len(q) : q[j].output = key
    BY <1>1, <1>6 DEF Exports
  <2>3. i \in 1 .. Len(r) /\ Len(p) + j \in 1 .. Len(r) /\ i # Len(p) + j
    BY <1>3, <1>4
  <2>4. r[i].output = key /\ r[Len(p) + j].output = key
    BY <1>4, <2>1, <2>2
  <2> QED BY <2>3, <2>4 DEF Twice
<1>7. ASSUME Twice(p, key) PROVE Twice(r, key)
  <2>1. PICK i \in 1 .. Len(p), j \in 1 .. Len(p) : i # j /\ p[i].output = key /\ p[j].output = key
    BY <1>7 DEF Twice
  <2> QED BY <1>3, <1>4, <2>1 DEF Twice
<1>8. ASSUME Twice(q, key) PROVE Twice(r, key)
  <2>1. PICK i \in 1 .. Len(q), j \in 1 .. Len(q) : i # j /\ q[i].output = key /\ q[j].output = key
    BY <1>8 DEF Twice
  <2>2. Len(p) + i \in 1 .. Len(r) /\ Len(p) + j \in 1 .. Len(r) /\ Len(p) + i # Len(p) + j
    BY <1>3, <1>4, <2>1
  <2>3. r[Len(p) + i].output = key /\ r[Len(p) + j].output = key
    BY <1>4, <2>1
  <2> QED BY <2>2, <2>3 DEF Twice
<1> QED BY <1>5, <1>6, <1>7, <1>8 DEF r

\* The first two of any number of programs.
LEMMA TwiceAll ==
    ASSUME NEW f, NEW list, IsList(list), f = [i \in 1 .. Len(list) |-> f[i]], Len(list) >= 2,
           \A i \in 1 .. Len(list) : IsList(f[i]),
           NEW key, Exports(f[1], key), Exports(f[2], key)
    PROVE  Twice(FlattenSeq(f), key) /\ IsList(FlattenSeq(f))
<1>1. IsList(f) /\ Len(f) = Len(list) /\ Len(f) \in Nat /\ Len(f) # 0
  BY ListLen, ListOf
<1>2. PICK g : /\ FlattenSeq(f) = g[Len(f)]
               /\ g[1] = f[1]
               /\ \A i \in 2 .. Len(f) : g[i] = g[i - 1] \o f[i]
  BY <1>1, FlattenSteps
<1> DEFINE Holds(k) == IsList(g[k]) /\ Twice(g[k], key)
           T == {k \in Nat : k + 2 \in 1 .. Len(f) => Holds(k + 2)}
<1>3. 0 \in T
  <2>1. 1 \in 1 .. Len(list) /\ 2 \in 1 .. Len(list) /\ 2 \in 2 .. Len(f) /\ 2 - 1 = 1
    BY <1>1
  <2>2. g[2] = f[1] \o f[2] /\ IsList(f[1]) /\ IsList(f[2])
    BY <1>2, <2>1
  <2>3. Holds(2)
    BY <2>2, TwiceConcat, ConcatLists
  <2> HIDE DEF Holds
  <2> QED BY <2>3, 0 + 2 = 2
<1>4. ASSUME NEW k \in Nat, k \in T PROVE k + 1 \in T
  <2>1. ASSUME k + 3 \in 1 .. Len(f) PROVE Holds(k + 3)
    <3>1. k + 2 \in 1 .. Len(f) /\ k + 3 \in 2 .. Len(f) /\ (k + 3) - 1 = k + 2
      BY <1>1, <2>1
    <3>2. Holds(k + 2) /\ IsList(f[k + 3])
      BY <1>1, <1>4, <2>1, <3>1
    <3>3. g[k + 3] = g[k + 2] \o f[k + 3]
      BY <1>2, <3>1
    <3> QED BY <3>2, <3>3, TwiceConcat, ConcatLists
  <2>2. (k + 1) + 2 = k + 3 /\ k + 1 \in Nat
    OBVIOUS
  <2> HIDE DEF Holds
  <2> QED BY <2>1, <2>2
<1>5. Len(f) - 2 \in Nat /\ (Len(f) - 2) + 2 = Len(f) /\ Len(f) \in 1 .. Len(f)
  BY <1>1
<1>6. Len(f) - 2 \in T
  <2> HIDE DEF T
  <2> QED BY <1>3, <1>4, <1>5, Induction
<1>7. Holds(Len(f))
  <2> HIDE DEF Holds
  <2> QED BY <1>5, <1>6
<1> QED BY <1>2, <1>7

\* The limit of the above: every hub with two public zones or more loses an output.
\* deploy_hub_spoke sets skip_exports on the copy of the zone's configuration, and a
\* zone that exports looks at the stack.
THEOREM ZonesShareAKey ==
    ASSUME NEW c, HubConfiguration(c), Len(c.dns_zone \o c.dns_zones) >= 2,
           \A zone \in ToSet(c.dns_zone) \cup ToSet(c.dns_zones) : zone.skip_exports = FALSE
    PROVE  <<"dns_zone">> \in Update(HubSpokeProgram(c)).shadowed
<1> DEFINE key == <<"dns_zone">>
           list == c.dns_zone \o c.dns_zones
           f == [i \in 1 .. Len(list) |-> DnsZoneProgram(ResourceGroup, list[i])]
           export == <<Export(<<"dns_zones">>)>>
           vnet == VnetProgram(c.vnet)
           wan == (((VwanProgram(c.vwan) \o When(c.p2s_vpn, P2sProgram))
                  \o When(c.s2s_vpn, S2sProgram(c.vwan)))
                  \o DefaultZones(c)) \o <<Export(<<"private_endpoint_dns_zones">>)>>
           w == When(c.has_vwan, wan)
           vpn == When(c.has_vpn, VpnProgram(c.vpn))
           zones == HubDnsZones(c)
           resolver == When(c.has_resolver, ResolverProgram(c.resolver))
           private == ForEach(c.private_dns_zones, LAMBDA zone, i :
                        PrivateZoneProgram([zone EXCEPT !.skip_exports = TRUE]))
           ends == When(c.private_dns_zones # <<>>, <<Export(<<"private_dns_zones">>)>>)
<1>1. HubSpokeProgram(c) =
        ((((((Begin \o vnet) \o w) \o vpn) \o zones) \o resolver) \o private) \o ends
  BY DEF HubSpokeProgram
<1>2. IsList(list) /\ \A i \in 1 .. Len(list) : Lists(list[i], {"records"}) /\ list[i].skip_exports = FALSE
  <2>1. IsList(c.dns_zone) /\ IsList(c.dns_zones)
    BY DEF HubConfiguration, Lists
  <2>2. IsList(list) /\ ToSet(list) = ToSet(c.dns_zone) \cup ToSet(c.dns_zones)
    BY <2>1, ConcatLists
  <2> HIDE DEF list
  <2> QED BY <2>2, ListLen DEF HubConfiguration
<1>3. zones = FlattenSeq(f) \o export
  BY DEF HubDnsZones, ForEach
<1>4. ASSUME NEW zone, Lists(zone, {"records"}), zone.skip_exports = FALSE
      PROVE  Exports(DnsZoneProgram(ResourceGroup, zone), key)
  <2> DEFINE last == <<Export(<<"dns_zone">>)>>
             dnssec == Resource(DnsZoneComponent(ResourceGroup, zone), "DnssecConfig", FmtName(zone.name),
                                {GroupOf(zone).urn, DnsZone(ResourceGroup, zone).urn})
             front == (((<<DnsZoneComponent(ResourceGroup, zone), DnsZone(ResourceGroup, zone)>>
                    \o When(zone.group # "" /\ zone.records # <<>>, <<GroupOf(zone)>>))
                    \o DnsRecords(ResourceGroup, zone))
                    \o When(zone.parent_zone,
                         When(zone.other_subscription, <<Provider(<<"parent", zone.name>>)>>)
                         \o <<ParentNsRecord(ResourceGroup, zone)>>))
                    \o When(zone.enable_dnssec, <<dnssec>>)
  <2>1. DnsZoneProgram(ResourceGroup, zone) = front \o last
    BY <1>4 DEF DnsZoneProgram, When
  <2>2. IsList(last) /\ Exports(last, key)
    <3> DEFINE s == Export(key)
    <3>1. s.output = key
      BY DEF Export, Statement
    <3> HIDE DEF s, key
    <3>2. IsList(<<s>>) /\ ToSet(<<s>>) = {s}
      <4>1. <<s>> \in Seq({s}) /\ Len(<<s>>) = 1 /\ <<s>>[1] = s
        OBVIOUS
      <4>2. IsList(<<s>>) /\ ToSet(<<s>>) = {<<s>>[i] : i \in 1 .. 1}
        BY <4>1, ListSet
      <4>3. 1 .. 1 = {1}
        OBVIOUS
      <4> QED BY <4>1, <4>2, <4>3
    <3>3. last = <<s>>
      BY DEF s, key
    <3> QED BY <3>1, <3>2, <3>3 DEF Exports
  <2>3. IsList(front)
    <3>1. /\ \A n : IsList(<<n>>) /\ \A m : IsList(<<n, m>>)
          /\ \A condition, p : (condition => IsList(p)) => IsList(When(condition, p))
      <4>1. IsList(<<>>)
        BY PlainEmpty DEF PlainProgram
      <4>2. ASSUME NEW n, NEW m PROVE IsList(<<n>>) /\ IsList(<<n, m>>)
        <5>1. <<n>> \in Seq({n}) /\ <<n, m>> \in Seq({n, m})
          OBVIOUS
        <5> QED BY <5>1, ListSet
      <4> QED BY <4>1, <4>2 DEF When
    <3>2. IsList(DnsRecords(ResourceGroup, zone))
      <4> DEFINE n == Len(zone.records)
                 e == [i \in 1 .. n |-> DnsRecord(ResourceGroup, zone, zone.records[i])]
      <4>1. n \in Nat
        BY <1>4, ListLen DEF Lists
      <4>2. e = [i \in 1 .. n |-> e[i]] /\ DnsRecords(ResourceGroup, zone) = e
        BY DEF DnsRecords
      <4> HIDE DEF e, n
      <4> QED BY <4>1, <4>2, ListOf
    <3> HIDE DEF dnssec
    <3> QED BY <3>1, <3>2, ConcatLists
  <2> HIDE DEF front, last, key
  <2> QED BY <2>1, <2>2, <2>3, TwiceConcat
<1>5. Twice(zones, key) /\ IsList(zones)
  <2>1. /\ f = [i \in 1 .. Len(list) |-> f[i]]
        /\ \A i \in 1 .. Len(list) : f[i] = DnsZoneProgram(ResourceGroup, list[i])
    OBVIOUS
  <2>2. IsList(export)
    BY OnceExport DEF Once
  <2>3. 1 \in 1 .. Len(list) /\ 2 \in 1 .. Len(list) /\ Len(list) >= 2
    <3>1. Len(list) >= 2
      OBVIOUS
    <3> HIDE DEF list
    <3>2. Len(list) \in Nat
      BY <1>2, ListLen
    <3> QED BY <3>1, <3>2
  <2> HIDE DEF f, list, key, export, zones
  <2>4. \A i \in 1 .. Len(list) : IsList(f[i]) /\ Exports(f[i], key)
    BY <1>2, <1>4, <2>1, PlainDnsZone DEF PlainProgram
  <2>5. Twice(FlattenSeq(f), key) /\ IsList(FlattenSeq(f))
    BY <1>2, <2>1, <2>3, <2>4, TwiceAll
  <2> QED BY <1>3, <2>2, <2>5, TwiceConcat, ConcatLists
<1>6. IsList(Begin) /\ IsList(vnet) /\ IsList(w) /\ IsList(vpn) /\ IsList(resolver) /\ IsList(private) /\ IsList(ends)
  <2>1. PlainProgram(vnet) /\ PlainProgram(vpn) /\ PlainProgram(resolver) /\ PlainProgram(ends)
    BY PlainVnet, PlainVpn, PlainResolver, PlainExport, PlainOne, PlainWhen DEF HubConfiguration
  <2>2. IsList(w)
    <3> DEFINE e == <<Export(<<"private_endpoint_dns_zones">>)>>
               a == VwanProgram(c.vwan)
               b == When(c.p2s_vpn, P2sProgram)
               s == When(c.s2s_vpn, S2sProgram(c.vwan))
               d == DefaultZones(c)
    <3>1. IsList(a) /\ IsList(b) /\ IsList(s) /\ IsList(e) /\ IsList(d)
      <4>1. Lists(c.vwan, {"hub_vnet_connections", "sites"})
        BY DEF HubConfiguration
      <4>2. PlainProgram(a) /\ PlainProgram(b) /\ PlainProgram(s) /\ PlainProgram(e)
        BY <4>1, PlainVwan, PlainWhen, PlainExport, PlainOne
      <4> QED BY <4>2, SilentDefaultZones DEF Silent, PlainProgram
    <3>2. wan = (((a \o b) \o s) \o d) \o e
      OBVIOUS
    <3> HIDE DEF a, b, s, d, e, wan
    <3>3. IsList(wan)
      BY <3>1, <3>2, ConcatLists
    <3>4. IsList(<<>>)
      BY PlainEmpty DEF PlainProgram
    <3> QED BY <3>3, <3>4 DEF When
  <2>3. IsList(private)
    <3>1. ASSUME NEW zone, Lists(zone, {"linked_vnets", "records"})
          PROVE  PlainProgram(PrivateZoneProgram([zone EXCEPT !.skip_exports = TRUE]))
      BY <3>1, PlainPrivateZone DEF Lists
    <3>2. IsList(c.private_dns_zones)
      BY DEF HubConfiguration, Lists
    <3>3. \A i \in 1 .. Len(c.private_dns_zones) : Lists(c.private_dns_zones[i], {"linked_vnets", "records"})
      BY <3>2, ListLen DEF HubConfiguration
    <3>4. PlainProgram(private)
      BY <3>1, <3>2, <3>3, PlainAll DEF ForEach
    <3> QED BY <3>4 DEF PlainProgram
  <2> HIDE DEF vnet, w, vpn, resolver, private, ends
  <2> QED BY <2>1, <2>2, <2>3, BeginFacts DEF PlainProgram
<1> HIDE DEF vnet, w, vpn, zones, resolver, private, ends, key
<1>7. IsList((((Begin \o vnet) \o w) \o vpn)) /\ Twice((((Begin \o vnet) \o w) \o vpn) \o zones, key)
      /\ IsList((((Begin \o vnet) \o w) \o vpn) \o zones)
  BY <1>5, <1>6, TwiceConcat, ConcatLists
<1>8. IsList(HubSpokeProgram(c)) /\ Twice(HubSpokeProgram(c), key)
  <2> DEFINE before == (((Begin \o vnet) \o w) \o vpn) \o zones
  <2>1. IsList(before) /\ Twice(before, key)
    BY <1>7
  <2>2. HubSpokeProgram(c) = ((before \o resolver) \o private) \o ends
    BY <1>1
  <2> HIDE DEF before
  <2> QED BY <1>6, <2>1, <2>2, TwiceConcat, ConcatLists
<1>9. key # <<>>
  BY DEF key
<1>10. key \in Update(HubSpokeProgram(c)).shadowed
  BY <1>8, <1>9, TwiceShadows
<1> QED BY <1>10 DEF key
=============================================================================
