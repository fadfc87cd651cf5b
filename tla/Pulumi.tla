------------------------------- MODULE Pulumi -------------------------------
(***************************************************************************)
(* What a Pulumi program is, as far as the components of this repository   *)
(* use the SDK: a sequence of statements, each of which declares a         *)
(* resource (or raises).  The SDK itself is a library: these definitions   *)
(* say what the components rely on.                                        *)
(*                                                                         *)
(* A statement is a record:                                                *)
(*   urn   - the identity the engine keeps: the types of the ancestors,    *)
(*           the type and the resource_name;                               *)
(*   comp  - a ComponentResource: a node of the tree with nothing to       *)
(*           provision;                                                    *)
(*   inside - the components it belongs to: its ancestors as far as they   *)
(*            are components without a gap;                                *)
(*   deps  - what its registration waits for: the Outputs among its        *)
(*           arguments, depends_on, and its parent;                        *)
(*   uses  - what must exist in Azure for the call to succeed: whatever    *)
(*           its arguments name, by an Output or by a plain string;        *)
(*   takes - what it takes in Azure that only one resource can have: its    *)
(*           name (the URN itself when Pulumi appends a random suffix);     *)
(*   lock  - the Azure object that admits one write at a time, if any;     *)
(*   keys  - the keys of the secrets it registers, which Azure wants to be *)
(*           distinct;                                                     *)
(*   output - the stack output it exports, when it is no declaration: an   *)
(*            output exported twice keeps the last value;                  *)
(*   raises - the statement raises an exception instead;                   *)
(*   early - the exception comes while the configuration is read.          *)
(***************************************************************************)
EXTENDS Naturals, FiniteSets, SequencesExt

Statement == [urn |-> <<<<>>, "", "">>, comp |-> FALSE, inside |-> {},
              deps |-> {}, uses |-> {}, takes |-> {}, lock |-> <<>>, keys |-> <<>>,
              output |-> <<>>, raises |-> FALSE, early |-> FALSE]

\* The stack itself: the parent of whatever is declared without one.
Root == [Statement EXCEPT !.comp = TRUE]

\* A child waits for its parent's URN: at once for a component (which waits
\* for its own parent, and is deleted after its children: what it depends on counts
\* as theirs), after provisioning for a resource.
Gate(parent) == IF parent.comp THEN parent.deps ELSE {parent.urn}

Ancestry(parent) ==
    IF parent = Root THEN <<>> ELSE Append(parent.urn[1], parent.urn[2])

Inside(parent) ==
    IF parent.comp /\ parent # Root THEN parent.inside \cup {parent.urn} ELSE {}

Component(parent, type, name) ==
    [Statement EXCEPT !.urn = <<Ancestry(parent), type, name>>, !.comp = TRUE,
                      !.inside = Inside(parent), !.deps = Gate(parent)]

\* refs: the URNs whose Outputs are among the arguments.
Resource(parent, type, name, refs) ==
    LET urn == <<Ancestry(parent), type, name>>
    IN  [Statement EXCEPT !.urn = urn, !.inside = Inside(parent),
                          !.deps = Gate(parent) \cup refs, !.uses = refs, !.takes = {urn}]

\* An argument that names other resources by a plain string: nothing waits.
Naming(statement, named) == [statement EXCEPT !.uses = @ \cup named]

\* depends_on: it waits, whatever the arguments say.
DependsOn(statement, waits) == [statement EXCEPT !.deps = @ \cup waits]

\* depends_on of a component stands for the resources that belong to it, which
\* the children of those resources do not.
Members(component, program) ==
    {n.urn : n \in {m \in ToSet(program) : ~m.comp /\ component.urn \in m.inside}}

\* An explicit Azure name: no random suffix, so the name can be taken.
Fixed(statement, name) == [statement EXCEPT !.takes = {<<statement.urn[2], name>>}]

\* Something else that no two resources can have.
Taking(statement, what) == [statement EXCEPT !.takes = @ \cup {what}]

\* Azure takes one write at a time on `object'.
OneAtATime(statement, object) == [statement EXCEPT !.lock = object]

\* stack.export: one key of the stack's outputs, after the prefix if there is one.
Export(key) == [Statement EXCEPT !.comp = TRUE, !.output = key]

Raise == <<[Statement EXCEPT !.raises = TRUE]>>

\* What a validator of the configuration leaves: the program, or an exception
\* before the first statement of the whole program, wherever this part of it is.
Validated(accepted, program) ==
    IF accepted THEN program ELSE <<[Statement EXCEPT !.raises = TRUE, !.early = TRUE]>>

\* A base that reads its configuration after it has asked for the stack.
ReadHere(program) == IF \E s \in ToSet(program) : s.early THEN Raise ELSE program

Urns(nodes) == {n.urn : n \in nodes}

\* The statements of `if condition:'.
When(condition, program) == IF condition THEN program ELSE <<>>

\* The statements of `for x in list:', Op(x, i) for the i-th.
ForEach(list, Op(_, _)) == FlattenSeq([i \in 1 .. Len(list) |-> Op(list[i], i)])

\* stack.resource_group: declared by the first statement that asks for it,
\* cached after that; read, not created, when the stack names one.
ResourceGroup == Resource(Root, "ResourceGroup", "w", {})

RG == ResourceGroup.urn

\* What the engine gets of a program: every statement before the first that
\* raises or declares a URN a second time; nothing when the configuration is refused.
Faulty(program, i) ==
    \/ program[i].raises
    \/ /\ program[i].output = <<>>
       /\ \E j \in 1 .. i - 1 : program[j].urn = program[i].urn

Runs(program) == \A i \in 1 .. Len(program) : ~Faulty(program, i)

Registered(program) ==
    LET faults == {i \in 1 .. Len(program) : Faulty(program, i)}
    IN  IF \E s \in ToSet(program) : s.early THEN <<>>
        ELSE IF faults = {} THEN program
        ELSE SubSeq(program, 1, Min(faults) - 1)

\* All that a statement waits for before it is registered, directly or not: Outputs
\* come from statements before it.
Waits(program) ==
    LET waits[i \in 1 .. Len(program)] ==
          program[i].deps \cup
          UNION {waits[j] : j \in {k \in 1 .. i - 1 : program[k].urn \in program[i].deps}}
    IN  waits

\* The outputs a program exports more than once.
Shadowed(program) ==
    {o \in {s.output : s \in ToSet(program)} \ {<<>>} :
        Cardinality({i \in 1 .. Len(program) : program[i].output = o}) > 1}

\* What one update is about: the resources to provision, what each waits for while
\* the program runs (the state file keeps only the direct dependencies), whether the
\* program gets to its end, and the outputs it loses.
Update(program) ==
    LET registered == Registered(program)
        waits == Waits(registered)
        resources == {i \in 1 .. Len(registered) : ~registered[i].comp}
        goal == {registered[i] : i \in resources}
    IN  [ goal |-> goal,
          waits |-> [u \in Urns(goal) |->
                       UNION {waits[i] : i \in {k \in resources : registered[k].urn = u}}],
          runs |-> Runs(program),
          shadowed |-> Shadowed(program) ]
=============================================================================
