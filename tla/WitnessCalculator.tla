-------------------------- MODULE WitnessCalculator -------------------------
(***************************************************************************)
(* The native witness calculator of the circuit                            *)
(* (parachain/pallets/zk_privacy/src/circom/circuit_cpp): loadJson and     *)
(* main of main.cpp feed the values of a JSON document to Circom_CalcWit   *)
(* (calcwit.cpp), which starts the generated program (CircuitProgram) when *)
(* the last input has been assigned; the witness is written afterwards.    *)
(*                                                                         *)
(* The program has one thread.  A step is one key of the document, one     *)
(* value, or one statement of a *_run function; a run of PoseidonEx or     *)
(* MultiMux1 is part of the statement that gave it its last input.         *)
(***************************************************************************)
EXTENDS CircuitProgram, InputHashMap

CONSTANTS
    Documents,    \* the documents tried, qualified: sequences of [key, values] by key
    Hash,         \* fnv1a of every key
    HashMapSize,  \* get_size_of_input_hashmap(): 256
    HashMap,      \* the table circuit.dat holds
    FieldPrime,   \* the order of the field
    Permute(_)    \* what PoseidonEx computes from its inputs, in the field

MainStart == 1   \* get_main_input_signal_start()
MainInputs == MainStart..(MainStart + InputCount - 1)

\* The compiler's part: a slot of the table is empty or describes input signals.
ASSUME CalculatorAssumption ==
    /\ FieldPrime \in Nat \ {0, 1}
    /\ HashMapSize \in Nat \ {0}
    /\ HashMap \in [0..(HashMapSize - 1) -> [hash : Nat, signalid : Nat, signalsize : Nat]]
    /\ \A p \in DOMAIN HashMap : \A i \in 0..(HashMap[p].signalsize - 1) :
          HashMap[p].signalid + i \in MainInputs
    /\ Hash \in [DOMAIN Hash -> Nat]
    /\ \A d \in Documents : d \in Seq([key : DOMAIN Hash, values : Seq(0..(FieldPrime - 1))])

VARIABLES
    doc,        \* the document
    key,        \* loadJson: the entry it is at
    next,       \* loadJson: the next value of the entry, 0 before its size is checked
    counter,    \* inputSignalAssignedCounter
    assigned,   \* inputSignalAssigned
    signals,    \* signalValues, on the signals that were written
    components, \* componentMemory, on the components that were created
    stack,      \* the *_run calls under way, the innermost first
    lvar,       \* sumIns and sumOuts of Transaction_run
    runs,       \* how often the circuit was started (history)
    outcome     \* "none", "aborted" (an assert, an exception) or "written"

loadVars == <<doc, key, next, counter, assigned, runs>>
runVars == <<components, stack, lvar>>
vars == <<loadVars, runVars, signals, outcome>>

\* signalValues and componentMemory are functions on what was written of them: one
\* place written, and some places written over what there was.  (:> and @@ of TLC,
\* which have no definition in the proof system.)
Single(x, value) == [y \in {x} |-> value]
Overlay(new, old) ==
    [x \in DOMAIN new \cup DOMAIN old |-> IF x \in DOMAIN new THEN new[x] ELSE old[x]]

Init ==
    /\ doc \in Documents
    /\ key = 1 /\ next = 0
    /\ counter = InputCount
    /\ assigned = {}
    /\ signals = Single(0, 1)
    /\ components = << >>
    /\ stack = << >>
    /\ lvar = [ins |-> 0, outs |-> 0]
    /\ runs = 0
    /\ outcome = "none"

Abort == outcome' = "aborted" /\ UNCHANGED <<loadVars, runVars, signals>>

-----------------------------------------------------------------------------
(***************************************************************************)
(* Loading.                                                                *)
(***************************************************************************)
Loading == outcome = "none" /\ stack = << >>

Position == GetInputSignalHashPosition(HashMap, Hash[doc[key].key])

\* A key of the document: getInputSignalSize, and the number of its values.  (A
\* document without keys calls tryRunCircuit, which finds every input missing.)
LoadKey ==
    /\ Loading /\ key <= Len(doc) /\ next = 0
    /\ IF Position # NotFound /\ Len(doc[key].values) = HashMap[Position].signalsize
       THEN /\ IF doc[key].values = << >> THEN key' = key + 1 /\ UNCHANGED next
               ELSE next' = 1 /\ UNCHANGED key
            /\ UNCHANGED <<doc, counter, assigned, runs, runVars, signals, outcome>>
       ELSE Abort

Component(template, start) ==
    [template |-> template, signalStart |-> start,
     inputCounter |-> Templates[template].inputs, subcomponents |-> << >>]

\* run(): the main component is created and its program started.
Run ==
    /\ components' = Single(0, Component("Transaction", MainStart))
    /\ stack' = <<[component |-> 0, at |-> 1]>>
    /\ runs' = runs + 1

\* Mutant: the circuit is started one input early.
TryRunEarly(remaining) == IF remaining = 1 THEN Run ELSE UNCHANGED <<components, stack, runs>>

TryRunCircuit(remaining) == IF remaining = 0 THEN Run ELSE UNCHANGED <<components, stack, runs>>

\* Mutant: an input may be assigned twice.
AssignableTwice(si) == counter # 0

Assignable(si) == counter # 0 /\ si \notin assigned

\* One value of the entry: setInputSignal.
SetInputSignal ==
    LET si == HashMap[Position].signalid + next - 1 IN
    /\ Loading /\ next # 0
    /\ IF next <= HashMap[Position].signalsize /\ Assignable(si)
       THEN /\ signals' = Overlay(Single(si, doc[key].values[next]), signals)
            /\ assigned' = assigned \cup {si}
            /\ counter' = counter - 1
            /\ TryRunCircuit(counter - 1)
            /\ IF next = Len(doc[key].values) THEN key' = key + 1 /\ next' = 0
               ELSE next' = next + 1 /\ UNCHANGED key
            /\ UNCHANGED <<doc, lvar, outcome>>
       ELSE Abort

\* Mutant: main does not ask whether inputs are missing.
WriteWitnessAnyway ==
    /\ Loading /\ key > Len(doc)
    /\ outcome' = "written" /\ UNCHANGED <<loadVars, runVars, signals>>

\* The rest of main.
WriteWitness ==
    /\ Loading /\ key > Len(doc)
    /\ IF counter = 0 THEN outcome' = "written" /\ UNCHANGED <<loadVars, runVars, signals>>
       ELSE Abort

-----------------------------------------------------------------------------
(***************************************************************************)
(* Running.  `top` is the call under way, `cmp` its component.             *)
(***************************************************************************)
top == stack[1]
cmp == components[top.component]
statement == Templates[cmp.template].run[top.at]
Running(op) ==
    /\ outcome = "none" /\ stack # << >>
    /\ top.at <= Len(Templates[cmp.template].run)
    /\ statement.op = op

Advanced == [stack EXCEPT ![1].at = @ + 1]

Address(ref) == (IF ref.of = 0 THEN cmp ELSE components[cmp.subcomponents[ref.of]]).signalStart + ref.at

Garbage == -1   \* what a signal holds that nothing was written to

Value(address) == IF address \in DOMAIN signals THEN signals[address] ELSE Garbage
Load(ref) == IF ref.of = -1 THEN 0 ELSE Value(Address(ref))

CreateSubcomponents ==
    LET t == Templates[statement.template]
        Id(i) == top.component + statement.component + i * t.components
        created == [x \in {Id(i) : i \in 0..(statement.count - 1)} |->
                       Component(statement.template,
                                 cmp.signalStart + statement.signal
                                 + ((x - Id(0)) \div t.components) * t.signals)]
    IN  /\ Running("create")
        /\ components' = [Overlay(created, components) EXCEPT ![top.component].subcomponents =
                             SubSeq(@, 1, statement.first - 1)
                             \o [k \in 1..statement.count |-> Id(k - 1)]]
        /\ stack' = Advanced
        /\ UNCHANGED <<loadVars, signals, lvar, outcome>>

\* What the run of a template without statements writes: PoseidonEx the hash of
\* its inputs, MultiMux1 out[i] = (c[i][1] - c[i][0]) * s + c[i][0].
LeafOutputs(template, start, written) ==
    LET Arg(k) == IF start + k \in DOMAIN written THEN written[start + k] ELSE Garbage IN
    IF template = "MultiMux1"
    THEN [a \in start..(start + 1) |->
             LET c0 == Arg(2 * (a - start) + 2)
                 c1 == Arg(2 * (a - start) + 3)
             IN  ((c1 - c0) * Arg(6) + c0) % FieldPrime]
    ELSE Single(start, Permute([k \in 1..Templates[template].inputs |-> Arg(k)]))

\* The u32 inputCounter is counted down for every input and never passes zero
\* (CountersCountInputs).
SetSubcomponentInput ==
    LET id == cmp.subcomponents[statement.sub]
        sub == components[id]
        left == sub.inputCounter - 1
        written == Overlay(Single(sub.signalStart + statement.at, Load(statement.from)), signals)
        leaf == Templates[sub.template].run = << >>
    IN  /\ Running("set")
        /\ signals' = IF left = 0 /\ leaf
                      THEN Overlay(LeafOutputs(sub.template, sub.signalStart, written), written)
                      ELSE written
        /\ components' = [components EXCEPT ![id].inputCounter = left]
        /\ stack' = IF left = 0 /\ ~leaf THEN <<[component |-> id, at |-> 1]>> \o Advanced
                    ELSE Advanced
        /\ UNCHANGED <<loadVars, lvar, outcome>>

CopySignal ==
    /\ Running("copy")
    /\ signals' = Overlay(Single(cmp.signalStart + statement.at, Load(statement.from)), signals)
    /\ stack' = Advanced
    /\ UNCHANGED <<loadVars, components, lvar, outcome>>

AddToSum ==
    /\ Running("add")
    /\ lvar' = [lvar EXCEPT ![statement.var] = (@ + Load(statement.from)) % FieldPrime]
    /\ stack' = Advanced
    /\ UNCHANGED <<loadVars, components, signals, outcome>>

Continue(holds) ==
    IF holds THEN stack' = Advanced /\ UNCHANGED <<loadVars, components, lvar, signals, outcome>>
    ELSE Abort

CheckEqual == Running("assert") /\ Continue(Load(statement.left) = Load(statement.right))

\* Mutant: the sums are not compared.
CheckSumsSkipped == Running("assertSums") /\ Continue(TRUE)

CheckSums == Running("assertSums") /\ Continue(lvar.ins = lvar.outs)

\* The end of a *_run: every sub-component must have had all its inputs, and
\* what it kept of its own sub-components is released.
Return ==
    LET subs == {cmp.subcomponents[k] : k \in DOMAIN cmp.subcomponents} IN
    /\ outcome = "none" /\ stack # << >>
    /\ top.at > Len(Templates[cmp.template].run)
    /\ IF \A id \in subs : components[id].inputCounter = 0
       THEN /\ components' = [id \in DOMAIN components |->
                  IF id \in subs THEN [components[id] EXCEPT !.subcomponents = << >>]
                  ELSE components[id]]
            /\ stack' = Tail(stack)
            /\ UNCHANGED <<loadVars, lvar, signals, outcome>>
       ELSE Abort

-----------------------------------------------------------------------------
LoadStep == LoadKey \/ SetInputSignal \/ WriteWitness
Step == CreateSubcomponents \/ SetSubcomponentInput \/ CopySignal \/ AddToSum
        \/ CheckEqual \/ CheckSums \/ Return

\* The process has ended.  Any other state in which nothing can be done is a
\* deadlock, so every document is answered.
Answered == outcome # "none" /\ UNCHANGED vars

Next == LoadStep \/ Step \/ Answered

Spec == Init /\ [][Next]_vars

-----------------------------------------------------------------------------
(***************************************************************************)
(* Properties.                                                             *)
(***************************************************************************)
\* RunsOnceComplete: whatever the document holds and in whatever order, the
\* circuit is started at most once, when the last input has been assigned, and
\* a witness is only written after that.
RunsOnceComplete ==
    /\ runs <= 1
    /\ runs = 1 <=> assigned = MainInputs
    /\ outcome = "written" => runs = 1

\* CountersCountInputs: the inputCounter of a component is the number of its
\* input signals that are still unwritten; so it runs once, with all its inputs
\* there, and never before (tryRun of the *_run functions).
CountersCountInputs ==
    \A id \in DOMAIN components \ {0} :
        LET c == components[id]
            t == Templates[c.template]
            inputs == {c.signalStart + t.firstInput + k : k \in 0..(t.inputs - 1)}
        IN  c.inputCounter = Cardinality(inputs \ DOMAIN signals)

\* NoUninitializedRead: no statement reads a signal nothing was written to;
\* signalValues is allocated uninitialised (calcwit.cpp:33).
NoUninitializedRead ==
    outcome = "none" /\ stack # << >> /\ top.at <= Len(Templates[cmp.template].run) =>
        LET refs == CASE statement.op \in {"set", "copy", "add"} -> {statement.from}
                      [] statement.op = "assert" -> {statement.left, statement.right}
                      [] OTHER -> {}
        IN  \A ref \in refs : ref.of # -1 => Address(ref) \in DOMAIN signals

\* RegionsTile: the sub-components of a component take up consecutive signals
\* and consecutive places in componentMemory, after its own and within its
\* region: no two components share a signal or a place.
RegionsTile ==
    \A id \in DOMAIN components :
        LET c == components[id]
            t == Templates[c.template]
            subs == c.subcomponents
            T(k) == Templates[components[subs[k]].template]
            S(k) == components[subs[k]].signalStart
        IN  subs # << >> =>
            /\ subs[1] = id + 1 /\ S(1) = c.signalStart + t.own
            /\ \A k \in 1..(Len(subs) - 1) :
                  subs[k + 1] = subs[k] + T(k).components /\ S(k + 1) = S(k) + T(k).signals
            /\ subs[Len(subs)] + T(Len(subs)).components <= id + t.components
            /\ S(Len(subs)) + T(Len(subs)).signals <= c.signalStart + t.signals

\* SingleAssignment: a signal that has a value keeps it.
SingleAssignment ==
    [][\A s \in DOMAIN signals : s \in DOMAIN signals' /\ signals'[s] = signals[s]]_vars

(***************************************************************************)
(* The circuit as it was written, on the values of the document.           *)
(***************************************************************************)
Circuit == INSTANCE CircuitTemplate WITH
    Poseidon <- LAMBDA xs : Permute(Append(xs, 0)),
    Mux <- LAMBDA s, c0, c1 : ((c1 - c0) * s + c0) % FieldPrime,
    FieldSum <- LAMBDA xs : FoldLeft(LAMBDA sum, x : (sum + x) % FieldPrime, 0, xs)

WellFormed ==
    /\ Len(doc) = Len(InputSignals)
    /\ \A n \in InputNames : \E k \in DOMAIN doc :
          doc[k].key = n /\ Len(doc[k].values) = InputSize[n]

Given(n) == doc[CHOOSE k \in DOMAIN doc : doc[k].key = n].values
Rows(n) == [i \in 1..Slots |-> SubSeq(Given(n), Levels * (i - 1) + 1, Levels * i)]

GivenSignals ==
    [root |-> Given("root")[1],
     nullifierHashes |-> Given("nullifierHashes"), outCommitments |-> Given("outCommitments"),
     inAmount |-> Given("inAmount"), inSecret |-> Given("inSecret"),
     inRecipient |-> Given("inRecipient"),
     inPathElements |-> Rows("inPathElements"), inPathIndices |-> Rows("inPathIndices"),
     outAmount |-> Given("outAmount"), outSecret |-> Given("outSecret"),
     outRecipient |-> Given("outRecipient")]

\* WitnessIffCircuit: a witness is written exactly when the document gives every
\* input its number of values and they satisfy the circuit of circuit.circom.
WitnessIffCircuit ==
    outcome # "none" =>
        (outcome = "written" <=> WellFormed /\ Circuit!Transaction(GivenSignals))

\* WitnessComplete: when the witness is written, every input and every signal of
\* every component has been computed; nothing of the uninitialised signalValues
\* gets into the file.
WitnessComplete ==
    outcome = "written" =>
        /\ 0 \in DOMAIN components
        /\ \A id \in DOMAIN components :
              LET c == components[id] IN
              \A a \in c.signalStart..(c.signalStart + Templates[c.template].own - 1) :
                  a \in DOMAIN signals
=============================================================================
