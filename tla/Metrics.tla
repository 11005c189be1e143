------------------------------ MODULE Metrics ------------------------------
(***************************************************************************)
(* The Rust analyzer of remap-quality (rust_metrics.rs, limits.rs,         *)
(* model.rs): a visitor of one source file that checks every function and  *)
(* every type, and for each function a second visitor that counts          *)
(* decisions and nesting.                                                  *)
(*                                                                         *)
(* A file is its syntax tree: the nodes that either visitor overrides, in  *)
(* the order in which syn visits them, each with the node it stands in.    *)
(* Node i begins on line i, no two on one line, and a node ends where its  *)
(* last descendant does.  Names, help and the path of a violation are left *)
(* out, and so are attributes, which would put the first line of a         *)
(* function above that of its signature.                                   *)
(***************************************************************************)
EXTENDS Integers, Sequences, FiniteSets, Functions, FiniteSetsExt

CONSTANTS
  Kinds,             \* the kinds of node in use
  Counts,            \* numbers of arms and of parameters
  MaxNodes,          \* bound on the size of a file
  MaxFunctionLines, MaxTypeLines, MaxParameters, MaxComplexity, MaxNesting

Branches      == {"if", "else if"}              \* ExprIf, in the else of another or not
Loops         == {"for", "while", "loop"}
ControlFlow   == Branches \cup Loops \cup {"match"}
FunctionKinds == {"fn", "signature"}   \* a signature is a trait's function without default
Counted       == FunctionKinds \cup {"match"}
AllKinds      == ControlFlow \cup FunctionKinds \cup {"type", "and", "let"}

ASSUME MetricsAssumption ==
  /\ Kinds \subseteq AllKinds
  /\ Counts \subseteq Nat
  /\ {MaxNodes, MaxFunctionLines, MaxTypeLines, MaxParameters, MaxComplexity, MaxNesting}
       \subseteq Nat

VARIABLES
  pc,           \* "write" the file, "visit" it, measure the "flow" of a function, "done"
  source,       \* the syntax tree
  next, open,   \* RustAnalyzer: the next node, and the one whose children it visits
  flowNext, flowOpen,   \* FlowMetrics: likewise
  complexity, currentNesting, maximumNesting,
  violations    \* what was found, in order

analyzer == <<next, open>>
walk     == <<flowNext, flowOpen>>
counters == <<complexity, currentNesting, maximumNesting>>
vars     == <<pc, source, analyzer, walk, counters, violations>>

Node      == [kind : AllKinds, count : Nat, parent : Nat]
Nodes     == DOMAIN source
Parent(i) == source[i].parent
Kind(i)   == IF i = 0 THEN "file" ELSE source[i].kind

Ancestors(i) ==
  LET above[j \in Nodes] ==
        IF Parent(j) = 0 THEN {} ELSE {Parent(j)} \cup above[Parent(j)]
  IN  above[i]

Descendants(i) == {j \in Nodes : i \in Ancestors(j)}
Lines(i)       == Max({i} \cup Descendants(i)) - i + 1

-----------------------------------------------------------------------------
\* The file, written node by node.

\* The condition of i comes first in it.
InCondition(p) ==
  \/ Kind(p) \in Branches \cup {"while"} /\ p = Len(source)
  \/ Kind(p) = "and" /\ Kind(Parent(p)) \in Branches \cup {"while"} /\ Parent(p) = p - 1

HasElse(p) == \E i \in Nodes : Parent(i) = p /\ Kind(i) = "else if"

MayContain(p, kind) ==
  /\ Kind(p) # "signature" /\ ~ HasElse(p)
  /\ Kind(p) = "and" => Cardinality({i \in Nodes : Parent(i) = p}) < 2
  /\ CASE kind = "fn"        -> TRUE
       [] kind = "type"      -> Kind(p) # "type"
       [] kind = "signature" -> Kind(p) = "type"
       [] kind = "let"       -> InCondition(p)
       [] kind = "else if"   -> Kind(p) \in Branches
       [] OTHER              -> Kind(p) \notin {"file", "type"}

\* A new node stands in the last one or in what that one stands in.
Places == {0} \cup (IF source = <<>> THEN {} ELSE {Len(source)} \cup Ancestors(Len(source)))

Write(kind, count, p) ==
  /\ pc = "write"
  /\ Len(source) < MaxNodes
  /\ MayContain(p, kind)
  /\ source' = Append(source, [kind |-> kind, count |-> count, parent |-> p])
  /\ UNCHANGED <<pc, analyzer, walk, counters, violations>>

Analyze ==
  /\ pc = "write"
  /\ pc' = "visit"
  /\ UNCHANGED <<source, analyzer, walk, counters, violations>>

-----------------------------------------------------------------------------
\* Violations.

Violation(rule, i, actual) == [rule |-> rule, line |-> i, actual |-> actual]

CheckValue(rule, i, actual, maximum) ==
  IF actual > maximum THEN <<Violation(rule, i, actual)>> ELSE <<>>

CheckSignature(i) ==
  CheckValue("FunctionLines", i, Lines(i), MaxFunctionLines)
    \o CheckValue("Parameters", i, source[i].count, MaxParameters)

CheckFlow(i) ==
  CheckValue("Complexity", i, complexity, MaxComplexity)
    \o CheckValue("Nesting", i, maximumNesting, MaxNesting)

CheckType(i) == CheckValue("TypeLines", i, Lines(i), MaxTypeLines)

-----------------------------------------------------------------------------
\* FlowMetrics.

\* Variant of Decisions: a match without arms takes one away.
DecisionsUnsaturated(node) ==
  CASE node.kind = "match" -> node.count - 1
    [] node.kind \in Branches \cup Loops \cup {"and", "let"} -> 1
    [] OTHER -> 0

Decisions(node) ==
  CASE node.kind = "match" -> IF node.count = 0 THEN 0 ELSE node.count - 1
    [] node.kind \in Branches \cup Loops \cup {"and", "let"} -> 1
    [] OTHER -> 0

NewFlowMetrics == complexity' = 1 /\ currentNesting' = 0 /\ maximumNesting' = 0

EnterControlFlow(i) ==
  IF Kind(i) \in ControlFlow
  THEN /\ currentNesting' = currentNesting + 1
       /\ maximumNesting' = Max({maximumNesting, currentNesting + 1})
  ELSE UNCHANGED <<currentNesting, maximumNesting>>

\* Variant of LeaveControlFlow: a match is entered and never left.
LeaveControlFlowNotMatch(i) ==
  currentNesting' =
    IF Kind(i) \in ControlFlow \ {"match"} /\ currentNesting > 0
    THEN currentNesting - 1 ELSE currentNesting

LeaveControlFlow(i) ==
  currentNesting' =
    IF Kind(i) \in ControlFlow /\ currentNesting > 0 THEN currentNesting - 1 ELSE currentNesting

HasChild(n, i) == n =< Len(source) /\ Parent(n) = i

FlowEnter ==
  /\ pc = "flow"
  /\ HasChild(flowNext, flowOpen)
  /\ complexity' = complexity + Decisions(source[flowNext])
  /\ EnterControlFlow(flowNext)
  /\ flowOpen' = flowNext
  /\ flowNext' = flowNext + 1
  /\ UNCHANGED <<pc, source, analyzer, violations>>

FlowLeave ==
  /\ pc = "flow"
  /\ flowOpen # open
  /\ ~ HasChild(flowNext, flowOpen)
  /\ LeaveControlFlow(flowOpen)
  /\ flowOpen' = Parent(flowOpen)
  /\ UNCHANGED <<pc, source, analyzer, flowNext, complexity, maximumNesting, violations>>

\* The rest of check_function; the analyzer goes on into the function's block.
FlowEnd ==
  /\ pc = "flow"
  /\ flowOpen = open
  /\ ~ HasChild(flowNext, flowOpen)
  /\ violations' = violations \o CheckFlow(open)
  /\ pc' = "visit"
  /\ UNCHANGED <<source, analyzer, walk, counters>>

-----------------------------------------------------------------------------
\* RustAnalyzer.

Descend == open' = next /\ next' = next + 1 /\ UNCHANGED source

VisitFunction ==
  /\ pc = "visit"
  /\ HasChild(next, open) /\ Kind(next) = "fn"
  /\ violations' = violations \o CheckSignature(next)
  /\ pc' = "flow"
  /\ flowOpen' = next /\ flowNext' = next + 1
  /\ NewFlowMetrics
  /\ Descend

VisitSignature ==
  /\ pc = "visit"
  /\ HasChild(next, open) /\ Kind(next) = "signature"
  /\ violations' = violations \o CheckSignature(next)
  /\ Descend
  /\ UNCHANGED <<pc, walk, counters>>

VisitType ==
  /\ pc = "visit"
  /\ HasChild(next, open) /\ Kind(next) = "type"
  /\ violations' = violations \o CheckType(next)
  /\ Descend
  /\ UNCHANGED <<pc, walk, counters>>

\* Variant of VisitOther: what stands in an expression is not visited.
VisitOtherSkips ==
  /\ pc = "visit"
  /\ HasChild(next, open) /\ Kind(next) \notin FunctionKinds \cup {"type"}
  /\ next' = Max({next} \cup Descendants(next)) + 1
  /\ UNCHANGED <<pc, source, open, walk, counters, violations>>

\* Nothing is overridden for expressions: the default visits what is in them.
VisitOther ==
  /\ pc = "visit"
  /\ HasChild(next, open) /\ Kind(next) \notin FunctionKinds \cup {"type"}
  /\ Descend
  /\ UNCHANGED <<pc, walk, counters, violations>>

Return ==
  /\ pc = "visit"
  /\ ~ HasChild(next, open)
  /\ IF open = 0 THEN pc' = "done" /\ UNCHANGED open ELSE open' = Parent(open) /\ UNCHANGED pc
  /\ UNCHANGED <<source, next, walk, counters, violations>>

-----------------------------------------------------------------------------
Init ==
  /\ pc = "write"
  /\ source = <<>>
  /\ next = 1 /\ open = 0
  /\ flowNext = 1 /\ flowOpen = 0
  /\ complexity = 1 /\ currentNesting = 0 /\ maximumNesting = 0
  /\ violations = <<>>

Visitors ==
  \/ VisitFunction \/ VisitSignature \/ VisitType \/ VisitOther \/ Return
  \/ FlowEnter \/ FlowLeave \/ FlowEnd

Author ==
  \E kind \in Kinds : \E count \in (IF kind \in Counted THEN Counts ELSE {0}) :
    \E p \in Places : Write(kind, count, p)

Next == Author \/ Analyze \/ Visitors

Spec == Init /\ [][Next]_vars

-----------------------------------------------------------------------------
TypeOK ==
  /\ pc \in {"write", "visit", "flow", "done"}
  /\ source \in Seq(Node)
  /\ \A i \in Nodes : Parent(i) < i
  /\ next \in 1 .. Len(source) + 1 /\ open \in 0 .. next - 1
  /\ flowNext \in 1 .. Len(source) + 1 /\ flowOpen \in 0 .. flowNext - 1
  /\ {complexity, currentNesting, maximumNesting} \subseteq Nat

\* What the two measures of a function are, said of the tree.

Around(f, i)      == {j \in {i} \cup Ancestors(i) : f \in Ancestors(j) /\ Kind(j) \in ControlFlow}
Depth(f, i)       == Cardinality(Around(f, i))
NestingOf(f)      == Max({0} \cup {Depth(f, i) : i \in Descendants(f)})

\* The decisions in f up to each node.
DecisionsIn(f) ==
  LET sum[k \in 0 .. Len(source)] ==
        IF k = 0 THEN 0
        ELSE sum[k - 1] + (IF f \in Ancestors(k) THEN Decisions(source[k]) ELSE 0)
  IN  sum

ComplexityOf(f) == 1 + DecisionsIn(f)[Len(source)]

Over(rule, i, actual, maximum) == IF actual > maximum THEN {Violation(rule, i, actual)} ELSE {}

Expected(i) ==
  CASE Kind(i) = "type"      -> Over("TypeLines", i, Lines(i), MaxTypeLines)
    [] Kind(i) = "signature" -> Over("FunctionLines", i, Lines(i), MaxFunctionLines)
                                  \cup Over("Parameters", i, source[i].count, MaxParameters)
    [] Kind(i) = "fn"        -> Over("FunctionLines", i, Lines(i), MaxFunctionLines)
                                  \cup Over("Parameters", i, source[i].count, MaxParameters)
                                  \cup Over("Complexity", i, ComplexityOf(i), MaxComplexity)
                                  \cup Over("Nesting", i, NestingOf(i), MaxNesting)
    [] OTHER                 -> {}

\* The counter of nesting is the number of control flow expressions around the
\* node being visited, in the function measured: what is entered is left, and
\* the saturating subtraction never saturates.
NestingIsDepth == pc = "flow" => currentNesting = Depth(open, flowOpen)

\* The report of a file is what the limits say of its tree: every function and
\* type at any depth is measured, once, nested functions as part of the function
\* around them too, and the counters of one function never reach another.
ReportIsExact ==
  pc = "done" =>
    /\ Range(violations) = UNION {Expected(i) : i \in Nodes}
    /\ IsInjective(violations)
=============================================================================
