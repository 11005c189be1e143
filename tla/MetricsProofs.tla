---------------------------- MODULE MetricsProofs ----------------------------
(***************************************************************************)
(* Proofs about module Metrics, for files of every size and any limits:    *)
(* the counter of nesting is the depth of the node being visited in the    *)
(* function that is measured, and the report of a file is what the limits  *)
(* say of its tree.  Both rest on the two visitors keeping their place:    *)
(* what is visited for a function stands in it, and when a node is left    *)
(* everything that stands in it was visited.                               *)
(***************************************************************************)
EXTENDS Metrics, FiniteSetTheorems, SequenceTheorems, WellFoundedInduction, TLAPS

-----------------------------------------------------------------------------
\* What a node stands in.

IsForest == source \in Seq(Node) /\ \A i \in Nodes : Parent(i) < i

\* A node stands after its parent.
LEMMA ParentIsBefore ==
  ASSUME IsForest, NEW i \in Nodes
  PROVE  /\ i \in Nat \ {0} /\ Parent(i) \in Nat /\ Parent(i) < i
         /\ Parent(i) # 0 => Parent(i) \in Nodes
<1>1. Len(source) \in Nat /\ Nodes = 1 .. Len(source) /\ source[i] \in Node
  BY ElementOfSeq DEF IsForest, Nodes
<1>2. Parent(i) \in Nat /\ Parent(i) < i
  BY <1>1 DEF IsForest, Parent, Node
<1> QED BY <1>1, <1>2

UpClosed(S) == \A k \in S : Parent(k) # 0 => Parent(k) \in S

\* A node and those around it.
Path(i) == {m \in Nodes : \A S \in SUBSET Nodes : i \in S /\ UpClosed(S) => m \in S}

\* The path to a node is the node and the path to its parent.
LEMMA PathSplits ==
  ASSUME IsForest, NEW i \in Nodes
  PROVE  Path(i) = {i} \cup (IF Parent(i) = 0 THEN {} ELSE Path(Parent(i)))
<1> DEFINE S == {i} \cup (IF Parent(i) = 0 THEN {} ELSE Path(Parent(i)))
<1>1. \A k \in Nodes : k \in Path(k) /\ Path(k) \subseteq Nodes /\ UpClosed(Path(k))
  BY ParentIsBefore DEF Path, UpClosed
<1>2. Parent(i) # 0 => Parent(i) \in Nodes
  BY ParentIsBefore
<1>3. S \in SUBSET Nodes /\ i \in S /\ UpClosed(S)
  BY <1>1, <1>2 DEF UpClosed
<1>4. Path(i) \subseteq S
  <2> HIDE DEF S
  <2> QED BY <1>3 DEF Path
<1>5. Parent(i) # 0 => Path(Parent(i)) \subseteq Path(i)
  <2>1. Parent(i) # 0 => Parent(i) \in Path(i) /\ Path(i) \in SUBSET Nodes /\ UpClosed(Path(i))
    BY <1>1 DEF UpClosed
  <2>2. \A T \in SUBSET Nodes : \A k \in T : UpClosed(T) => Path(k) \subseteq T
    BY DEF Path
  <2> QED BY <2>1, <2>2
<1>6. i \in Path(i)
  BY <1>1
<1> QED BY <1>4, <1>5, <1>6

\* The recursion in Ancestors has a solution.
LEMMA AncestorsStep ==
  ASSUME IsForest, NEW i \in Nodes
  PROVE  Ancestors(i) = IF Parent(i) = 0 THEN {} ELSE {Parent(i)} \cup Ancestors(Parent(i))
<1> DEFINE Step(f) == [j \in Nodes |-> IF Parent(j) = 0 THEN {} ELSE {Parent(j)} \cup f[Parent(j)]]
           above   == CHOOSE f : f = Step(f)
           path    == [j \in Nodes |-> IF Parent(j) = 0 THEN {} ELSE Path(Parent(j))]
<1>1. \A j \in Nodes : Parent(j) # 0 => Parent(j) \in Nodes
  BY ParentIsBefore
<1>2. path = Step(path)
  <2>1. ASSUME NEW j \in Nodes, Parent(j) # 0
        PROVE  path[j] = {Parent(j)} \cup path[Parent(j)]
    BY <1>1, <2>1, PathSplits
  <2>2. ASSUME NEW j \in Nodes, Parent(j) = 0
        PROVE  path[j] = {}
    BY <2>2
  <2>3. path = [j \in Nodes |-> path[j]]
    OBVIOUS
  <2> HIDE DEF path
  <2> QED BY <2>1, <2>2, <2>3
<1>3. above = Step(above)
  <2>1. \E f : f = Step(f)
    BY <1>2
  <2> HIDE DEF Step, path
  <2> QED BY <2>1
<1>4. \A j \in Nodes : Ancestors(j) = above[j]
  BY DEF Ancestors
<1> HIDE DEF above
<1>5. above[i] = IF Parent(i) = 0 THEN {} ELSE {Parent(i)} \cup above[Parent(i)]
  BY <1>3
<1> QED BY <1>1, <1>4, <1>5

\* A set of numbers that is not empty has a least one.
LEMMA LeastNumber ==
  ASSUME NEW S \in SUBSET Nat, S # {}
  PROVE  \E k \in S : \A j \in S : ~ (j < k)
<1> DEFINE R == OpToRel(<, Nat)
<1>1. IsWellFoundedOn(R, Nat)
  BY NatLessThanWellFounded
<1>2. PICK k \in S : \A j \in S : <<j, k>> \notin R
  <2> HIDE DEF R
  <2> QED BY <1>1, WFMin
<1> QED BY <1>2 DEF OpToRel

\* A node stands in earlier ones only.
LEMMA AncestorsAreBefore ==
  ASSUME IsForest, NEW i \in Nodes
  PROVE  Ancestors(i) \subseteq Nodes /\ \A m \in Ancestors(i) : m < i
<1> DEFINE Wrong == {k \in Nodes : ~ (\A m \in Ancestors(k) : m \in Nodes /\ m < k)}
<1> SUFFICES ASSUME Wrong # {}
             PROVE  FALSE
  OBVIOUS
<1>1. Wrong \in SUBSET Nat
  BY ParentIsBefore
<1>2. PICK k \in Wrong : \A j \in Wrong : ~ (j < k)
  <2> HIDE DEF Wrong
  <2> QED BY <1>1, LeastNumber
<1>3. k \in Nodes /\ k \in Nat /\ Parent(k) \in Nat /\ Parent(k) < k
  BY <1>2, ParentIsBefore
<1>4. CASE Parent(k) = 0
  BY <1>2, <1>4, AncestorsStep
<1>5. CASE Parent(k) # 0
  <2> DEFINE parent == Parent(k)
  <2>1. parent \in Nodes /\ parent \notin Wrong
    BY <1>2, <1>3, <1>5, ParentIsBefore
  <2>2. \A m \in Ancestors(parent) : m \in Nodes /\ m < parent
    BY <2>1
  <2>3. Nodes \subseteq Nat
    BY ParentIsBefore
  <2>4. Ancestors(k) = {parent} \cup Ancestors(parent)
    BY <1>3, <1>5, AncestorsStep
  <2>5. parent \in Nat /\ parent < k
    BY <1>3
  <2> HIDE DEF parent
  <2>6. ASSUME NEW m \in Ancestors(k)
        PROVE  m \in Nodes /\ m < k
    <3>1. CASE m = parent
      BY <2>1, <2>5, <3>1
    <3>2. CASE m \in Ancestors(parent)
      <4>1. m \in Nodes /\ m < parent /\ m \in Nat
        BY <2>2, <2>3, <3>2
      <4> QED BY <1>3, <2>5, <4>1
    <3> QED BY <2>4, <2>6, <3>1, <3>2
  <2> QED BY <1>2, <2>6
<1> QED BY <1>4, <1>5

-----------------------------------------------------------------------------
\* The depth of a node in a function.

\* The nodes of control flow around a node are finitely many, none after it.
LEMMA AroundIsFinite ==
  ASSUME IsForest, NEW f, NEW i \in Nodes
  PROVE  /\ Around(f, i) \subseteq Nodes /\ IsFiniteSet(Around(f, i)) /\ Depth(f, i) \in Nat
         /\ \A j \in Around(f, i) : j =< i
<1>1. /\ Ancestors(i) \subseteq Nodes /\ \A m \in Ancestors(i) : m < i
      /\ Nodes \subseteq Nat
  BY AncestorsAreBefore, ParentIsBefore
<1>2. Around(f, i) \subseteq {i} \cup Ancestors(i)
  BY DEF Around
<1>3. IsFiniteSet(Nodes)
  <2>1. Nodes = 1 .. Len(source) /\ Len(source) \in Nat
    BY DEF IsForest, Nodes
  <2> QED BY <2>1, FS_Interval
<1>4. Around(f, i) \subseteq Nodes /\ \A j \in Around(f, i) : j =< i
  <2>1. i \in Nat /\ i =< i /\ \A j \in Nat : j < i => j =< i
    BY ParentIsBefore
  <2> QED BY <1>1, <1>2, <2>1
<1> QED BY <1>3, <1>4, FS_Subset, FS_CardinalityType DEF Depth

\* A function is not around itself.
LEMMA DepthOfFunction ==
  ASSUME IsForest, NEW f \in Nodes
  PROVE  Depth(f, f) = 0
<1>1. ASSUME NEW j \in {f} \cup Ancestors(f)
      PROVE  f \notin Ancestors(j)
  <2>1. j \in Nodes /\ j =< f /\ j \in Nat /\ f \in Nat
    BY AncestorsAreBefore, ParentIsBefore
  <2>2. \A m \in Ancestors(j) : m < j /\ m \in Nat
    BY <2>1, AncestorsAreBefore, ParentIsBefore
  <2> QED BY <2>1, <2>2
<1>2. Around(f, f) = {}
  BY <1>1 DEF Around
<1> QED BY <1>2, FS_EmptySet DEF Depth

\* A node in a function is one deeper than the one it stands in if it is a control
\* flow expression, and else as deep.
LEMMA DepthOfChild ==
  ASSUME IsForest, NEW f, NEW i \in Nodes, Parent(i) # 0,
         f = Parent(i) \/ f \in Ancestors(Parent(i))
  PROVE  Depth(f, i) = Depth(f, Parent(i)) + (IF Kind(i) \in ControlFlow THEN 1 ELSE 0)
<1> DEFINE p == Parent(i)
<1>1. p \in Nodes /\ i \in Nat /\ p \in Nat /\ p < i
  BY ParentIsBefore
<1>2. Ancestors(i) = {p} \cup Ancestors(p)
  BY AncestorsStep
<1> HIDE DEF p
<1>3. f \in Ancestors(i)
  BY <1>2 DEF p
<1>4. Around(f, i) = Around(f, p) \cup (IF Kind(i) \in ControlFlow THEN {i} ELSE {})
  BY <1>2, <1>3 DEF Around
<1>5. /\ IsFiniteSet(Around(f, p)) /\ Cardinality(Around(f, p)) \in Nat
      /\ \A j \in Around(f, p) : j =< p /\ j \in Nodes
  BY <1>1, AroundIsFinite DEF Depth
<1>6. i \notin Around(f, p)
  BY <1>1, <1>5
<1>7. CASE Kind(i) \in ControlFlow
  BY <1>4, <1>5, <1>6, <1>7, FS_AddElement DEF Depth, p
<1>8. CASE Kind(i) \notin ControlFlow
  BY <1>4, <1>5, <1>8 DEF Depth, p
<1> QED BY <1>7, <1>8

\* A file that is not changed has the same depths.
LEMMA DepthStays ==
  ASSUME source' = source, NEW f, NEW i, open' = f, flowOpen' = i
  PROVE  Depth(open, flowOpen)' = Depth(f, i)
<1>1. Around(open, flowOpen)' = Around(f, i)
  BY DEF Around, Ancestors, Nodes, Parent, Kind
<1> QED BY <1>1 DEF Depth

-----------------------------------------------------------------------------
\* The visitors keep their place.

\* While a function is measured, the node being visited is the function or stands
\* in it.
FlowIsInside ==
  pc = "flow" => /\ open \in Nodes /\ flowOpen \in Nodes
                 /\ flowOpen = open \/ open \in Ancestors(flowOpen)

MetricsInv == TypeOK /\ FlowIsInside /\ NestingIsDepth

\* The source that is typed is a forest,
LEMMA Forest == TypeOK => IsForest
BY DEF TypeOK, IsForest

\* and its nodes are numbered in order.
LEMMA NodesAreNumbers == TypeOK => Nodes = 1 .. Len(source) /\ Len(source) \in Nat
BY DEF TypeOK, Nodes

\* Writing a node keeps the tree a tree.
LEMMA WriteKeeps ==
  ASSUME MetricsInv, NEW kind \in Kinds,
         NEW count \in (IF kind \in Counted THEN Counts ELSE {0}),
         NEW p \in Places, Write(kind, count, p)
  PROVE  MetricsInv'
<1> DEFINE node == [kind |-> kind, count |-> count, parent |-> p]
           n    == Len(source)
<1>1. /\ source' = Append(source, node) /\ pc = "write"
      /\ pc' = pc /\ next' = next /\ open' = open /\ flowNext' = flowNext /\ flowOpen' = flowOpen
      /\ complexity' = complexity /\ currentNesting' = currentNesting
      /\ maximumNesting' = maximumNesting
  BY DEF Write, analyzer, walk, counters
<1>2. n \in Nat /\ source \in Seq(Node) /\ Nodes = 1 .. n
  BY NodesAreNumbers DEF MetricsInv, TypeOK
<1>3. p \in Nat /\ p =< n
  <2>1. source # <<>> => n \in Nodes
    BY <1>2, EmptySeq
  <2>2. source # <<>> => Ancestors(n) \subseteq Nodes
    BY <2>1, Forest, AncestorsAreBefore DEF MetricsInv
  <2> QED BY <1>2, <2>2 DEF Places
<1>4. node \in Node
  BY <1>3, MetricsAssumption DEF Node
<1> HIDE DEF node, n
<1>5. /\ source' \in Seq(Node) /\ Len(source') = n + 1 /\ source'[n + 1] = node
      /\ \A i \in 1 .. n : source'[i] = source[i]
  BY <1>1, <1>2, <1>4, AppendProperties DEF n
<1>6. ASSUME NEW i \in Nodes'
      PROVE  (Parent(i) < i)'
  <2>1. i \in 1 .. (n + 1)
    BY <1>2, <1>5, <1>6 DEF Nodes
  <2>2. CASE i = n + 1
    BY <1>2, <1>3, <1>5, <2>2 DEF Parent, node
  <2>3. CASE i \in 1 .. n
    <3>1. Parent(i) < i
      BY <1>2, <2>3 DEF MetricsInv, TypeOK
    <3> QED BY <1>5, <2>3, <3>1 DEF Parent
  <2> QED BY <1>2, <2>1, <2>2, <2>3
<1>7. /\ next \in 1 .. n + 1 /\ open \in 0 .. next - 1
      /\ flowNext \in 1 .. n + 1 /\ flowOpen \in 0 .. flowNext - 1
      /\ 1 .. n + 1 \subseteq 1 .. (n + 1) + 1
  BY <1>2 DEF MetricsInv, TypeOK, n
<1>8. /\ next' \in 1 .. Len(source') + 1 /\ open' \in 0 .. next' - 1
      /\ flowNext' \in 1 .. Len(source') + 1 /\ flowOpen' \in 0 .. flowNext' - 1
  BY <1>1, <1>5, <1>7
<1>9. TypeOK'
  BY <1>1, <1>5, <1>6, <1>8 DEF MetricsInv, TypeOK
<1> QED BY <1>1, <1>9 DEF MetricsInv, FlowIsInside, NestingIsDepth

\* The start of the visit keeps the invariant,
LEMMA AnalyzeKeeps == MetricsInv /\ Analyze => MetricsInv'
<1> SUFFICES ASSUME MetricsInv, Analyze
             PROVE  MetricsInv'
  OBVIOUS
<1>1. /\ pc' = "visit" /\ source' = source /\ next' = next /\ open' = open
      /\ flowNext' = flowNext /\ flowOpen' = flowOpen /\ complexity' = complexity
      /\ currentNesting' = currentNesting /\ maximumNesting' = maximumNesting
  BY DEF Analyze, analyzer, walk, counters
<1>2. TypeOK'
  BY <1>1 DEF MetricsInv, TypeOK, Nodes, Parent
<1> QED BY <1>1, <1>2 DEF MetricsInv, FlowIsInside, NestingIsDepth

\* A child comes after the node it stands in and is one of the file.
LEMMA ChildIsNode ==
  ASSUME TypeOK, NEW n \in 1 .. Len(source) + 1, NEW i, HasChild(n, i)
  PROVE  /\ n \in Nodes /\ n \in Nat /\ n + 1 \in 1 .. Len(source) + 1 /\ n \in 0 .. (n + 1) - 1
         /\ Parent(n) = i
BY NodesAreNumbers DEF HasChild

\* What the visitors of a file do not change.
LEMMA SameFile ==
  ASSUME TypeOK, source' = source
  PROVE  /\ Nodes' = Nodes /\ Len(source') = Len(source) /\ source' \in Seq(Node)
         /\ (\A i \in Nodes : Parent(i) < i)'
BY DEF TypeOK, Nodes, Parent

\* The analyzer goes down into a node that is no function with a block, or back up.
LEMMA VisitKeeps ==
  MetricsInv /\ (VisitSignature \/ VisitType \/ VisitOther \/ Return) => MetricsInv'
<1> SUFFICES ASSUME MetricsInv, VisitSignature \/ VisitType \/ VisitOther \/ Return
             PROVE  MetricsInv'
  OBVIOUS
<1>1. /\ pc = "visit" /\ pc' \in {"visit", "done"} /\ source' = source
      /\ flowNext' = flowNext /\ flowOpen' = flowOpen /\ complexity' = complexity
      /\ currentNesting' = currentNesting /\ maximumNesting' = maximumNesting
  BY DEF VisitSignature, VisitType, VisitOther, Return, Descend, walk, counters
<1>2. next' \in 1 .. Len(source) + 1 /\ open' \in 0 .. next' - 1
  <2>1. CASE VisitSignature \/ VisitType \/ VisitOther
    <3>1. HasChild(next, open) /\ open' = next /\ next' = next + 1
      BY <2>1 DEF VisitSignature, VisitType, VisitOther, Descend
    <3> QED BY <3>1, ChildIsNode DEF MetricsInv, TypeOK
  <2>2. CASE Return
    <3>1. next' = next /\ open' = IF open = 0 THEN open ELSE Parent(open)
      BY <2>2 DEF Return
    <3>2. next \in 1 .. Len(source) + 1 /\ open \in 0 .. next - 1 /\ Len(source) \in Nat
      BY NodesAreNumbers DEF MetricsInv, TypeOK
    <3>3. CASE open # 0
      <4>1. open \in Nodes
        BY <3>2, <3>3, NodesAreNumbers DEF MetricsInv
      <4>2. Parent(open) \in Nat /\ Parent(open) < open /\ open \in Nat
        BY <4>1, Forest, ParentIsBefore DEF MetricsInv
      <4>3. Parent(open) \in 0 .. next - 1
        BY <3>2, <4>2
      <4> QED BY <3>1, <3>2, <3>3, <4>3
    <3> QED BY <3>1, <3>2, <3>3
  <2> QED BY <2>1, <2>2
<1>3. TypeOK'
  BY <1>1, <1>2, SameFile DEF MetricsInv, TypeOK
<1> QED BY <1>1, <1>3 DEF MetricsInv, FlowIsInside, NestingIsDepth

\* A function is entered with a depth of zero.
LEMMA VisitFunctionKeeps == MetricsInv /\ VisitFunction => MetricsInv'
<1> SUFFICES ASSUME MetricsInv, VisitFunction
             PROVE  MetricsInv'
  OBVIOUS
<1>1. /\ HasChild(next, open) /\ pc' = "flow" /\ source' = source
      /\ open' = next /\ next' = next + 1 /\ flowOpen' = next /\ flowNext' = next + 1
      /\ complexity' = 1 /\ currentNesting' = 0 /\ maximumNesting' = 0
  BY DEF VisitFunction, Descend, NewFlowMetrics
<1>2. /\ next \in Nodes /\ next + 1 \in 1 .. Len(source) + 1 /\ next \in 0 .. (next + 1) - 1
  BY <1>1, ChildIsNode DEF MetricsInv, TypeOK
<1>3. TypeOK'
  BY <1>1, <1>2, SameFile DEF MetricsInv, TypeOK
<1>4. FlowIsInside'
  BY <1>1, <1>2, SameFile DEF MetricsInv, FlowIsInside
<1>5. NestingIsDepth'
  <2>1. Depth(next, next) = 0
    BY <1>2, Forest, DepthOfFunction DEF MetricsInv
  <2>2. Depth(open, flowOpen)' = Depth(next, next)
    BY <1>1, DepthStays
  <2> QED BY <1>1, <2>1, <2>2 DEF NestingIsDepth
<1> QED BY <1>3, <1>4, <1>5 DEF MetricsInv

\* The decisions at a node are counted.
LEMMA DecisionsType ==
  ASSUME NEW node \in Node
  PROVE  Decisions(node) \in Nat
<1>1. CASE node.kind = "match"
  <2>1. \A k \in Nat : (IF k = 0 THEN 0 ELSE k - 1) \in Nat
    OBVIOUS
  <2> QED BY <1>1, <2>1 DEF Decisions, Node
<1>2. CASE node.kind # "match" /\ node.kind \in Branches \cup Loops \cup {"and", "let"}
  BY <1>2 DEF Decisions
<1>3. CASE node.kind # "match" /\ node.kind \notin Branches \cup Loops \cup {"and", "let"}
  BY <1>3 DEF Decisions
<1> QED BY <1>1, <1>2, <1>3

\* The counter goes up when a control flow expression is entered.
LEMMA FlowEnterKeeps == MetricsInv /\ FlowEnter => MetricsInv'
<1> SUFFICES ASSUME MetricsInv, FlowEnter
             PROVE  MetricsInv'
  OBVIOUS
<1> DEFINE n == flowNext
<1>1. /\ pc = "flow" /\ pc' = "flow" /\ HasChild(n, flowOpen) /\ source' = source
      /\ next' = next /\ open' = open /\ flowOpen' = n /\ flowNext' = n + 1
      /\ complexity' = complexity + Decisions(source[n])
      /\ EnterControlFlow(n)
  BY DEF FlowEnter, analyzer
<1>2. /\ n \in Nodes /\ n \in Nat /\ n + 1 \in 1 .. Len(source) + 1 /\ n \in 0 .. (n + 1) - 1
      /\ Parent(n) = flowOpen
  BY <1>1, ChildIsNode DEF MetricsInv, TypeOK
<1>3. /\ open \in Nodes /\ flowOpen \in Nodes /\ flowOpen # 0
      /\ flowOpen = open \/ open \in Ancestors(flowOpen)
      /\ currentNesting = Depth(open, flowOpen)
      /\ complexity \in Nat /\ currentNesting \in Nat /\ maximumNesting \in Nat
  BY <1>1, Forest, ParentIsBefore DEF MetricsInv, FlowIsInside, NestingIsDepth, TypeOK
<1> HIDE DEF n
<1>4. currentNesting' = currentNesting + (IF Kind(n) \in ControlFlow THEN 1 ELSE 0)
  BY <1>1, <1>3 DEF EnterControlFlow
<1>5. currentNesting' \in Nat /\ maximumNesting' \in Nat /\ complexity' \in Nat
  <2>1. Decisions(source[n]) \in Nat
    BY <1>2, ElementOfSeq, DecisionsType DEF MetricsInv, TypeOK, Nodes
  <2>2. ASSUME NEW a \in Nat, NEW b \in Nat
        PROVE  Max({a, b}) \in Nat
    BY DEF Max
  <2>3. maximumNesting' \in Nat
    BY <1>1, <1>3, <2>2 DEF EnterControlFlow
  <2> QED BY <1>1, <1>3, <1>4, <2>1, <2>3
<1>6. TypeOK'
  BY <1>1, <1>2, <1>5, SameFile DEF MetricsInv, TypeOK
<1>7. Ancestors(n) = {flowOpen} \cup Ancestors(flowOpen)
  BY <1>2, <1>3, Forest, AncestorsStep DEF MetricsInv
<1>8. FlowIsInside'
  <2>1. Ancestors(flowOpen)' = Ancestors(n)
    BY <1>1 DEF Ancestors, Nodes, Parent
  <2> QED BY <1>1, <1>2, <1>3, <1>7, <2>1, SameFile DEF MetricsInv, FlowIsInside
<1>9. NestingIsDepth'
  <2>1. Depth(open, n) = Depth(open, flowOpen) + (IF Kind(n) \in ControlFlow THEN 1 ELSE 0)
    BY <1>2, <1>3, Forest, DepthOfChild DEF MetricsInv
  <2>2. Depth(open, flowOpen)' = Depth(open, n)
    BY <1>1, DepthStays
  <2> QED BY <1>3, <1>4, <2>1, <2>2 DEF NestingIsDepth
<1> QED BY <1>6, <1>8, <1>9 DEF MetricsInv

\* It goes down when one is left, and is never zero then.
LEMMA FlowLeaveKeeps == MetricsInv /\ FlowLeave => MetricsInv'
<1> SUFFICES ASSUME MetricsInv, FlowLeave
             PROVE  MetricsInv'
  OBVIOUS
<1> DEFINE i == flowOpen  p == Parent(i)
<1>1. /\ pc = "flow" /\ pc' = "flow" /\ source' = source /\ i # open
      /\ next' = next /\ open' = open /\ flowOpen' = p /\ flowNext' = flowNext
      /\ complexity' = complexity /\ maximumNesting' = maximumNesting
      /\ LeaveControlFlow(i)
  BY DEF FlowLeave, analyzer
<1>2. /\ open \in Nodes /\ i \in Nodes /\ open \in Ancestors(i)
      /\ currentNesting = Depth(open, i) /\ currentNesting \in Nat
  BY <1>1 DEF MetricsInv, FlowIsInside, NestingIsDepth, TypeOK
<1>3. p \in Nat /\ p < i /\ i \in Nat /\ (p # 0 => p \in Nodes)
  BY <1>2, Forest, ParentIsBefore DEF MetricsInv
<1>4. p # 0 /\ Ancestors(i) = {p} \cup Ancestors(p)
  BY <1>2, Forest, AncestorsStep DEF MetricsInv
<1>5. p = open \/ open \in Ancestors(p)
  BY <1>2, <1>4
<1>6. Depth(open, i) = Depth(open, p) + (IF Kind(i) \in ControlFlow THEN 1 ELSE 0)
  BY <1>2, <1>4, <1>5, Forest, DepthOfChild DEF MetricsInv
<1>7. Depth(open, p) \in Nat
  BY <1>3, <1>4, Forest, AroundIsFinite DEF MetricsInv
<1>8. flowOpen' \in 0 .. flowNext' - 1
  <2>1. flowNext \in 1 .. Len(source) + 1 /\ i \in 0 .. flowNext - 1 /\ Len(source) \in Nat
    BY NodesAreNumbers DEF MetricsInv, TypeOK
  <2> HIDE DEF i, p
  <2> QED BY <1>1, <1>3, <2>1
<1> HIDE DEF i, p
<1>9. currentNesting' = Depth(open, p)
  <2> DEFINE outer == Depth(open, p)
  <2>1. outer \in Nat /\ currentNesting = outer + (IF Kind(i) \in ControlFlow THEN 1 ELSE 0)
    BY <1>2, <1>6, <1>7
  <2> HIDE DEF outer
  <2>2. currentNesting' = outer
    BY <1>1, <2>1 DEF LeaveControlFlow
  <2> QED BY <2>2 DEF outer
<1>10. TypeOK'
  BY <1>1, <1>7, <1>8, <1>9, SameFile DEF MetricsInv, TypeOK
<1>11. FlowIsInside'
  <2>1. Ancestors(flowOpen)' = Ancestors(p)
    BY <1>1 DEF Ancestors, Nodes, Parent
  <2> QED BY <1>1, <1>2, <1>3, <1>4, <1>5, <2>1, SameFile DEF MetricsInv, FlowIsInside
<1>12. NestingIsDepth'
  <2>1. Depth(open, flowOpen)' = Depth(open, p)
    BY <1>1, DepthStays
  <2> QED BY <1>9, <2>1 DEF NestingIsDepth
<1> QED BY <1>10, <1>11, <1>12 DEF MetricsInv

\* and so does the rest of check_function.
LEMMA FlowEndKeeps == MetricsInv /\ FlowEnd => MetricsInv'
<1> SUFFICES ASSUME MetricsInv, FlowEnd
             PROVE  MetricsInv'
  OBVIOUS
<1>1. /\ pc' = "visit" /\ source' = source /\ next' = next /\ open' = open
      /\ flowNext' = flowNext /\ flowOpen' = flowOpen /\ complexity' = complexity
      /\ currentNesting' = currentNesting /\ maximumNesting' = maximumNesting
  BY DEF FlowEnd, analyzer, walk, counters
<1>2. TypeOK'
  BY <1>1, SameFile DEF MetricsInv, TypeOK
<1> QED BY <1>1, <1>2 DEF MetricsInv, FlowIsInside, NestingIsDepth

\* So the invariant of the visitor holds.
LEMMA MetricsInvHolds == Spec => []MetricsInv
<1>1. Init => MetricsInv
  BY EmptySeq DEF Init, MetricsInv, TypeOK, FlowIsInside, NestingIsDepth, Nodes
<1>2. MetricsInv /\ [Next]_vars => MetricsInv'
  <2> SUFFICES ASSUME MetricsInv, [Next]_vars
               PROVE  MetricsInv'
    OBVIOUS
  <2>1. CASE Author
    BY <2>1, WriteKeeps DEF Author
  <2>2. CASE Analyze
    BY <2>2, AnalyzeKeeps
  <2>3. CASE VisitFunction
    BY <2>3, VisitFunctionKeeps
  <2>4. CASE VisitSignature \/ VisitType \/ VisitOther \/ Return
    BY <2>4, VisitKeeps
  <2>5. CASE FlowEnter
    BY <2>5, FlowEnterKeeps
  <2>6. CASE FlowLeave
    BY <2>6, FlowLeaveKeeps
  <2>7. CASE FlowEnd
    BY <2>7, FlowEndKeeps
  <2>8. CASE UNCHANGED vars
    <3>1. /\ pc' = pc /\ source' = source /\ next' = next /\ open' = open
          /\ flowNext' = flowNext /\ flowOpen' = flowOpen /\ complexity' = complexity
          /\ currentNesting' = currentNesting /\ maximumNesting' = maximumNesting
      BY <2>8 DEF vars, analyzer, walk, counters
    <3>2. TypeOK'
      BY <3>1, SameFile DEF MetricsInv, TypeOK
    <3>3. Ancestors(flowOpen)' = Ancestors(flowOpen)
      BY <3>1 DEF Ancestors, Nodes, Parent
    <3>4. Depth(open, flowOpen)' = Depth(open, flowOpen)
      BY <3>1, DepthStays
    <3> QED BY <3>1, <3>2, <3>3, <3>4, SameFile DEF MetricsInv, FlowIsInside, NestingIsDepth
  <2> QED BY <2>1, <2>2, <2>3, <2>4, <2>5, <2>6, <2>7, <2>8 DEF Next, Visitors
<1> QED BY <1>1, <1>2, PTL DEF Spec

-----------------------------------------------------------------------------
\* Both visitors stay in the file, and the three counters are never negative: the
\* saturating subtractions for a match without arms and for leaving hide nothing.
THEOREM TypeCorrect == Spec => []TypeOK
<1>1. MetricsInv => TypeOK
  BY DEF MetricsInv
<1> QED BY <1>1, MetricsInvHolds, PTL

\* FlowMetrics counts the control flow around a node, in the function measured and
\* no other: every enter_control_flow is matched by its leave_control_flow.
THEOREM NestingCorrect == Spec => []NestingIsDepth
<1>1. MetricsInv => NestingIsDepth
  BY DEF MetricsInv
<1> QED BY <1>1, MetricsInvHolds, PTL


-----------------------------------------------------------------------------
\* A file is written, and visited, in the order in which its nodes are nested.

\* What a node stands in stands in all that is around it.
LEMMA AncestorsAreNested ==
  ASSUME IsForest, NEW i \in Nodes, NEW o \in Ancestors(i)
  PROVE  o \in Nodes /\ Ancestors(o) \subseteq Ancestors(i)
<1> DEFINE Wrong == {k \in Nodes : \E m \in Ancestors(k) : ~ (Ancestors(m) \subseteq Ancestors(k))}
<1>1. Wrong = {}
  <2> SUFFICES ASSUME Wrong # {}
               PROVE  FALSE
    OBVIOUS
  <2>1. PICK k \in Wrong : \A j \in Wrong : ~ (j < k)
    <3>1. Wrong \in SUBSET Nat
      BY ParentIsBefore
    <3> HIDE DEF Wrong
    <3> QED BY <3>1, LeastNumber
  <2>2. /\ k \in Nodes /\ Parent(k) < k /\ (Parent(k) # 0 => Parent(k) \in Nodes)
        /\ Ancestors(k) = IF Parent(k) = 0 THEN {} ELSE {Parent(k)} \cup Ancestors(Parent(k))
    BY <2>1, ParentIsBefore, AncestorsStep
  <2>3. Parent(k) # 0 => Parent(k) \notin Wrong
    BY <2>1, <2>2
  <2> QED BY <2>1, <2>2, <2>3
<1>2. o \in Nodes
  BY AncestorsAreBefore
<1> QED BY <1>1, <1>2

\* A node between a second one and what that one stands in stands there as well.
IsNested == \A i, j \in Nodes : \A o \in Ancestors(i) : o < j /\ j < i => o \in Ancestors(j)

\* What AncestorsStep says of the file as it is, and as it becomes.
LEMMA AncestorsAlways ==
  IsForest =>
    \A i \in Nodes :
      Ancestors(i) = IF Parent(i) = 0 THEN {} ELSE {Parent(i)} \cup Ancestors(Parent(i))
BY AncestorsStep

\* A node that is written changes nothing for those before it.
LEMMA WrittenAncestors ==
  ASSUME IsForest, IsForest', NEW node, NEW n, n = Len(source) + 1,
         source' = Append(source, node)
  PROVE  /\ \A i \in Nodes : i \in Nodes' /\ Parent(i)' = Parent(i) /\ Ancestors(i)' = Ancestors(i)
         /\ Nodes' = Nodes \cup {n} /\ \A i \in Nodes : i < n
         /\ Parent(n)' = node.parent
<1>1. /\ n \in Nat /\ Nodes = 1 .. n - 1 /\ Nodes' = 1 .. n
      /\ \A i \in Nodes : source'[i] = source[i]
      /\ source'[n] = node
  BY DEF IsForest, Nodes
<1>2. \A i \in Nodes : i \in Nodes' /\ Parent(i)' = Parent(i)
  BY <1>1 DEF Parent
<1>3. Nodes' = Nodes \cup {n} /\ \A i \in Nodes : i < n
  <2>1. 1 .. n = (1 .. n - 1) \cup {n}
    BY <1>1 DEF IsForest
  <2> QED BY <1>1, <2>1
<1>4. Parent(n)' = node.parent
  BY <1>1 DEF Parent
<1>5. \A i \in Nodes' :
        Ancestors(i)' = IF Parent(i)' = 0 THEN {} ELSE {Parent(i)'} \cup Ancestors(Parent(i))'
  <2>1. (IsForest =>
           \A i \in Nodes :
             Ancestors(i) = IF Parent(i) = 0 THEN {} ELSE {Parent(i)} \cup Ancestors(Parent(i)))'
    BY AncestorsAlways, PTL
  <2> QED BY <2>1
<1> DEFINE Wrong == {k \in Nodes : Ancestors(k)' # Ancestors(k)}
<1>6. Wrong = {}
  <2> SUFFICES ASSUME Wrong # {}
               PROVE  FALSE
    OBVIOUS
  <2>1. PICK k \in Wrong : \A j \in Wrong : ~ (j < k)
    <3>1. Wrong \in SUBSET Nat
      BY ParentIsBefore
    <3> HIDE DEF Wrong
    <3> QED BY <3>1, LeastNumber
  <2>2. /\ k \in Nodes /\ Parent(k) < k /\ (Parent(k) # 0 => Parent(k) \in Nodes)
        /\ Ancestors(k) = IF Parent(k) = 0 THEN {} ELSE {Parent(k)} \cup Ancestors(Parent(k))
    BY <2>1, ParentIsBefore, AncestorsStep
  <2>3. /\ k \in Nodes' /\ Parent(k)' = Parent(k)
        /\ Ancestors(k)' = IF Parent(k)' = 0 THEN {} ELSE {Parent(k)'} \cup Ancestors(Parent(k))'
    BY <1>2, <1>5, <2>2
  <2>4. PICK p : p = Parent(k)
    OBVIOUS
  <2>5. p # 0 => Ancestors(p)' = Ancestors(p)
    BY <2>1, <2>2, <2>4
  <2>6. Ancestors(k)' = IF p = 0 THEN {} ELSE {p} \cup Ancestors(p)'
    BY <2>3, <2>4
  <2> QED BY <2>1, <2>2, <2>4, <2>5, <2>6
<1> QED BY <1>2, <1>3, <1>4, <1>6

\* What is written keeps the nodes nested: it stands in the last node or in what that
\* one stands in.
LEMMA WriteKeepsNested ==
  ASSUME IsForest, IsForest', IsNested, NEW node, NEW p \in Places, node.parent = p,
         source' = Append(source, node)
  PROVE  IsNested'
<1>0. PICK l, n : l = Len(source) /\ n = Len(source) + 1
  OBVIOUS
<1>1. /\ l \in Nat /\ n \in Nat /\ n = l + 1 /\ Nodes = 1 .. l
      /\ p = 0 \/ (l \in Nodes /\ p \in {l} \cup Ancestors(l))
  <2>1. source # <<>> => l \in Nodes
    BY <1>0, EmptySeq DEF IsForest, Nodes
  <2> QED BY <1>0, <2>1 DEF Places, IsForest, Nodes
<1>2. /\ \A i \in Nodes : i \in Nodes' /\ Parent(i)' = Parent(i) /\ Ancestors(i)' = Ancestors(i)
      /\ Nodes' = Nodes \cup {n} /\ \A i \in Nodes : i < n
      /\ Parent(n)' = p
  BY <1>0, WrittenAncestors
<1>3. Ancestors(n)' = IF p = 0 THEN {} ELSE {p} \cup Ancestors(p)
  <2>1. n \in Nodes'
    BY <1>2
  <2>2. (IsForest =>
           \A i \in Nodes :
             Ancestors(i) = IF Parent(i) = 0 THEN {} ELSE {Parent(i)} \cup Ancestors(Parent(i)))'
    BY AncestorsAlways, PTL
  <2>3. Ancestors(n)' = IF p = 0 THEN {} ELSE {p} \cup Ancestors(p)'
    BY <1>2, <2>1, <2>2
  <2>4. p # 0 => p \in Nodes
    BY <1>1, AncestorsAreBefore
  <2> QED BY <1>2, <2>3, <2>4
<1>4. Ancestors(n)' # {} => l \in Nodes /\ Ancestors(n)' \subseteq {l} \cup Ancestors(l)
  BY <1>1, <1>3, AncestorsAreNested
<1>5. ASSUME NEW i \in Nodes', NEW j \in Nodes', NEW o \in Ancestors(i)', o < j, j < i
      PROVE  o \in Ancestors(j)'
  <2>1. j \in Nodes /\ j \in Nat
    BY <1>1, <1>2, <1>5
  <2>2. CASE i \in Nodes
    BY <1>2, <1>5, <2>1, <2>2 DEF IsNested
  <2>3. CASE i = n
    <3>1. l \in Nodes /\ o \in {l} \cup Ancestors(l)
      BY <1>4, <1>5, <2>3
    <3>2. j = l \/ j < l
      BY <1>1, <1>5, <2>1, <2>3
    <3>3. o # l
      BY <1>1, <1>5, <2>1, <2>3
    <3>4. o \in Ancestors(j)
      BY <1>5, <2>1, <3>1, <3>2, <3>3 DEF IsNested
    <3> QED BY <1>2, <2>1, <3>4
  <2> QED BY <1>2, <2>2, <2>3
<1> QED BY <1>5 DEF IsNested

-----------------------------------------------------------------------------
\* The decisions in a function, summed up node by node.

Added(f, k) == IF f \in Ancestors(k) THEN Decisions(source[k]) ELSE 0

IsSum(s, f, n) == \A k \in 0 .. n : s[k] = IF k = 0 THEN 0 ELSE s[k - 1] + Added(f, k)

\* What a node adds is a number.
LEMMA AddedType ==
  ASSUME IsForest, NEW f, NEW k \in Nodes
  PROVE  Added(f, k) \in Nat
<1>1. source[k] \in Node
  BY ElementOfSeq DEF IsForest, Nodes
<1> QED BY <1>1, DecisionsType DEF Added

\* The recursion in DecisionsIn has a solution.
LEMMA SumExists ==
  ASSUME IsForest, NEW f
  PROVE  \E s \in [0 .. Len(source) -> Nat] : IsSum(s, f, Len(source))
<1> DEFINE Wrong == {n \in 0 .. Len(source) : ~ \E s \in [0 .. n -> Nat] : IsSum(s, f, n)}
<1>1. Len(source) \in Nat /\ Nodes = 1 .. Len(source)
  BY DEF IsForest, Nodes
<1>2. Wrong = {}
  <2> SUFFICES ASSUME Wrong # {}
               PROVE  FALSE
    OBVIOUS
  <2>1. PICK n \in Wrong : \A j \in Wrong : ~ (j < n)
    <3>1. Wrong \in SUBSET Nat
      BY <1>1
    <3> HIDE DEF Wrong
    <3> QED BY <3>1, LeastNumber
  <2>2. n \in 0 .. Len(source) /\ n \in Nat
    BY <1>1, <2>1
  <2>3. CASE n = 0
    <3> DEFINE zero == [k \in 0 .. 0 |-> 0]
    <3>1. zero \in [0 .. n -> Nat] /\ IsSum(zero, f, n)
      BY <2>3 DEF IsSum
    <3> QED BY <2>1, <3>1
  <2>4. CASE n # 0
    <3>1. n - 1 \in 0 .. Len(source) /\ n - 1 \notin Wrong /\ n \in Nodes
      <4>1. n - 1 \in 0 .. Len(source) /\ n - 1 < n /\ n \in Nodes
        BY <1>1, <2>2, <2>4
      <4> HIDE DEF Wrong
      <4> QED BY <2>1, <4>1
    <3>2. PICK s \in [0 .. n - 1 -> Nat] : IsSum(s, f, n - 1)
      BY <3>1
    <3> DEFINE t == [k \in 0 .. n |-> IF k = n THEN s[n - 1] + Added(f, n) ELSE s[k]]
    <3>3. s[n - 1] + Added(f, n) \in Nat
      <4>1. s[n - 1] \in Nat /\ Added(f, n) \in Nat
        BY <2>2, <2>4, <3>1, <3>2, AddedType
      <4> QED BY <4>1
    <3>4. t \in [0 .. n -> Nat]
      BY <2>2, <3>2, <3>3
    <3>5. ASSUME NEW k \in 0 .. n
          PROVE  t[k] = IF k = 0 THEN 0 ELSE t[k - 1] + Added(f, k)
      <4>1. CASE k = n
        <5>1. t[n] = s[n - 1] + Added(f, n) /\ t[n - 1] = s[n - 1]
          BY <2>2, <2>4
        <5> QED BY <2>4, <4>1, <5>1
      <4>2. CASE k # n
        <5>1. k \in 0 .. n - 1 /\ t[k] = s[k] /\ (k # 0 => t[k - 1] = s[k - 1])
          BY <2>2, <4>2
        <5> QED BY <3>2, <5>1 DEF IsSum
      <4> QED BY <4>1, <4>2
    <3>6. IsSum(t, f, n)
      BY <3>5 DEF IsSum
    <3> HIDE DEF t
    <3> QED BY <2>1, <3>4, <3>6
  <2> QED BY <2>3, <2>4
<1> QED BY <1>1, <1>2

\* So the sum up to a node is what it was before, and what the node adds.
LEMMA DecisionsStep ==
  ASSUME IsForest, NEW f
  PROVE  /\ IsSum(DecisionsIn(f), f, Len(source))
         /\ \A k \in 0 .. Len(source) : DecisionsIn(f)[k] \in Nat
<1> DEFINE Step(s) == [k \in 0 .. Len(source) |-> IF k = 0 THEN 0 ELSE s[k - 1] + Added(f, k)]
           sum == CHOOSE s : s = Step(s)
<1>1. PICK s \in [0 .. Len(source) -> Nat] : IsSum(s, f, Len(source))
  BY SumExists
<1>2. s = Step(s)
  BY <1>1 DEF IsSum
<1>3. sum = Step(sum)
  <2>1. \E x : x = Step(x)
    BY <1>2
  <2> HIDE DEF Step
  <2> QED BY <2>1
<1>4. DecisionsIn(f) = sum
  BY DEF DecisionsIn, Added
<1> HIDE DEF sum
<1>5. IsSum(sum, f, Len(source))
  BY <1>3 DEF IsSum
<1> DEFINE Wrong == {k \in 0 .. Len(source) : sum[k] \notin Nat}
<1>6. Len(source) \in Nat /\ Nodes = 1 .. Len(source)
  BY DEF IsForest, Nodes
<1>7. Wrong = {}
  <2> SUFFICES ASSUME Wrong # {}
               PROVE  FALSE
    OBVIOUS
  <2>1. PICK k \in Wrong : \A j \in Wrong : ~ (j < k)
    <3>1. Wrong \in SUBSET Nat
      BY <1>6
    <3> HIDE DEF Wrong
    <3> QED BY <3>1, LeastNumber
  <2>2. k \in 0 .. Len(source) /\ sum[k] \notin Nat /\ k # 0 /\ k \in Nat
    BY <1>5, <1>6, <2>1 DEF IsSum
  <2>3. k - 1 \in 0 .. Len(source) /\ k - 1 < k /\ k \in Nodes
    BY <1>6, <2>2
  <2>4. sum[k - 1] \in Nat
    BY <2>1, <2>3
  <2>5. Added(f, k) \in Nat
    BY <2>3, AddedType
  <2> QED BY <1>5, <2>2, <2>4, <2>5 DEF IsSum
<1> QED BY <1>4, <1>5, <1>7

\* Nodes outside of a function add nothing.
LEMMA DecisionsOutside ==
  ASSUME IsForest, NEW f, NEW m \in 0 .. Len(source), NEW n \in 0 .. Len(source), m =< n,
         \A k \in Nodes : m < k /\ k =< n => f \notin Ancestors(k)
  PROVE  DecisionsIn(f)[n] = DecisionsIn(f)[m]
<1> DEFINE Wrong == {k \in m .. n : DecisionsIn(f)[k] # DecisionsIn(f)[m]}
<1>1. Len(source) \in Nat /\ Nodes = 1 .. Len(source) /\ m \in Nat /\ n \in Nat /\ n =< Len(source)
  BY DEF IsForest, Nodes
<1>2. Wrong = {}
  <2> SUFFICES ASSUME Wrong # {}
               PROVE  FALSE
    OBVIOUS
  <2>1. PICK k \in Wrong : \A j \in Wrong : ~ (j < k)
    <3>1. Wrong \in SUBSET Nat
      BY <1>1
    <3> HIDE DEF Wrong
    <3> QED BY <3>1, LeastNumber
  <2>2. k \in m .. n /\ k # m /\ DecisionsIn(f)[k] # DecisionsIn(f)[m]
    BY <2>1
  <2>3. k - 1 \in m .. n /\ k - 1 < k /\ m < k /\ k =< n /\ k \in Nodes /\ k \in 0 .. Len(source) /\ k # 0
    BY <1>1, <2>2
  <2>4. k - 1 \notin Wrong
    <3> HIDE DEF Wrong
    <3> QED BY <2>1, <2>3
  <2>5. DecisionsIn(f)[k - 1] = DecisionsIn(f)[m]
    BY <2>3, <2>4
  <2>6. DecisionsIn(f)[k] = DecisionsIn(f)[k - 1] + Added(f, k)
    BY <2>3, DecisionsStep DEF IsSum
  <2>7. Added(f, k) = 0
    BY <2>3 DEF Added
  <2>8. DecisionsIn(f)[m] \in Nat
    BY DecisionsStep
  <2> QED BY <2>2, <2>5, <2>6, <2>7, <2>8
<1> QED BY <1>1, <1>2

-----------------------------------------------------------------------------
\* Where a visitor is: what it has yet to visit, from node n on, stands in the node it
\* is in, in one around that, or in what it has yet to visit.

IsPlace(n, o) ==
  \A i \in Nodes : i >= n =>
    \/ Parent(i) >= n \/ Parent(i) = 0 \/ Parent(i) = o
    \/ o # 0 /\ Parent(i) \in Ancestors(o)

\* At the start nothing was visited.
LEMMA FirstPlace == IsForest => IsPlace(1, 0)
BY ParentIsBefore DEF IsPlace

\* A visitor goes down into the next node.
LEMMA PlaceBelow ==
  ASSUME IsForest, NEW n \in Nodes, NEW o \in {0} \cup Nodes, Parent(n) = o, IsPlace(n, o)
  PROVE  IsPlace(n + 1, n)
<1>1. n \in Nat /\ n # 0 /\ \A i \in Nodes : i \in Nat /\ Parent(i) \in Nat
  BY ParentIsBefore
<1>2. o # 0 => Ancestors(n) = {o} \cup Ancestors(o)
  BY AncestorsStep
<1>3. ASSUME NEW i \in Nodes, i >= n + 1
      PROVE  \/ Parent(i) >= n + 1 \/ Parent(i) = 0 \/ Parent(i) = n
             \/ n # 0 /\ Parent(i) \in Ancestors(n)
  <2>1. i >= n /\ Parent(i) \in Nat
    BY <1>1, <1>3
  <2>2. \/ Parent(i) >= n \/ Parent(i) = 0 \/ Parent(i) = o
        \/ o # 0 /\ Parent(i) \in Ancestors(o)
    BY <2>1 DEF IsPlace
  <2>3. CASE Parent(i) >= n
    BY <1>1, <2>1, <2>3
  <2>4. CASE Parent(i) = o \/ (o # 0 /\ Parent(i) \in Ancestors(o))
    BY <1>1, <1>2, <2>4
  <2> QED BY <2>2, <2>3, <2>4
<1> QED BY <1>3 DEF IsPlace

\* When the next node is no child of the one it is in, nothing is left there.
LEMMA NothingLeft ==
  ASSUME IsForest, IsNested, NEW n \in Nat, NEW o \in Nodes, o < n, IsPlace(n, o),
         ~ HasChild(n, o), NEW i \in Nodes, i >= n
  PROVE  o \notin Ancestors(i)
<1> SUFFICES ASSUME o \in Ancestors(i)
             PROVE  FALSE
  OBVIOUS
<1>1. n \in Nodes /\ n =< Len(source) /\ i \in Nat /\ o \in Nat
  BY DEF IsForest, Nodes
<1>2. o \in Ancestors(n)
  BY <1>1 DEF IsNested
<1> DEFINE p == Parent(n)
<1>3. p \in Nat /\ p < n /\ p # o /\ (p # 0 => p \in Nodes)
  BY <1>1, ParentIsBefore DEF HasChild
<1>4. p # 0 /\ o \in {p} \cup Ancestors(p)
  BY <1>1, <1>2, AncestorsStep
<1>5. o < p
  BY <1>3, <1>4, AncestorsAreBefore
<1>6. p \in Ancestors(o)
  BY <1>1, <1>3, <1>4 DEF IsPlace
<1>7. p < o
  BY <1>6, AncestorsAreBefore
<1> HIDE DEF p
<1> QED BY <1>1, <1>3, <1>5, <1>7

\* Then it goes back up.
LEMMA PlaceAround ==
  ASSUME IsForest, IsNested, NEW n \in Nat, NEW o \in Nodes, o < n, IsPlace(n, o),
         ~ HasChild(n, o)
  PROVE  IsPlace(n, Parent(o))
<1>1. ASSUME NEW i \in Nodes, i >= n
      PROVE  \/ Parent(i) >= n \/ Parent(i) = 0 \/ Parent(i) = Parent(o)
             \/ Parent(o) # 0 /\ Parent(i) \in Ancestors(Parent(o))
  <2>1. o \notin Ancestors(i)
    BY <1>1, NothingLeft
  <2>2. Parent(i) # 0 => Parent(i) # o
    BY <2>1, AncestorsStep
  <2>3. Ancestors(o) = IF Parent(o) = 0 THEN {} ELSE {Parent(o)} \cup Ancestors(Parent(o))
    BY AncestorsStep
  <2> QED BY <1>1, <2>2, <2>3 DEF IsPlace
<1> QED BY <1>1 DEF IsPlace

-----------------------------------------------------------------------------
\* What is found at a node.

OfSignature(i) ==
  Over("FunctionLines", i, Lines(i), MaxFunctionLines)
    \cup Over("Parameters", i, source[i].count, MaxParameters)

OfFlow(i) ==
  Over("Complexity", i, ComplexityOf(i), MaxComplexity)
    \cup Over("Nesting", i, NestingOf(i), MaxNesting)

Findings == UNION {Expected(i) : i \in Nodes}

\* A sequence that says what is in a set, and says it once.
Lists(s, set) == s \in Seq(set) /\ Range(s) = set /\ IsInjective(s)

\* One that is appended to another about other things.
LEMMA ListsOfConcat ==
  ASSUME NEW A, NEW B, NEW s, NEW t, Lists(s, A), Lists(t, B), A \cap B = {}
  PROVE  Lists(s \o t, A \cup B)
<1> DEFINE m == Len(s)
           n == Len(t)
           b == s \o t
<1>1. s \in Seq(A) /\ t \in Seq(B) /\ s \in Seq(A \cup B) /\ t \in Seq(A \cup B)
  BY SeqMonotonic DEF Lists
<1>2. /\ b \in Seq(A \cup B) /\ m \in Nat /\ n \in Nat /\ DOMAIN s = 1 .. m /\ DOMAIN t = 1 .. n
      /\ DOMAIN b = 1 .. m + n
      /\ \A i \in 1 .. m + n : b[i] = IF i <= m THEN s[i] ELSE t[i - m]
  BY <1>1, ConcatProperties, LenProperties
<1>3. /\ \A i \in DOMAIN s : s[i] \in A
      /\ \A i \in DOMAIN t : t[i] \in B
      /\ \A v \in A : \E i \in DOMAIN s : s[i] = v
      /\ \A v \in B : \E i \in DOMAIN t : t[i] = v
  BY DEF Lists, Range
<1>4. /\ \A i, j \in DOMAIN s : s[i] = s[j] => i = j
      /\ \A i, j \in DOMAIN t : t[i] = t[j] => i = j
  BY DEF Lists, IsInjective
<1> HIDE DEF m, n, b
<1>5. \A i \in DOMAIN b :
        \/ i \in DOMAIN s /\ b[i] = s[i] /\ i =< m
        \/ i - m \in DOMAIN t /\ b[i] = t[i - m] /\ ~ i =< m
  BY <1>2
<1>6. \A i \in DOMAIN s : i \in DOMAIN b /\ b[i] = s[i]
  BY <1>2
<1>7. \A i \in DOMAIN t : i + m \in DOMAIN b /\ b[i + m] = t[i]
  <2> SUFFICES ASSUME NEW i \in DOMAIN t
               PROVE  i + m \in DOMAIN b /\ b[i + m] = t[i]
    OBVIOUS
  <2>1. i + m \in 1 .. m + n /\ ~ (i + m <= m) /\ (i + m) - m = i
    BY <1>2
  <2> QED BY <1>2, <2>1
<1>8. Range(b) = A \cup B
  BY <1>3, <1>5, <1>6, <1>7 DEF Range
<1>9. ASSUME NEW i \in DOMAIN b, NEW j \in DOMAIN b, b[i] = b[j]
      PROVE  i = j
  <2>1. CASE i =< m /\ j =< m
    BY <1>4, <1>5, <1>9, <2>1
  <2>2. CASE ~ i =< m /\ ~ j =< m
    <3>1. i - m = j - m
      BY <1>4, <1>5, <1>9, <2>2
    <3> QED BY <1>2, <3>1
  <2>3. CASE i =< m /\ ~ j =< m
    BY <1>3, <1>5, <1>9, <2>3
  <2>4. CASE ~ i =< m /\ j =< m
    BY <1>3, <1>5, <1>9, <2>4
  <2> QED BY <2>1, <2>2, <2>3, <2>4
<1>10. IsInjective(b)
  BY <1>9 DEF IsInjective
<1> QED BY <1>2, <1>8, <1>10 DEF Lists, b

\* check_value finds what is over a limit.
LEMMA CheckedValue ==
  ASSUME NEW rule, NEW i, NEW actual, NEW maximum
  PROVE  Lists(CheckValue(rule, i, actual, maximum), Over(rule, i, actual, maximum))
<1>1. CASE actual > maximum
  <2> DEFINE v == Violation(rule, i, actual)
  <2>1. CheckValue(rule, i, actual, maximum) = <<v>> /\ Over(rule, i, actual, maximum) = {v}
    BY <1>1 DEF CheckValue, Over
  <2> HIDE DEF v
  <2>2. <<v>> \in Seq({v}) /\ DOMAIN <<v>> = {1} /\ <<v>>[1] = v
    OBVIOUS
  <2>3. Range(<<v>>) = {v} /\ IsInjective(<<v>>)
    BY <2>2 DEF Range, IsInjective
  <2> QED BY <2>1, <2>2, <2>3 DEF Lists
<1>2. CASE ~ (actual > maximum)
  <2>1. CheckValue(rule, i, actual, maximum) = <<>> /\ Over(rule, i, actual, maximum) = {}
    BY <1>2 DEF CheckValue, Over
  <2>2. <<>> \in Seq({}) /\ DOMAIN <<>> = {}
    OBVIOUS
  <2>3. Range(<<>>) = {} /\ IsInjective(<<>>)
    BY <2>2 DEF Range, IsInjective
  <2> QED BY <2>1, <2>2, <2>3 DEF Lists
<1> QED BY <1>1, <1>2

\* Two rules for a node find different things.
LEMMA CheckedValues ==
  ASSUME NEW r, NEW q, r # q, NEW i, NEW a, NEW x, NEW b, NEW y
  PROVE  Lists(CheckValue(r, i, a, x) \o CheckValue(q, i, b, y), Over(r, i, a, x) \cup Over(q, i, b, y))
<1>1. Over(r, i, a, x) \cap Over(q, i, b, y) = {}
  <2>1. \A v \in Over(r, i, a, x) : v.rule = r
    BY DEF Over, Violation
  <2>2. \A v \in Over(q, i, b, y) : v.rule = q
    BY DEF Over, Violation
  <2> QED BY <2>1, <2>2
<1> QED BY <1>1, CheckedValue, ListsOfConcat

-----------------------------------------------------------------------------
\* What is said of a file that is not changed stays.

\* The tree,
LEMMA SameTree ==
  ASSUME source' = source
  PROVE  /\ Nodes' = Nodes
         /\ \A i : /\ Parent(i)' = Parent(i) /\ Kind(i)' = Kind(i)
                   /\ Ancestors(i)' = Ancestors(i) /\ Descendants(i)' = Descendants(i)
                   /\ Lines(i)' = Lines(i) /\ DecisionsIn(i)' = DecisionsIn(i)
         /\ \A f, i : Depth(f, i)' = Depth(f, i)
<1>1. Nodes' = Nodes /\ \A i : Parent(i)' = Parent(i) /\ Kind(i)' = Kind(i)
  BY DEF Nodes, Parent, Kind
<1>2. \A i : Ancestors(i)' = Ancestors(i)
  BY DEF Ancestors, Nodes, Parent
<1>3. \A i : Descendants(i)' = Descendants(i)
  BY <1>1, <1>2 DEF Descendants
<1>4. \A i : Lines(i)' = Lines(i)
  BY <1>3 DEF Lines
<1>5. \A i : DecisionsIn(i)' = DecisionsIn(i)
  BY <1>2 DEF DecisionsIn
<1>6. \A f, i : Depth(f, i)' = Depth(f, i)
  <2>1. \A f, i : Around(f, i)' = Around(f, i)
    BY <1>1, <1>2 DEF Around
  <2> QED BY <2>1 DEF Depth
<1> QED BY <1>1, <1>2, <1>3, <1>4, <1>5, <1>6

\* What is found in the nodes before n.
FoundBefore(n) == UNION {Expected(i) : i \in 1 .. n - 1}

\* what there is to find,
LEMMA SameFindings ==
  ASSUME source' = source
  PROVE  \A n : OfSignature(n)' = OfSignature(n) /\ FoundBefore(n)' = FoundBefore(n)
<1>1. \A i : /\ Kind(i)' = Kind(i) /\ Descendants(i)' = Descendants(i)
             /\ Lines(i)' = Lines(i) /\ DecisionsIn(i)' = DecisionsIn(i)
  BY SameTree
<1>2. \A i : ComplexityOf(i)' = ComplexityOf(i)
  BY <1>1 DEF ComplexityOf
<1>3. \A i : NestingOf(i)' = NestingOf(i)
  <2>1. \A f, i : Depth(f, i)' = Depth(f, i)
    BY SameTree
  <2> QED BY <1>1, <2>1 DEF NestingOf
<1>4. \A rule, i, actual, maximum :
        Over(rule, i, actual, maximum)' = Over(rule, i, actual, maximum)
  BY DEF Over, Violation
<1>5. \A i : Expected(i)' = Expected(i)
  BY <1>1, <1>2, <1>3, <1>4 DEF Expected
<1>6. \A n : OfSignature(n)' = OfSignature(n)
  BY <1>1, <1>4 DEF OfSignature
<1>7. \A n : FoundBefore(n)' = FoundBefore(n)
  BY <1>5 DEF FoundBefore
<1> QED BY <1>6, <1>7

\* and where a visitor is in it.
LEMMA SamePlace ==
  ASSUME source' = source
  PROVE  /\ \A n, o : IsPlace(n, o)' = IsPlace(n, o)
         /\ IsNested' = IsNested
<1>1. \A n, o : IsPlace(n, o)' = IsPlace(n, o)
  BY SameTree DEF IsPlace
<1>2. IsNested' = IsNested
  BY SameTree DEF IsNested
<1> QED BY <1>1, <1>2

-----------------------------------------------------------------------------
\* What the analyzer reported so far is what there is in the nodes it visited.

\* Both visitors have their place, and every node before it was visited.
PlacesKept ==
  /\ IsNested
  /\ IsPlace(next, open)
  /\ pc = "write" => next = 1 /\ open = 0 /\ violations = <<>>
  /\ pc = "flow" => /\ next = open + 1 /\ open < flowNext /\ Kind(open) = "fn"
                    /\ IsPlace(flowNext, flowOpen)
  /\ pc = "done" => next = Len(source) + 1

\* The counters of a function are those of its nodes before n.
MeasuredTo(f, n) ==
  /\ complexity = 1 + DecisionsIn(f)[n - 1]
  /\ \A i \in Descendants(f) : i < n => Depth(f, i) =< maximumNesting
  /\ maximumNesting = 0 \/ \E i \in Descendants(f) : i < n /\ Depth(f, i) = maximumNesting

Measured == pc = "flow" => MeasuredTo(open, flowNext)

ReportedSoFar ==
  /\ pc # "flow" => Lists(violations, FoundBefore(next))
  /\ pc = "flow" => Lists(violations, FoundBefore(open) \cup OfSignature(open))

ReportInv == PlacesKept /\ Measured /\ ReportedSoFar

\* Nothing is found before the first node, and an empty report says so.
LEMMA NothingFound == FoundBefore(1) = {} /\ Lists(<<>>, FoundBefore(1))
<1>1. FoundBefore(1) = {}
  <2>1. 1 .. 1 - 1 = {}
    OBVIOUS
  <2> QED BY <2>1 DEF FoundBefore
<1>2. <<>> \in Seq({}) /\ DOMAIN <<>> = {}
  OBVIOUS
<1>3. Range(<<>>) = {} /\ IsInjective(<<>>)
  BY <1>2 DEF Range, IsInjective
<1> QED BY <1>1, <1>2, <1>3 DEF Lists

\* What is found at a node says its line.
LEMMA FindingsHaveLines ==
  ASSUME NEW i
  PROVE  /\ \A v \in Expected(i) : v.line = i
         /\ \A v \in OfSignature(i) : v.line = i
         /\ Kind(i) = "fn" => Expected(i) = OfSignature(i) \cup OfFlow(i)
         /\ OfSignature(i) \cap OfFlow(i) = {}
<1>1. \A rule, actual, maximum : \A v \in Over(rule, i, actual, maximum) : v.line = i /\ v.rule = rule
  BY DEF Over, Violation
<1>2. \A v \in OfSignature(i) : v.line = i /\ v.rule \in {"FunctionLines", "Parameters"}
  BY <1>1 DEF OfSignature
<1>3. \A v \in OfFlow(i) : v.line = i /\ v.rule \in {"Complexity", "Nesting"}
  BY <1>1 DEF OfFlow
<1>4. OfSignature(i) \cap OfFlow(i) = {}
  BY <1>2, <1>3
<1>5. Kind(i) = "fn" => Expected(i) = OfSignature(i) \cup OfFlow(i)
  BY DEF Expected, OfSignature, OfFlow
<1>6. \A v \in Expected(i) : v.line = i
  <2>1. CASE Kind(i) = "fn"
    BY <1>2, <1>3, <1>5, <2>1
  <2>2. CASE Kind(i) = "signature"
    BY <1>2, <2>2 DEF Expected, OfSignature
  <2>3. CASE Kind(i) = "type"
    BY <1>1, <2>3 DEF Expected
  <2>4. CASE Kind(i) \notin {"fn", "signature", "type"}
    BY <2>4 DEF Expected
  <2> QED BY <2>1, <2>2, <2>3, <2>4
<1> QED BY <1>2, <1>4, <1>5, <1>6

\* The findings before a node are not the node's, and with them are those before the next.
LEMMA FoundUpTo ==
  ASSUME NEW n \in Nat, n # 0
  PROVE  /\ FoundBefore(n + 1) = FoundBefore(n) \cup Expected(n)
         /\ \A v \in FoundBefore(n) : v.line # n
<1>1. 1 .. (n + 1) - 1 = (1 .. n - 1) \cup {n} /\ \A i \in 1 .. n - 1 : i # n
  OBVIOUS
<1>2. FoundBefore(n + 1) = FoundBefore(n) \cup Expected(n)
  BY <1>1 DEF FoundBefore
<1>3. \A v \in FoundBefore(n) : v.line # n
  BY <1>1, FindingsHaveLines DEF FoundBefore
<1> QED BY <1>2, <1>3

\* Writing the file and the start of the visit report nothing.
LEMMA ReportStarts ==
  ASSUME MetricsInv, ReportInv, MetricsInv', Author \/ Analyze
  PROVE  ReportInv'
<1>1. /\ pc = "write" /\ pc' \in {"write", "visit"} /\ next' = next /\ open' = open
      /\ violations' = violations
  BY DEF Author, Write, Analyze, analyzer
<1>2. next' = 1 /\ open' = 0 /\ violations' = <<>>
  BY <1>1 DEF ReportInv, PlacesKept
<1>3. IsForest /\ IsForest'
  <2>1. (MetricsInv => IsForest) /\ (MetricsInv => IsForest)'
    BY Forest, PTL DEF MetricsInv
  <2> QED BY <2>1
<1>4. IsNested'
  <2>1. IsNested
    BY DEF ReportInv, PlacesKept
  <2>2. CASE Author
    <3>1. PICK kind \in Kinds : \E count \in (IF kind \in Counted THEN Counts ELSE {0}) :
            \E q \in Places : Write(kind, count, q)
      BY <2>2 DEF Author
    <3>2. PICK count : \E q \in Places : Write(kind, count, q)
      BY <3>1
    <3>3. PICK p \in Places : Write(kind, count, p)
      BY <3>2
    <3>4. PICK node : node = [kind |-> kind, count |-> count, parent |-> p]
      OBVIOUS
    <3>5. node.parent = p /\ source' = Append(source, node)
      BY <3>3, <3>4 DEF Write
    <3> QED BY <1>3, <2>1, <3>5, WriteKeepsNested
  <2>3. CASE Analyze
    <3>1. source' = source
      BY <2>3 DEF Analyze
    <3> QED BY <2>1, <3>1, SamePlace
  <2> QED BY <2>2, <2>3
<1>5. IsPlace(next, open)'
  <2>1. (IsForest => IsPlace(1, 0))'
    BY FirstPlace, PTL
  <2> QED BY <1>2, <1>3, <2>1
<1>6. Lists(violations, FoundBefore(next))'
  <2>1. Lists(<<>>, FoundBefore(1))'
    BY NothingFound, PTL
  <2> QED BY <1>2, <2>1
<1> QED BY <1>1, <1>2, <1>4, <1>5, <1>6 DEF ReportInv, PlacesKept, Measured, ReportedSoFar

\* The analyzer goes down into a node that is no function with a block, and reports what
\* there is to say of it.
LEMMA ReportDescends ==
  ASSUME MetricsInv, ReportInv, pc = "visit", pc' = "visit", source' = source,
         HasChild(next, open), open' = next, next' = next + 1,
         \E t : Lists(t, Expected(next)) /\ violations' = violations \o t
  PROVE  ReportInv'
<1>1. PICK n, o : n = next /\ o = open
  OBVIOUS
<1>2. IsForest /\ n \in Nodes /\ n \in Nat /\ n # 0 /\ Parent(n) = o /\ o \in {0} \cup Nodes
  <2>1. IsForest /\ n \in Nodes /\ Parent(n) = o
    BY <1>1, Forest, ChildIsNode DEF MetricsInv, TypeOK
  <2> QED BY <2>1, ParentIsBefore
<1>3. IsNested /\ IsPlace(n, o) /\ Lists(violations, FoundBefore(n))
  BY <1>1 DEF ReportInv, PlacesKept, ReportedSoFar
<1>4. IsNested' /\ IsPlace(n + 1, n)'
  BY <1>2, <1>3, PlaceBelow, SamePlace
<1>5. PICK t : Lists(t, Expected(n)) /\ violations' = violations \o t
  BY <1>1
<1>6. FoundBefore(n) \cap Expected(n) = {}
  BY <1>2, FoundUpTo, FindingsHaveLines
<1>7. Lists(violations \o t, FoundBefore(n) \cup Expected(n))
  BY <1>3, <1>5, <1>6, ListsOfConcat
<1>8. FoundBefore(n + 1)' = FoundBefore(n) \cup Expected(n)
  BY <1>2, FoundUpTo, SameFindings
<1>9. Lists(violations, FoundBefore(next))'
  BY <1>1, <1>5, <1>7, <1>8 DEF Lists
<1>10. open' = n /\ next' = n + 1
  BY <1>1
<1> QED BY <1>4, <1>9, <1>10 DEF ReportInv, PlacesKept, Measured, ReportedSoFar

\* So it does at a signature, a type, and where there is nothing to say.
LEMMA ReportVisits ==
  ASSUME MetricsInv, ReportInv, VisitSignature \/ VisitType \/ VisitOther
  PROVE  ReportInv'
<1>1. /\ pc = "visit" /\ pc' = "visit" /\ source' = source
      /\ HasChild(next, open) /\ open' = next /\ next' = next + 1
  BY DEF VisitSignature, VisitType, VisitOther, Descend
<1>2. \E t : Lists(t, Expected(next)) /\ violations' = violations \o t
  <2>1. CASE VisitSignature
    <3>1. violations' = violations \o CheckSignature(next) /\ Kind(next) = "signature"
      BY <2>1 DEF VisitSignature
    <3>2. Lists(CheckSignature(next), OfSignature(next))
      BY CheckedValues DEF CheckSignature, OfSignature
    <3>3. Expected(next) = OfSignature(next)
      BY <3>1 DEF Expected, OfSignature
    <3> QED BY <3>1, <3>2, <3>3
  <2>2. CASE VisitType
    <3>1. violations' = violations \o CheckType(next) /\ Kind(next) = "type"
      BY <2>2 DEF VisitType
    <3>2. Lists(CheckType(next), Expected(next))
      BY <3>1, CheckedValue DEF CheckType, Expected
    <3> QED BY <3>1, <3>2
  <2>3. CASE VisitOther
    <3>1. violations' = violations /\ Kind(next) \notin {"fn", "signature", "type"}
      BY <2>3 DEF VisitOther, FunctionKinds
    <3>2. Expected(next) = {}
      BY <3>1 DEF Expected
    <3>3. Lists(<<>>, Expected(next))
      BY <3>2, NothingFound
    <3>4. PICK set : violations \in Seq(set)
      BY <1>1 DEF ReportInv, ReportedSoFar, Lists
    <3>5. violations \o <<>> = violations
      BY <3>4, ConcatEmptySeq
    <3> QED BY <3>1, <3>3, <3>5
  <2> QED BY <2>1, <2>2, <2>3
<1> QED BY <1>1, <1>2, ReportDescends

\* It goes back up with all of a node visited, and is done with the last one.
LEMMA ReportReturns ==
  ASSUME MetricsInv, ReportInv, Return
  PROVE  ReportInv'
<1>1. PICK n, o : n = next /\ o = open
  OBVIOUS
<1>2. /\ pc = "visit" /\ source' = source /\ next' = n /\ violations' = violations
      /\ ~ HasChild(n, o)
      /\ IF o = 0 THEN pc' = "done" /\ open' = o ELSE open' = Parent(o) /\ pc' = pc
  BY <1>1 DEF Return
<1>3. /\ IsForest /\ Nodes = 1 .. Len(source) /\ Len(source) \in Nat
      /\ n \in 1 .. Len(source) + 1 /\ o \in 0 .. n - 1
  BY <1>1, Forest, NodesAreNumbers DEF MetricsInv, TypeOK
<1>4. IsNested /\ IsPlace(n, o) /\ Lists(violations, FoundBefore(n))
  BY <1>1, <1>2 DEF ReportInv, PlacesKept, ReportedSoFar
<1>5. Lists(violations, FoundBefore(next))' /\ IsNested'
  <2>1. FoundBefore(n)' = FoundBefore(n) /\ IsNested'
    BY <1>2, <1>4, SameFindings, SamePlace
  <2> QED BY <1>2, <1>4, <2>1 DEF Lists
<1>6. CASE o = 0
  <2>1. n \notin Nodes
    <3> SUFFICES ASSUME n \in Nodes
                 PROVE  FALSE
      OBVIOUS
    <3>1. Parent(n) \in Nat /\ Parent(n) < n /\ n \in Nat
      BY <1>3, ParentIsBefore
    <3>2. \/ Parent(n) >= n \/ Parent(n) = 0
      BY <1>3, <1>4, <1>6 DEF IsPlace
    <3>3. HasChild(n, 0)
      BY <1>3, <3>1, <3>2 DEF HasChild
    <3> QED BY <1>2, <1>6, <3>3
  <2>2. next' = Len(source') + 1
    BY <1>2, <1>3, <2>1
  <2>3. IsPlace(n, o)'
    BY <1>2, <1>4, SamePlace
  <2>4. pc' = "done" /\ open' = o
    BY <1>2, <1>6
  <2> QED BY <1>2, <1>5, <2>2, <2>3, <2>4 DEF ReportInv, PlacesKept, Measured, ReportedSoFar
<1>7. CASE o # 0
  <2>1. PICK p : p = Parent(o)
    OBVIOUS
  <2>2. IsPlace(n, p)
    <3>1. n \in Nat /\ o \in Nodes /\ o < n
      BY <1>3, <1>7
    <3> QED BY <1>2, <1>3, <1>4, <2>1, <3>1, PlaceAround
  <2>3. IsPlace(n, p)'
    BY <1>2, <2>2, SamePlace
  <2>4. pc' = "visit" /\ open' = p
    BY <1>2, <1>7, <2>1
  <2> QED BY <1>2, <1>5, <2>3, <2>4 DEF ReportInv, PlacesKept, Measured, ReportedSoFar
<1> QED BY <1>6, <1>7

\* A function begins with what its signature tells, and nothing measured.
LEMMA ReportVisitsFunction ==
  ASSUME MetricsInv, ReportInv, VisitFunction
  PROVE  ReportInv'
<1>1. PICK n, o : n = next /\ o = open
  OBVIOUS
<1>2. /\ pc = "visit" /\ pc' = "flow" /\ source' = source
      /\ HasChild(n, o) /\ Kind(n) = "fn"
      /\ open' = n /\ next' = n + 1 /\ flowOpen' = n /\ flowNext' = n + 1
      /\ complexity' = 1 /\ maximumNesting' = 0
      /\ violations' = violations \o CheckSignature(n)
  BY <1>1 DEF VisitFunction, Descend, NewFlowMetrics
<1>3. /\ IsForest /\ n \in Nodes /\ n \in Nat /\ n # 0 /\ Parent(n) = o /\ o \in {0} \cup Nodes
      /\ n \in 0 .. Len(source)
  <2>1. IsForest /\ n \in Nodes /\ Parent(n) = o
    BY <1>1, <1>2, Forest, ChildIsNode DEF MetricsInv, TypeOK
  <2>2. Nodes = 1 .. Len(source) /\ Len(source) \in Nat
    BY <2>1 DEF IsForest, Nodes
  <2> QED BY <2>1, <2>2, ParentIsBefore
<1>4. IsNested /\ IsPlace(n, o) /\ Lists(violations, FoundBefore(n))
  BY <1>1, <1>2 DEF ReportInv, PlacesKept, ReportedSoFar
<1>5. PlacesKept'
  <2>1. IsNested' /\ IsPlace(n + 1, n)'
    BY <1>2, <1>3, <1>4, PlaceBelow, SamePlace
  <2>2. Kind(n)' = "fn"
    BY <1>2, SameTree
  <2>3. n < n + 1
    BY <1>3
  <2> QED BY <1>2, <2>1, <2>2, <2>3 DEF PlacesKept
<1>6. \A k \in Nodes : n \in Ancestors(k) => n < k
  BY <1>3, AncestorsAreBefore
<1>7. Measured'
  <2>1. DecisionsIn(n)[n] = 0
    <3>1. \A k \in Nodes : 0 < k /\ k =< n => n \notin Ancestors(k)
      BY <1>3, <1>6, ParentIsBefore
    <3>2. 0 \in 0 .. Len(source) /\ 0 =< n
      BY <1>3 DEF IsForest
    <3>3. DecisionsIn(n)[n] = DecisionsIn(n)[0]
      BY <1>3, <3>1, <3>2, DecisionsOutside
    <3>4. DecisionsIn(n)[0] = 0
      BY <1>3, <3>2, DecisionsStep DEF IsSum
    <3> QED BY <3>3, <3>4
  <2>2. \A i \in Descendants(n) : ~ (i < n + 1)
    <3>1. \A i \in Descendants(n) : i \in Nat /\ n < i
      BY <1>3, <1>6, ParentIsBefore DEF Descendants
    <3> QED BY <1>3, <3>1
  <2>3. DecisionsIn(n)' = DecisionsIn(n) /\ Descendants(n)' = Descendants(n)
    BY <1>2, SameTree
  <2>4. (n + 1) - 1 = n
    BY <1>3
  <2>5. MeasuredTo(n, n + 1)'
    BY <1>2, <2>1, <2>2, <2>3, <2>4 DEF MeasuredTo
  <2> QED BY <1>2, <2>5 DEF Measured
<1>8. ReportedSoFar'
  <2>1. Lists(CheckSignature(n), OfSignature(n))
    BY CheckedValues DEF CheckSignature, OfSignature
  <2>2. FoundBefore(n) \cap OfSignature(n) = {}
    BY <1>3, FoundUpTo, FindingsHaveLines
  <2>3. Lists(violations \o CheckSignature(n), FoundBefore(n) \cup OfSignature(n))
    BY <1>4, <2>1, <2>2, ListsOfConcat
  <2>4. FoundBefore(n)' = FoundBefore(n) /\ OfSignature(n)' = OfSignature(n)
    BY <1>2, SameFindings
  <2> QED BY <1>2, <2>3, <2>4 DEF ReportedSoFar, Lists
<1> QED BY <1>5, <1>7, <1>8 DEF ReportInv

\* Nothing is reported while a function is measured.
LEMMA ReportWaits ==
  ASSUME ReportInv, pc = "flow", pc' = pc, source' = source, violations' = violations,
         next' = next, open' = open
  PROVE  /\ ReportedSoFar' /\ IsNested' /\ IsPlace(next, open)'
         /\ (next = open + 1)' /\ (Kind(open) = "fn")'
<1>1. PICK n, f : n = next /\ f = open
  OBVIOUS
<1>2. /\ IsNested /\ IsPlace(n, f) /\ n = f + 1 /\ Kind(f) = "fn"
      /\ Lists(violations, FoundBefore(f) \cup OfSignature(f))
  BY <1>1 DEF ReportInv, PlacesKept, ReportedSoFar
<1>3. FoundBefore(f)' = FoundBefore(f) /\ OfSignature(f)' = OfSignature(f)
  BY SameFindings
<1>4. ReportedSoFar'
  BY <1>1, <1>2, <1>3 DEF ReportedSoFar, Lists
<1>5. IsNested' /\ IsPlace(n, f)' /\ Kind(f)' = "fn"
  BY <1>2, SamePlace, SameTree
<1> QED BY <1>1, <1>2, <1>4, <1>5

\* A node that is entered adds its decisions, and its depth if that is the greatest yet.
LEMMA ReportFlowEnters ==
  ASSUME MetricsInv, ReportInv, FlowEnter
  PROVE  ReportInv'
<1>1. PICK f, o, n : f = open /\ o = flowOpen /\ n = flowNext
  OBVIOUS
<1>2. PICK c, m, d : c = complexity /\ m = maximumNesting /\ d = currentNesting
  OBVIOUS
<1>3. /\ pc = "flow" /\ pc' = pc /\ source' = source /\ violations' = violations
      /\ next' = next /\ open' = f /\ HasChild(n, o) /\ flowOpen' = n /\ flowNext' = n + 1
      /\ complexity' = c + Decisions(source[n])
      /\ maximumNesting' = IF Kind(n) \in ControlFlow THEN Max({m, d + 1}) ELSE m
  BY <1>1, <1>2 DEF FlowEnter, EnterControlFlow, analyzer
<1>4. /\ IsForest /\ n \in Nodes /\ n \in Nat /\ n # 0 /\ Parent(n) = o /\ n \in 0 .. Len(source)
      /\ f \in Nodes /\ o \in Nodes /\ o # 0 /\ (o = f \/ f \in Ancestors(o)) /\ f \in Nat
      /\ d = Depth(f, o) /\ d \in Nat /\ m \in Nat
  <2>1. IsForest /\ n \in Nodes /\ Parent(n) = o
    BY <1>1, <1>3, Forest, ChildIsNode DEF MetricsInv, TypeOK
  <2>2. Nodes = 1 .. Len(source) /\ Len(source) \in Nat
    BY <2>1 DEF IsForest, Nodes
  <2>3. f \in Nodes /\ o \in Nodes /\ (o = f \/ f \in Ancestors(o)) /\ d = Depth(f, o)
    BY <1>1, <1>2, <1>3 DEF MetricsInv, FlowIsInside, NestingIsDepth
  <2>4. d \in Nat /\ m \in Nat
    BY <1>2 DEF MetricsInv, TypeOK
  <2> QED BY <2>1, <2>2, <2>3, <2>4, ParentIsBefore
<1>5. IsPlace(n, o) /\ f < n /\ MeasuredTo(f, n)
  BY <1>1, <1>3 DEF ReportInv, PlacesKept, Measured
<1>6. f \in Ancestors(n)
  BY <1>4, AncestorsStep
<1>7. PlacesKept'
  <2>1. IsPlace(n + 1, n)'
    BY <1>3, <1>4, <1>5, PlaceBelow, SamePlace
  <2>2. f < n + 1
    BY <1>4, <1>5
  <2> QED BY <1>1, <1>3, <2>1, <2>2, ReportWaits DEF PlacesKept
<1>8. complexity' = 1 + DecisionsIn(f)[n]
  <2>1. c = 1 + DecisionsIn(f)[n - 1]
    BY <1>2, <1>5 DEF MeasuredTo
  <2>2. DecisionsIn(f)[n] = DecisionsIn(f)[n - 1] + Added(f, n)
    BY <1>4, DecisionsStep DEF IsSum
  <2>3. Added(f, n) = Decisions(source[n]) /\ Added(f, n) \in Nat
    BY <1>4, <1>6, AddedType DEF Added
  <2>4. DecisionsIn(f)[n - 1] \in Nat
    <3>1. n - 1 \in 0 .. Len(source)
      BY <1>4 DEF IsForest
    <3> QED BY <1>4, <3>1, DecisionsStep
  <2> QED BY <1>3, <2>1, <2>2, <2>3, <2>4
<1>9. Depth(f, n) = IF Kind(n) \in ControlFlow THEN d + 1 ELSE d
  BY <1>4, DepthOfChild
<1>10. d =< m
  <2>1. CASE o = f
    BY <1>4, <2>1, DepthOfFunction
  <2>2. CASE f \in Ancestors(o)
    <3>1. o \in Descendants(f) /\ o < n
      BY <1>4, <2>2, ParentIsBefore DEF Descendants
    <3> QED BY <1>2, <1>4, <1>5, <3>1 DEF MeasuredTo
  <2> QED BY <1>4, <2>1, <2>2
<1>11. PICK g : g = maximumNesting'
  OBVIOUS
<1>12. /\ g \in Nat /\ m =< g /\ Depth(f, n) =< g
       /\ g = m \/ g = Depth(f, n)
  <2>1. CASE Kind(n) \in ControlFlow
    <3>1. g = Max({m, d + 1})
      BY <1>3, <1>11, <2>1
    <3>2. Max({m, d + 1}) \in {m, d + 1} /\ Max({m, d + 1}) >= m /\ Max({m, d + 1}) >= d + 1
      BY <1>4 DEF Max
    <3> QED BY <1>4, <1>9, <2>1, <3>1, <3>2
  <2>2. CASE Kind(n) \notin ControlFlow
    BY <1>3, <1>4, <1>9, <1>10, <1>11, <2>2
  <2> QED BY <2>1, <2>2
<1>13. \A i \in Descendants(f) : i \in Nat /\ Depth(f, i) \in Nat
  BY <1>4, ParentIsBefore, AroundIsFinite DEF Descendants
<1>14. \A i \in Descendants(f) : i < n + 1 => Depth(f, i) =< g
  <2> SUFFICES ASSUME NEW i \in Descendants(f), i < n + 1
               PROVE  Depth(f, i) =< g
    OBVIOUS
  <2>1. CASE i = n
    BY <1>12, <2>1
  <2>2. CASE i # n
    <3>1. i < n
      BY <1>4, <1>13, <2>2
    <3>2. Depth(f, i) =< m /\ Depth(f, i) \in Nat
      BY <1>2, <1>5, <1>13, <3>1 DEF MeasuredTo
    <3> QED BY <1>4, <1>12, <3>2
  <2> QED BY <2>1, <2>2
<1>15. g = 0 \/ \E i \in Descendants(f) : i < n + 1 /\ Depth(f, i) = g
  <2>1. CASE g = m
    <3>1. m = 0 \/ \E i \in Descendants(f) : i < n /\ Depth(f, i) = m
      BY <1>2, <1>5 DEF MeasuredTo
    <3>2. \A i \in Descendants(f) : i < n => i < n + 1
      BY <1>4, <1>13
    <3> QED BY <2>1, <3>1, <3>2
  <2>2. CASE g = Depth(f, n)
    <3>1. n \in Descendants(f) /\ n < n + 1
      BY <1>4, <1>6 DEF Descendants
    <3> QED BY <2>2, <3>1
  <2> QED BY <1>12, <2>1, <2>2
<1>16. Measured'
  <2>1. /\ DecisionsIn(f)' = DecisionsIn(f) /\ Descendants(f)' = Descendants(f)
        /\ \A i : Depth(f, i)' = Depth(f, i)
    BY <1>3, SameTree
  <2>2. (n + 1) - 1 = n
    BY <1>4
  <2>3. MeasuredTo(f, n + 1)'
    BY <1>8, <1>11, <1>14, <1>15, <2>1, <2>2 DEF MeasuredTo
  <2> QED BY <1>3, <2>3 DEF Measured
<1> QED BY <1>1, <1>3, <1>7, <1>16, ReportWaits DEF ReportInv

\* Leaving a node measures nothing.
LEMMA ReportFlowLeaves ==
  ASSUME MetricsInv, ReportInv, FlowLeave
  PROVE  ReportInv'
<1>1. PICK f, o, n, p : f = open /\ o = flowOpen /\ n = flowNext /\ p = Parent(o)
  OBVIOUS
<1>2. /\ pc = "flow" /\ pc' = pc /\ source' = source /\ violations' = violations
      /\ next' = next /\ open' = open /\ ~ HasChild(n, o) /\ flowOpen' = p /\ flowNext' = n
      /\ complexity' = complexity /\ maximumNesting' = maximumNesting
  BY <1>1 DEF FlowLeave, analyzer
<1>3. IsForest /\ n \in Nat /\ o \in Nodes /\ o < n
  <2>1. IsForest /\ o \in Nodes
    BY <1>1, <1>2, Forest DEF MetricsInv, FlowIsInside
  <2>2. Len(source) \in Nat /\ n \in 1 .. Len(source) + 1 /\ o \in 0 .. n - 1
    BY <1>1, NodesAreNumbers DEF MetricsInv, TypeOK
  <2> QED BY <2>1, <2>2
<1>4. IsNested /\ IsPlace(n, o) /\ f < n /\ MeasuredTo(f, n)
  BY <1>1, <1>2 DEF ReportInv, PlacesKept, Measured
<1>5. IsPlace(n, p)'
  BY <1>1, <1>2, <1>3, <1>4, PlaceAround, SamePlace
<1>6. PlacesKept'
  BY <1>1, <1>2, <1>4, <1>5, ReportWaits DEF PlacesKept
<1>7. MeasuredTo(f, n)'
  <2>1. /\ DecisionsIn(f)' = DecisionsIn(f) /\ Descendants(f)' = Descendants(f)
        /\ \A i : Depth(f, i)' = Depth(f, i)
    BY <1>2, SameTree
  <2> QED BY <1>2, <1>4, <2>1 DEF MeasuredTo
<1>8. Measured'
  BY <1>1, <1>2, <1>7 DEF Measured
<1> QED BY <1>2, <1>6, <1>8, ReportWaits DEF ReportInv

\* When nothing of a function is left, its counters are the measures of it.
LEMMA ReportFlowEnds ==
  ASSUME MetricsInv, ReportInv, FlowEnd
  PROVE  ReportInv'
<1>1. PICK f, n, m : f = open /\ n = flowNext /\ m = maximumNesting
  OBVIOUS
<1>2. /\ pc = "flow" /\ pc' = "visit" /\ source' = source /\ ~ HasChild(n, f)
      /\ flowOpen = f /\ next' = next /\ open' = open
      /\ violations' = violations \o CheckFlow(f)
  BY <1>1 DEF FlowEnd, analyzer
<1>3. /\ IsForest /\ n \in Nat /\ f \in Nodes /\ f \in Nat /\ f # 0
      /\ Nodes = 1 .. Len(source) /\ Len(source) \in Nat
      /\ n - 1 \in 0 .. Len(source) /\ m \in Nat
  <2>1. IsForest /\ f \in Nodes
    BY <1>1, <1>2, Forest DEF MetricsInv, FlowIsInside
  <2>2. Len(source) \in Nat /\ n \in 1 .. Len(source) + 1 /\ m \in Nat
    BY <1>1, NodesAreNumbers DEF MetricsInv, TypeOK
  <2> QED BY <2>1, <2>2, ParentIsBefore DEF IsForest, Nodes
<1>4. /\ IsNested /\ IsPlace(n, f) /\ f < n /\ MeasuredTo(f, n) /\ IsPlace(next, open)
      /\ next = f + 1 /\ Kind(f) = "fn" /\ Lists(violations, FoundBefore(f) \cup OfSignature(f))
  BY <1>1, <1>2 DEF ReportInv, PlacesKept, Measured, ReportedSoFar
<1>5. \A i \in Nodes : i >= n => f \notin Ancestors(i)
  BY <1>2, <1>3, <1>4, NothingLeft
<1>6. ComplexityOf(f) = complexity
  <2>1. \A k \in Nodes : n - 1 < k /\ k =< Len(source) => f \notin Ancestors(k)
    BY <1>3, <1>5
  <2>2. Len(source) \in 0 .. Len(source) /\ n - 1 =< Len(source)
    BY <1>3
  <2>3. DecisionsIn(f)[Len(source)] = DecisionsIn(f)[n - 1]
    BY <1>3, <2>1, <2>2, DecisionsOutside
  <2> QED BY <1>4, <2>3 DEF MeasuredTo, ComplexityOf
<1>7. NestingOf(f) = m
  <2> DEFINE D == {0} \cup {Depth(f, i) : i \in Descendants(f)}
  <2>1. \A i \in Descendants(f) : i < n /\ i \in Nodes /\ Depth(f, i) \in Nat
    BY <1>3, <1>5, ParentIsBefore, AroundIsFinite DEF Descendants
  <2>2. m \in D
    <3>1. m = 0 \/ \E i \in Descendants(f) : Depth(f, i) = m
      BY <1>1, <1>4 DEF MeasuredTo
    <3> QED BY <3>1
  <2>3. \A d \in D : d \in Nat /\ d =< m
    <3>1. \A i \in Descendants(f) : Depth(f, i) =< m
      BY <1>1, <1>4, <2>1 DEF MeasuredTo
    <3> QED BY <1>3, <2>1, <3>1
  <2> HIDE DEF D
  <2>4. Max(D) = m
    <3>1. \A d \in D : m >= d
      BY <1>3, <2>3
    <3>2. PICK x : x = Max(D)
      OBVIOUS
    <3>3. x \in D /\ \A d \in D : x >= d
      BY <2>2, <3>1, <3>2 DEF Max
    <3> QED BY <1>3, <2>2, <2>3, <3>2, <3>3
  <2> QED BY <2>4 DEF NestingOf, D
<1>8. Lists(CheckFlow(f), OfFlow(f))
  BY <1>1, <1>6, <1>7, CheckedValues DEF CheckFlow, OfFlow
<1>9. Lists(violations \o CheckFlow(f), FoundBefore(f + 1))
  <2>1. (FoundBefore(f) \cup OfSignature(f)) \cap OfFlow(f) = {}
    <3>1. OfSignature(f) \cap OfFlow(f) = {} /\ FoundBefore(f) \cap Expected(f) = {}
      BY <1>3, FoundUpTo, FindingsHaveLines
    <3> QED BY <1>4, <3>1, FindingsHaveLines
  <2>2. FoundBefore(f + 1) = (FoundBefore(f) \cup OfSignature(f)) \cup OfFlow(f)
    BY <1>3, <1>4, FoundUpTo, FindingsHaveLines
  <2> QED BY <1>4, <1>8, <2>1, <2>2, ListsOfConcat
<1>10. Lists(violations, FoundBefore(next))'
  <2>1. FoundBefore(f + 1)' = FoundBefore(f + 1)
    BY <1>2, SameFindings
  <2> QED BY <1>2, <1>4, <1>9, <2>1 DEF Lists
<1>11. IsNested' /\ IsPlace(next, open)'
  <2>1. PICK k : k = next
    OBVIOUS
  <2>2. IsNested' /\ IsPlace(k, f)'
    BY <1>1, <1>2, <1>4, <2>1, SamePlace
  <2> QED BY <1>1, <1>2, <2>1, <2>2
<1> QED BY <1>2, <1>10, <1>11 DEF ReportInv, PlacesKept, Measured, ReportedSoFar

\* Nor does a step that changes nothing change a report.
LEMMA ReportStays ==
  ASSUME ReportInv, UNCHANGED vars
  PROVE  ReportInv'
<1>1. PICK n, o, k, i : n = next /\ o = open /\ k = flowNext /\ i = flowOpen
  OBVIOUS
<1>2. /\ pc' = pc /\ source' = source /\ next' = n /\ open' = o
      /\ flowNext' = k /\ flowOpen' = i /\ complexity' = complexity
      /\ maximumNesting' = maximumNesting /\ violations' = violations
  BY <1>1 DEF vars, analyzer, walk, counters
<1>3. PlacesKept'
  BY <1>1, <1>2, SamePlace, SameTree DEF ReportInv, PlacesKept
<1>4. MeasuredTo(o, k)' = MeasuredTo(o, k)
  BY <1>2, SameTree DEF MeasuredTo
<1>5. Measured'
  BY <1>1, <1>2, <1>4 DEF ReportInv, Measured
<1>6. ReportedSoFar'
  BY <1>1, <1>2, SameFindings DEF ReportInv, ReportedSoFar, Lists
<1> QED BY <1>3, <1>5, <1>6 DEF ReportInv

\* So it holds all the way.
LEMMA ReportInvHolds == Spec => []ReportInv
<1>1. Init => ReportInv
  <2> SUFFICES ASSUME Init
               PROVE  ReportInv
    OBVIOUS
  <2>1. pc = "write" /\ next = 1 /\ open = 0 /\ violations = <<>> /\ Nodes = {}
    BY EmptySeq DEF Init, Nodes
  <2>2. IsNested /\ IsPlace(next, open)
    BY <2>1 DEF IsNested, IsPlace
  <2> QED BY <2>1, <2>2, NothingFound DEF ReportInv, PlacesKept, Measured, ReportedSoFar
<1>2. MetricsInv /\ MetricsInv' /\ ReportInv /\ [Next]_vars => ReportInv'
  BY ReportStarts, ReportVisits, ReportReturns, ReportVisitsFunction, ReportFlowEnters,
     ReportFlowLeaves, ReportFlowEnds, ReportStays DEF Next, Visitors
<1> QED BY <1>1, <1>2, MetricsInvHolds, PTL DEF Spec

\* The report of a file of any size, with functions in functions to any depth and under
\* any limits, is what the limits say of its tree, each finding once.
THEOREM ReportsAreExact == Spec => []ReportIsExact
<1>1. ASSUME MetricsInv, ReportInv
      PROVE  ReportIsExact
  <2> SUFFICES ASSUME pc = "done"
               PROVE  /\ Range(violations) = UNION {Expected(i) : i \in Nodes}
                      /\ IsInjective(violations)
    BY DEF ReportIsExact
  <2>1. next = Len(source) + 1 /\ Lists(violations, FoundBefore(next))
    BY <1>1 DEF ReportInv, PlacesKept, ReportedSoFar
  <2>2. 1 .. next - 1 = Nodes
    <3>1. Nodes = 1 .. Len(source) /\ Len(source) \in Nat
      BY <1>1, NodesAreNumbers DEF MetricsInv
    <3> QED BY <2>1, <3>1
  <2>3. FoundBefore(next) = UNION {Expected(i) : i \in Nodes}
    BY <2>2 DEF FoundBefore
  <2> QED BY <2>1, <2>3 DEF Lists
<1> QED BY <1>1, MetricsInvHolds, ReportInvHolds, PTL
=============================================================================
