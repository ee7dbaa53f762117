------------------------- MODULE PracticePageProofs -------------------------
(***************************************************************************)
(* Theorems about PracticePage and the editor in it, for every value of    *)
(* the constants.                                                          *)
(*                                                                         *)
(* The editor keeps only sketches: drawings whose edges have their ends    *)
(* and, when the editor was mounted on a canvas numbered without a gap,    *)
(* whose ids are used once and lie below the counter.  So a save sends     *)
(* exactly the screen, and what the page knows of its versions and of its  *)
(* flag follows from what each answer stands for.                          *)
(***************************************************************************)
EXTENDS PracticePage, ArrangeProofs

Node == [id : NodeIds, look : Looks]

\* No edge of es lacks an end.
Attached(ns, es) ==
    \A e \in 1 .. Len(es) : \E m, n \in 1 .. Len(ns) :
        ns[m].id = es[e].source /\ ns[n].id = es[e].target

\* No id is used twice, and none is as high as counter.
Counted(ns, counter) ==
    /\ \A i, j \in 1 .. Len(ns) : ns[i].id = ns[j].id => i = j
    /\ \A i \in 1 .. Len(ns) : ns[i].id < counter

\* What may be on the screen or in the history of an editor: gapless tells
\* whether it was mounted on a canvas that is numbered without a gap.
Sketches(gapless, counter) ==
    {c \in Drawing : Attached(c.nodes, c.edges) /\ (gapless => Counted(c.nodes, counter))}

HistoryInv ==
    /\ past \in Seq(Sketches(numbered, nodeIdCounter))
    /\ future \in Seq(Sketches(numbered, nodeIdCounter))
    /\ Len(past) + Len(future) <= MaxHistory

EditorInv ==
    /\ nodes \in Seq(Node) /\ edges \in Seq(CanvasEdge)
    /\ Attached(nodes, edges)
    /\ numbered => Counted(nodes, nodeIdCounter)
    /\ nodeIdCounter \in Nat \ {0} /\ dirty \in BOOLEAN /\ numbered \in BOOLEAN
    /\ HistoryInv

SaveRequest ==
    [at : {"unsent", "sent", "forgotten", "answered", "done"}, canvas : Drawing, expected : Nat,
     outcome : {"none", "invalid", "conflict", "saved"}, saved : Nat]

ServerInv ==
    /\ stored \in [version : Nat \ {0}, nodes : Seq(Node), edges : Seq(CanvasEdge)]
    /\ Attached(stored.nodes, stored.edges)
    /\ version \in Nat /\ version <= stored.version
    /\ save \in [Saves -> SaveRequest]
    /\ version = stored.version => mine = CanvasOf(stored)
    /\ \A s \in Saves : save[s].at = "answered" /\ save[s].outcome = "saved" =>
          /\ save[s].saved <= stored.version
          /\ save[s].saved = stored.version => save[s].canvas = CanvasOf(stored)
-----------------------------------------------------------------------------
\* A counter that has moved on takes nothing from what was drawn.
LEMMA SketchesGrow ==
    ASSUME NEW gapless, NEW k \in Nat, NEW m \in Nat, k <= m
    PROVE  /\ Sketches(gapless, k) \subseteq Sketches(gapless, m)
           /\ Seq(Sketches(gapless, k)) \subseteq Seq(Sketches(gapless, m))
<1>1. ASSUME NEW ns \in Seq(Node), Counted(ns, k) PROVE Counted(ns, m)
  <2>1. ASSUME NEW i \in 1 .. Len(ns) PROVE ns[i].id \in Nat
    <3>1. ns[i] \in Node
      BY ElementOfSeq
    <3>. QED BY <3>1, LooksAssumption DEF Node
  <2>. QED BY <1>1, <2>1 DEF Counted
<1>2. \A c \in Drawing : c.nodes \in Seq(Node)
  BY DEF Drawing, Node
<1>3. Sketches(gapless, k) \subseteq Sketches(gapless, m)
  BY <1>1, <1>2 DEF Sketches
<1>4. Seq(Sketches(gapless, k)) \subseteq Seq(Sketches(gapless, m))
  BY <1>3, SeqMonotonic
<1>. QED BY <1>3, <1>4

\* The screen is a sketch.
LEMMA ScreenIsSketch == EditorInv => Screen \in Sketches(numbered, nodeIdCounter)
<1>1. EditorInv => Screen \in Drawing
  BY DEF EditorInv, Screen, Drawing, Node
<1>. QED BY <1>1 DEF EditorInv, Screen, Sketches

\* And what is shown of a sketch fits.
LEMMA SketchIsFit ==
    ASSUME NEW gapless, NEW k, NEW c \in Sketches(gapless, k)
    PROVE  /\ c.nodes \in Seq(Node) /\ c.edges \in Seq(CanvasEdge)
           /\ c = [nodes |-> c.nodes, edges |-> c.edges]
           /\ Attached(c.nodes, c.edges) /\ (gapless => Counted(c.nodes, k))
  BY DEF Sketches, Drawing, Node

\* A filter that keeps all is the identity.
LEMMA FilterAll ==
    ASSUME NEW S, NEW list \in Seq(S)
    PROVE  AtIndices(list, 1 .. Len(list)) = list
<1>. DEFINE n == Len(list)
            place == [i \in 1 .. n |-> i]
            order == InOrder(1 .. n, place)
<1>1. n \in Nat /\ list \in [1 .. n -> S]
  OBVIOUS
<1>. HIDE DEF n
<1>2. ASSUME NEW i \in 0 .. n PROVE IsFiniteSet(1 .. i) /\ Cardinality(1 .. i) = i
  <2>1. 1 \in Int /\ i \in Int
    BY <1>1
  <2>. QED BY <1>1, <2>1, FS_Interval
<1>3. place \in Placings(1 .. n)
  BY DEF Placings
<1>4. ASSUME NEW i \in 1 .. n PROVE Rank(1 .. n, place)[i] = i
  <2>1. Upto(1 .. n, place, i) = 1 .. i
    BY <1>1 DEF Upto
  <2>2. Cardinality(1 .. i) = i
    BY <1>1, <1>2
  <2>. QED BY <2>1, <2>2 DEF Rank
<1>5. IsFiniteSet(1 .. n) /\ Cardinality(1 .. n) = n
  BY <1>1, <1>2
<1>6. /\ order \in Bijection(1 .. n, 1 .. n)
      /\ \A i \in 1 .. n : Rank(1 .. n, place)[order[i]] = i
  BY <1>3, <1>5, InOrderIsRanked
<1>. HIDE DEF place
<1>7. DOMAIN order = 1 .. n /\ \A i \in 1 .. n : order[i] = i
  BY <1>4, <1>6 DEF Bijection, Injection
<1>8. AtIndices(list, 1 .. n) = [i \in DOMAIN order |-> list[order[i]]]
  BY DEF AtIndices, place
<1>. HIDE DEF order
<1>. QED BY <1>1, <1>7, <1>8 DEF n

\* What is saved is what is shown.
LEMMA SavesTheScreen ==
    nodes \in Seq(Node) /\ edges \in Seq(CanvasEdge) /\ Attached(nodes, edges) => Serialize = Screen
<1>. SUFFICES ASSUME nodes \in Seq(Node), edges \in Seq(CanvasEdge), Attached(nodes, edges)
              PROVE  Serialize = Screen
  OBVIOUS
<1>1. {i \in DOMAIN edges : edges[i].source \in Ids /\ edges[i].target \in Ids} = 1 .. Len(edges)
  BY DEF Attached, Ids
<1>. QED BY <1>1, FilterAll DEF Serialize, Screen

\* A canvas that the server takes.
LEMMA AcceptableIsAttached ==
    ASSUME NEW ns \in Seq(Node), NEW es \in Seq(CanvasEdge),
           Acceptable([nodes |-> ns, edges |-> es])
    PROVE  Attached(ns, es)
<1>. DEFINE ids == [i \in 1 .. Len(ns) |-> ns[i].id]
            sent == [nodes |-> ids, edges |-> es]
<1>1. Len(ns) \in Nat /\ Len(ids) = Len(ns)
  OBVIOUS
<1>2. EdgesReferenceRealNodes(sent)
  BY DEF Acceptable, ValidCanvas
<1>3. \A i \in 1 .. Len(ns) : ids[i] = ns[i].id
  OBVIOUS
<1>. HIDE DEF ids
<1>4. \A e \in 1 .. Len(es) : /\ es[e].source \in {ids[i] : i \in 1 .. Len(ids)}
                              /\ es[e].target \in {ids[i] : i \in 1 .. Len(ids)}
  BY <1>2 DEF EdgesReferenceRealNodes
<1>5. ASSUME NEW e \in 1 .. Len(es)
      PROVE  /\ \E m \in 1 .. Len(ns) : ns[m].id = es[e].source
             /\ \E m \in 1 .. Len(ns) : ns[m].id = es[e].target
  BY <1>1, <1>3, <1>4
<1>. QED BY <1>5 DEF Attached

\* The ids 1 .. n, used up by n nodes, are used once each.
LEMMA NumberedIsCounted ==
    ASSUME NEW c, NEW ns \in Seq(Node), c.nodes = ns, NumberedInOrder(c)
    PROVE  Counted(ns, Len(ns) + 1)
<1>. DEFINE n == Len(ns)
            f == [i \in 1 .. n |-> ns[i].id]
<1>1. n \in Nat /\ {ns[i].id : i \in 1 .. n} = 1 .. n
  BY DEF NumberedInOrder
<1>. HIDE DEF n
<1>2. f \in [1 .. n -> 1 .. n] /\ \A k \in 1 .. n : \E i \in 1 .. n : f[i] = k
  BY <1>1
<1>3. f \in Surjection(1 .. n, 1 .. n)
  BY <1>2 DEF Surjection
<1>4. IsFiniteSet(1 .. n)
  <2>1. 1 \in Int /\ n \in Int
    BY <1>1
  <2>. QED BY <2>1, FS_Interval
<1>5. f \in Injection(1 .. n, 1 .. n)
  BY <1>3, <1>4, FS_Surjection
<1>6. \A i \in 1 .. n : f[i] = ns[i].id
  OBVIOUS
<1>. HIDE DEF f
<1>7. \A i \in 1 .. n : ns[i].id \in 1 .. n
  BY <1>2, <1>6
<1>8. \A i, j \in 1 .. n : ns[i].id = ns[j].id => i = j
  BY <1>5, <1>6 DEF Injection, IsInjective
<1>. QED BY <1>1, <1>7, <1>8 DEF Counted, n

\* What fits the screen is a sketch.
LEMMA FitIsSketch ==
    ASSUME NEW ns \in Seq(Node), NEW es \in Seq(CanvasEdge), Attached(ns, es),
           NEW gapless, NEW k, gapless => Counted(ns, k)
    PROVE  [nodes |-> ns, edges |-> es] \in Sketches(gapless, k)
<1>1. [nodes |-> ns, edges |-> es] \in Drawing
  BY DEF Drawing, Node
<1>. QED BY <1>1 DEF Sketches

\* A stack never grows above its bound.
LEMMA PushKeeps ==
    ASSUME NEW G, NEW stack \in Seq(G), Len(stack) <= MaxHistory, NEW s \in G
    PROVE  Push(stack, s) \in Seq(G) /\ Len(Push(stack, s)) \in 1 .. MaxHistory
<1>1. Append(stack, s) \in Seq(G) /\ Len(Append(stack, s)) = Len(stack) + 1 /\ Len(stack) \in Nat
  BY AppendProperties, LenProperties
<1>2. CASE Len(stack) = MaxHistory
  <2>1. stack # << >>
    BY <1>2, HistoryAssumption
  <2>2. Tail(stack) \in Seq(G) /\ Len(Tail(stack)) = Len(stack) - 1
    BY <2>1, HeadTailProperties
  <2>3. Append(Tail(stack), s) \in Seq(G) /\ Len(Append(Tail(stack), s)) = Len(Tail(stack)) + 1
    BY <2>2, AppendProperties
  <2>. QED BY <1>1, <1>2, <2>2, <2>3, HistoryAssumption DEF Push
<1>3. CASE Len(stack) # MaxHistory
  BY <1>1, <1>3, HistoryAssumption DEF Push
<1>. QED BY <1>2, <1>3

\* The stacks after a gesture has committed a snapshot.
LEMMA CommitKeeps ==
    ASSUME NEW G, NEW stack \in Seq(G), Len(stack) <= MaxHistory, NEW s \in G,
           CommitHistory(stack, s)
    PROVE  /\ past' \in Seq(G) /\ future' \in Seq(G)
           /\ Len(past') + Len(future') <= MaxHistory
           /\ dirty' = TRUE
<1>1. past' = Push(stack, s) /\ future' = << >> /\ dirty' = TRUE
  BY DEF CommitHistory
<1>2. Push(stack, s) \in Seq(G) /\ Len(Push(stack, s)) \in 1 .. MaxHistory
  BY PushKeeps
<1>3. future' \in Seq(G) /\ Len(future') = 0
  BY <1>1, EmptySeq
<1>. QED BY <1>1, <1>2, <1>3, HistoryAssumption

\* One more node leaves the edges attached.
LEMMA AppendNode ==
    ASSUME NEW ns \in Seq(Node), NEW es \in Seq(CanvasEdge), NEW n \in Node, Attached(ns, es)
    PROVE  Attached(Append(ns, n), es)
<1>1. /\ Len(Append(ns, n)) = Len(ns) + 1 /\ Len(ns) \in Nat
      /\ \A i \in 1 .. Len(ns) : Append(ns, n)[i] = ns[i]
  BY AppendProperties, LenProperties
<1>. DEFINE ms == Append(ns, n)
<1>. HIDE DEF ms
<1>2. ASSUME NEW e \in 1 .. Len(es)
      PROVE  \E i, j \in 1 .. Len(ms) : ms[i].id = es[e].source /\ ms[j].id = es[e].target
  <2>1. PICK i, j \in 1 .. Len(ns) : ns[i].id = es[e].source /\ ns[j].id = es[e].target
    BY DEF Attached
  <2>2. i \in 1 .. Len(ms) /\ j \in 1 .. Len(ms) /\ ms[i] = ns[i] /\ ms[j] = ns[j]
    BY <1>1 DEF ms
  <2>. QED BY <2>1, <2>2
<1>. QED BY <1>2 DEF Attached, ms

\* The node that is given the counter moves it on.
LEMMA CountedNext ==
    ASSUME NEW ns \in Seq(Node), NEW k \in Nat, NEW n \in Node, n.id = k, Counted(ns, k)
    PROVE  Counted(Append(ns, n), k + 1)
<1>1. /\ Len(Append(ns, n)) = Len(ns) + 1 /\ Len(ns) \in Nat
      /\ \A i \in 1 .. Len(ns) : Append(ns, n)[i] = ns[i]
      /\ Append(ns, n)[Len(ns) + 1] = n
  BY AppendProperties, LenProperties
<1>. DEFINE ms == Append(ns, n)
<1>. HIDE DEF ms
<1>2. ASSUME NEW i \in 1 .. Len(ns) PROVE ns[i].id \in Nat /\ ns[i].id < k
  <2>1. ns[i] \in Node
    BY ElementOfSeq
  <2>. QED BY <2>1, LooksAssumption DEF Node, Counted
<1>3. \A i \in 1 .. Len(ms) : \/ i \in 1 .. Len(ns) /\ ms[i] = ns[i]
                              \/ i = Len(ns) + 1 /\ ms[i] = n
  BY <1>1 DEF ms
<1>4. \A i \in 1 .. Len(ms) : ms[i].id < k + 1
  BY <1>2, <1>3
<1>5. \A i, j \in 1 .. Len(ms) : ms[i].id = ms[j].id => i = j
  BY <1>2, <1>3 DEF Counted
<1>. QED BY <1>4, <1>5 DEF Counted, ms

\* An edge between nodes that are there is attached.
LEMMA AppendEdge ==
    ASSUME NEW ns \in Seq(Node), NEW es \in Seq(CanvasEdge), Attached(ns, es), NEW e \in CanvasEdge,
           \E i, j \in 1 .. Len(ns) : ns[i].id = e.source /\ ns[j].id = e.target
    PROVE  Attached(ns, Append(es, e))
<1>1. /\ Len(Append(es, e)) = Len(es) + 1 /\ Len(es) \in Nat
      /\ \A i \in 1 .. Len(es) : Append(es, e)[i] = es[i]
      /\ Append(es, e)[Len(es) + 1] = e
  BY AppendProperties, LenProperties
<1>. DEFINE ds == Append(es, e)
<1>. HIDE DEF ds
<1>2. ASSUME NEW d \in 1 .. Len(ds)
      PROVE  \E i, j \in 1 .. Len(ns) : ns[i].id = ds[d].source /\ ns[j].id = ds[d].target
  <2>1. \/ d \in 1 .. Len(es) /\ ds[d] = es[d]
        \/ ds[d] = e
    BY <1>1 DEF ds
  <2>2. CASE d \in 1 .. Len(es) /\ ds[d] = es[d]
    BY <2>2 DEF Attached
  <2>. QED BY <2>1, <2>2
<1>. QED BY <1>2 DEF Attached, ds

\* What a filter leaves.
LEMMA SomeEdges ==
    ASSUME NEW ns \in Seq(Node), NEW es \in Seq(CanvasEdge), Attached(ns, es),
           NEW indices \in SUBSET (1 .. Len(es))
    PROVE  Attached(ns, AtIndices(es, indices)) /\ AtIndices(es, indices) \in Seq(CanvasEdge)
<1>. DEFINE ds == AtIndices(es, indices)
            n == Cardinality(indices)
<1>1. /\ n \in 0 .. Len(es)
      /\ ds \in Seq(CanvasEdge) /\ Len(ds) = n
      /\ \E order \in Bijection(1 .. n, indices) : \A i \in 1 .. n : ds[i] = es[order[i]]
  BY FilterKeeps
<1>. HIDE DEF ds, n
<1>2. PICK order \in Bijection(1 .. n, indices) : \A i \in 1 .. n : ds[i] = es[order[i]]
  BY <1>1
<1>3. \A i \in 1 .. n : order[i] \in 1 .. Len(es)
  BY <1>2 DEF Bijection, Injection
<1>4. ASSUME NEW d \in 1 .. Len(ds)
      PROVE  \E i, j \in 1 .. Len(ns) : ns[i].id = ds[d].source /\ ns[j].id = ds[d].target
  <2>1. ds[d] = es[order[d]] /\ order[d] \in 1 .. Len(es)
    BY <1>1, <1>2, <1>3
  <2>. QED BY <2>1 DEF Attached
<1>. QED BY <1>1, <1>4 DEF Attached, ds

\* Ids stay distinct when nodes are left out.
LEMMA SomeNodes ==
    ASSUME NEW ns \in Seq(Node), NEW k, Counted(ns, k),
           NEW indices \in SUBSET (1 .. Len(ns))
    PROVE  Counted(AtIndices(ns, indices), k)
<1>. DEFINE ms == AtIndices(ns, indices)
            n == Cardinality(indices)
<1>1. /\ n \in 0 .. Len(ns)
      /\ ms \in Seq(Node) /\ Len(ms) = n
      /\ \E order \in Bijection(1 .. n, indices) : \A i \in 1 .. n : ms[i] = ns[order[i]]
  BY FilterKeeps
<1>. HIDE DEF ms, n
<1>2. PICK order \in Bijection(1 .. n, indices) : \A i \in 1 .. n : ms[i] = ns[order[i]]
  BY <1>1
<1>3. /\ \A i \in 1 .. n : order[i] \in 1 .. Len(ns)
      /\ \A i, j \in 1 .. n : order[i] = order[j] => i = j
  BY <1>2 DEF Bijection, Injection, IsInjective
<1>4. \A i \in 1 .. Len(ms) : ms[i].id < k
  BY <1>1, <1>2, <1>3 DEF Counted
<1>5. \A i, j \in 1 .. Len(ms) : ms[i].id = ms[j].id => i = j
  <2>. SUFFICES ASSUME NEW i \in 1 .. n, NEW j \in 1 .. n, ns[order[i]].id = ns[order[j]].id
                PROVE  i = j
    BY <1>1, <1>2
  <2>1. order[i] = order[j]
    BY <1>3 DEF Counted
  <2>. QED BY <1>3, <2>1
<1>. QED BY <1>4, <1>5 DEF Counted, ms

\* The elements of a filtered list are those at the indices.
LEMMA FilterElements ==
    ASSUME NEW S, NEW list \in Seq(S), NEW indices \in SUBSET (1 .. Len(list))
    PROVE  /\ AtIndices(list, indices) \in Seq(S)
           /\ \A m \in 1 .. Len(AtIndices(list, indices)) :
                 \E i \in indices : AtIndices(list, indices)[m] = list[i]
           /\ \A i \in indices :
                 \E m \in 1 .. Len(AtIndices(list, indices)) : AtIndices(list, indices)[m] = list[i]
<1>. DEFINE kept == AtIndices(list, indices)
            n == Cardinality(indices)
<1>1. /\ kept \in Seq(S) /\ Len(kept) = n
      /\ \E order \in Bijection(1 .. n, indices) : \A m \in 1 .. n : kept[m] = list[order[m]]
  BY FilterKeeps
<1>. HIDE DEF kept, n
<1>2. PICK order \in Bijection(1 .. n, indices) : \A m \in 1 .. n : kept[m] = list[order[m]]
  BY <1>1
<1>3. /\ \A m \in 1 .. n : order[m] \in indices
      /\ \A i \in indices : \E m \in 1 .. n : order[m] = i
  BY DEF Bijection, Injection, Surjection
<1>4. ASSUME NEW m \in 1 .. Len(kept) PROVE \E i \in indices : kept[m] = list[i]
  BY <1>1, <1>2, <1>3
<1>5. ASSUME NEW i \in indices PROVE \E m \in 1 .. Len(kept) : kept[m] = list[i]
  <2>1. PICK m \in 1 .. n : order[m] = i
    BY <1>3
  <2>2. m \in 1 .. Len(kept) /\ kept[m] = list[i]
    BY <1>1, <1>2, <2>1
  <2>. QED BY <2>2
<1>. QED BY <1>1, <1>4, <1>5 DEF kept

\* A node is deleted with the edges that end at it.
LEMMA OthersAttached ==
    ASSUME NEW ns \in Seq(Node), NEW es \in Seq(CanvasEdge), Attached(ns, es), NEW x,
           NEW stay \in SUBSET (1 .. Len(ns)),
           \A i \in 1 .. Len(ns) : ns[i].id # x => i \in stay,
           NEW apart \in SUBSET (1 .. Len(es)),
           \A e \in apart : es[e].source # x /\ es[e].target # x
    PROVE  Attached(AtIndices(ns, stay), AtIndices(es, apart))
<1>. DEFINE ms == AtIndices(ns, stay)
            ds == AtIndices(es, apart)
<1>1. \A i \in stay : \E m \in 1 .. Len(ms) : ms[m] = ns[i]
  BY FilterElements
<1>2. \A d \in 1 .. Len(ds) : \E e \in apart : ds[d] = es[e]
  BY FilterElements
<1>. HIDE DEF ms, ds
<1>3. ASSUME NEW d \in 1 .. Len(ds)
      PROVE  \E i, j \in 1 .. Len(ms) : ms[i].id = ds[d].source /\ ms[j].id = ds[d].target
  <2>1. PICK e \in apart : ds[d] = es[e]
    BY <1>2
  <2>2. PICK i, j \in 1 .. Len(ns) : ns[i].id = es[e].source /\ ns[j].id = es[e].target
    BY DEF Attached
  <2>3. i \in stay /\ j \in stay
    BY <2>1, <2>2
  <2>. QED BY <1>1, <2>1, <2>2, <2>3
<1>. QED BY <1>3 DEF Attached, ms, ds

\* Nodes that only look otherwise.
LEMMA SameIds ==
    ASSUME NEW ns \in Seq(Node), NEW ms \in Seq(Node), Len(ms) = Len(ns),
           \A i \in 1 .. Len(ns) : ms[i].id = ns[i].id,
           NEW es \in Seq(CanvasEdge), NEW k, NEW gapless, Attached(ns, es), gapless => Counted(ns, k)
    PROVE  Attached(ms, es) /\ (gapless => Counted(ms, k))
<1>1. Attached(ms, es)
  <2>. SUFFICES ASSUME NEW e \in 1 .. Len(es)
                PROVE  \E i, j \in 1 .. Len(ms) : ms[i].id = es[e].source /\ ms[j].id = es[e].target
    BY DEF Attached
  <2>1. PICK i, j \in 1 .. Len(ns) : ns[i].id = es[e].source /\ ns[j].id = es[e].target
    BY DEF Attached
  <2>. QED BY <2>1
<1>2. ASSUME Counted(ns, k) PROVE Counted(ms, k)
  BY <1>2 DEF Counted
<1>. QED BY <1>1, <1>2

\* What one gesture leaves, when it commits the sketch s, once or after a
\* push of the screen, and shows ns and es.
LEMMA EditorAfter ==
    ASSUME EditorInv, UNCHANGED numbered,
           nodeIdCounter' \in Nat \ {0}, nodeIdCounter <= nodeIdCounter',
           nodes' \in Seq(Node), edges' \in Seq(CanvasEdge), Attached(nodes', edges'),
           numbered => Counted(nodes', nodeIdCounter'),
           NEW s \in Sketches(numbered, nodeIdCounter'),
           \/ CommitHistory(past, s)
           \/ CommitHistory(Push(past, Screen), s)
    PROVE  EditorInv' /\ dirty' = TRUE
<1>. DEFINE G == Sketches(numbered, nodeIdCounter')
<1>1. /\ past \in Seq(Sketches(numbered, nodeIdCounter)) /\ Len(past) <= MaxHistory
      /\ nodeIdCounter \in Nat /\ nodeIdCounter' \in Nat /\ numbered \in BOOLEAN
  <2>1. Len(past) \in Nat /\ Len(future) \in Nat
    BY LenProperties DEF EditorInv, HistoryInv
  <2>. QED BY <2>1, HistoryAssumption DEF EditorInv, HistoryInv
<1>2. past \in Seq(G) /\ Screen \in G
  BY <1>1, SketchesGrow, ScreenIsSketch
<1>. HIDE DEF G
<1>3. Push(past, Screen) \in Seq(G) /\ Len(Push(past, Screen)) <= MaxHistory
  BY <1>1, <1>2, PushKeeps, HistoryAssumption
<1>4. /\ past' \in Seq(G) /\ future' \in Seq(G)
      /\ Len(past') + Len(future') <= MaxHistory
      /\ dirty' = TRUE
  <2>1. s \in G
    BY DEF G
  <2>2. CASE CommitHistory(past, s)
    BY <1>1, <1>2, <2>1, <2>2, CommitKeeps
  <2>3. CASE CommitHistory(Push(past, Screen), s)
    BY <1>3, <2>1, <2>3, CommitKeeps
  <2>. QED BY <2>2, <2>3
<1>5. HistoryInv'
  BY <1>4 DEF HistoryInv, G
<1>. QED BY <1>1, <1>4, <1>5 DEF EditorInv

\* The screen, committed by a gesture that shows something else.
LEMMA CommitsTheScreen ==
    ASSUME EditorInv, nodeIdCounter' \in Nat, nodeIdCounter <= nodeIdCounter'
    PROVE  Screen \in Sketches(numbered, nodeIdCounter')
<1>1. nodeIdCounter \in Nat
  BY DEF EditorInv
<1>. QED BY <1>1, ScreenIsSketch, SketchesGrow

\* The gestures, one by one.
LEMMA AddComponentKeeps ==
    ASSUME EditorInv, UNCHANGED numbered, NEW l \in Looks, AddComponent(l)
    PROVE  EditorInv' /\ dirty' = TRUE
<1>. DEFINE n == [id |-> nodeIdCounter, look |-> l]
<1>1. /\ n \in Node /\ n.id = nodeIdCounter /\ nodeIdCounter \in Nat /\ nodeIdCounter' = nodeIdCounter + 1
      /\ nodes' = Append(nodes, n) /\ edges' = edges /\ CommitHistory(past, Screen)
      /\ nodes \in Seq(Node) /\ edges \in Seq(CanvasEdge) /\ Attached(nodes, edges)
  BY DEF AddComponent, Node, EditorInv
<1>. HIDE DEF n
<1>2. Append(nodes, n) \in Seq(Node) /\ Attached(Append(nodes, n), edges)
  BY <1>1, AppendNode, AppendProperties
<1>3. numbered => Counted(Append(nodes, n), nodeIdCounter + 1)
  BY <1>1, CountedNext DEF EditorInv
<1>4. Screen \in Sketches(numbered, nodeIdCounter')
  BY <1>1, CommitsTheScreen
<1>9. /\ nodeIdCounter' \in Nat \ {0} /\ nodeIdCounter <= nodeIdCounter'
      /\ nodes' \in Seq(Node) /\ edges' \in Seq(CanvasEdge) /\ Attached(nodes', edges')
      /\ (numbered => Counted(nodes', nodeIdCounter'))
  BY <1>1, <1>2, <1>3
<1>. QED BY <1>1, <1>9, <1>4, EditorAfter

\* A new line ends at nodes of the screen.
LEMMA ConnectKeeps ==
    ASSUME EditorInv, UNCHANGED numbered, NEW x \in Ids, NEW y \in Ids, Connect(x, y)
    PROVE  EditorInv' /\ dirty' = TRUE
<1>. DEFINE e == [source |-> x, target |-> y]
<1>1. /\ nodeIdCounter \in Nat \ {0} /\ nodeIdCounter' = nodeIdCounter
      /\ nodes' = nodes /\ edges' \in WithEdge(e) /\ CommitHistory(past, Screen)
      /\ nodes \in Seq(Node) /\ edges \in Seq(CanvasEdge) /\ Attached(nodes, edges)
      /\ (numbered => Counted(nodes, nodeIdCounter))
  BY DEF Connect, EditorInv
<1>2. PICK i, j \in 1 .. Len(nodes) : nodes[i].id = x /\ nodes[j].id = y
  BY DEF Ids
<1>3. nodes[i] \in Node /\ nodes[j] \in Node
  BY <1>1, ElementOfSeq
<1>4. e \in CanvasEdge /\ e.source = x /\ e.target = y
  BY <1>2, <1>3 DEF Node, CanvasEdge
<1>. HIDE DEF e
<1>5. Append(edges, e) \in Seq(CanvasEdge) /\ Attached(nodes, Append(edges, e))
  BY <1>1, <1>2, <1>4, AppendEdge, AppendProperties
<1>6. edges' \in Seq(CanvasEdge) /\ Attached(nodes', edges')
  BY <1>1, <1>5 DEF WithEdge
<1>7. Screen \in Sketches(numbered, nodeIdCounter')
  BY <1>1, CommitsTheScreen
<1>9. /\ nodeIdCounter' \in Nat \ {0} /\ nodeIdCounter <= nodeIdCounter'
      /\ nodes' \in Seq(Node) /\ edges' \in Seq(CanvasEdge) /\ Attached(nodes', edges')
      /\ (numbered => Counted(nodes', nodeIdCounter'))
  BY <1>1, <1>6
<1>. QED BY <1>1, <1>9, <1>7, EditorAfter

\* A node goes with its edges.
LEMMA DeleteNodeKeeps ==
    ASSUME EditorInv, UNCHANGED numbered, NEW x \in Ids, DeleteNode(x)
    PROVE  EditorInv' /\ dirty' = TRUE
<1>. DEFINE stay == OtherNodes(x)
            apart == DOMAIN edges \ Incident(x)
<1>1. /\ nodeIdCounter \in Nat \ {0} /\ nodeIdCounter' = nodeIdCounter
      /\ nodes' = AtIndices(nodes, stay) /\ edges' = AtIndices(edges, apart)
      /\ CommitHistory(past, Screen) \/ CommitHistory(Push(past, Screen), Screen)
      /\ nodes \in Seq(Node) /\ edges \in Seq(CanvasEdge) /\ Attached(nodes, edges)
      /\ (numbered => Counted(nodes, nodeIdCounter))
  BY DEF DeleteNode, EditorInv
<1>2. /\ stay \in SUBSET (1 .. Len(nodes)) /\ apart \in SUBSET (1 .. Len(edges))
      /\ \A i \in 1 .. Len(nodes) : nodes[i].id # x => i \in stay
      /\ \A e \in apart : edges[e].source # x /\ edges[e].target # x
  BY <1>1 DEF OtherNodes, Incident
<1>. HIDE DEF stay, apart
<1>3. nodes' \in Seq(Node) /\ edges' \in Seq(CanvasEdge)
  BY <1>1, <1>2, FilterElements
<1>4. Attached(nodes', edges')
  BY <1>1, <1>2, OthersAttached
<1>5. numbered => Counted(nodes', nodeIdCounter')
  BY <1>1, <1>2, SomeNodes
<1>6. Screen \in Sketches(numbered, nodeIdCounter')
  BY <1>1, CommitsTheScreen
<1>9. /\ nodeIdCounter' \in Nat \ {0} /\ nodeIdCounter <= nodeIdCounter'
      /\ nodes' \in Seq(Node) /\ edges' \in Seq(CanvasEdge) /\ Attached(nodes', edges')
      /\ (numbered => Counted(nodes', nodeIdCounter'))
  BY <1>1, <1>3, <1>4, <1>5
<1>. QED BY <1>1, <1>9, <1>6, EditorAfter

\* An edge goes alone.
LEMMA DeleteEdgeKeeps ==
    ASSUME EditorInv, UNCHANGED numbered, NEW e \in DOMAIN edges, DeleteEdge(e)
    PROVE  EditorInv' /\ dirty' = TRUE
<1>. DEFINE apart == DOMAIN edges \ {e}
<1>1. /\ nodeIdCounter \in Nat \ {0} /\ nodeIdCounter' = nodeIdCounter
      /\ nodes' = nodes /\ edges' = AtIndices(edges, apart) /\ CommitHistory(past, Screen)
      /\ nodes \in Seq(Node) /\ edges \in Seq(CanvasEdge) /\ Attached(nodes, edges)
      /\ (numbered => Counted(nodes, nodeIdCounter))
  BY DEF DeleteEdge, EditorInv
<1>2. apart \in SUBSET (1 .. Len(edges))
  BY <1>1
<1>. HIDE DEF apart
<1>3. edges' \in Seq(CanvasEdge) /\ Attached(nodes', edges')
  BY <1>1, <1>2, SomeEdges
<1>4. Screen \in Sketches(numbered, nodeIdCounter')
  BY <1>1, CommitsTheScreen
<1>9. /\ nodeIdCounter' \in Nat \ {0} /\ nodeIdCounter <= nodeIdCounter'
      /\ nodes' \in Seq(Node) /\ edges' \in Seq(CanvasEdge) /\ Attached(nodes', edges')
      /\ (numbered => Counted(nodes', nodeIdCounter'))
  BY <1>1, <1>3
<1>. QED BY <1>1, <1>9, <1>4, EditorAfter

\* A node that is given another look keeps its id.
LEMMA RestyledFits ==
    ASSUME nodes \in Seq(Node), NEW x, NEW l \in Looks
    PROVE  /\ Restyled(x, l) \in Seq(Node) /\ Len(Restyled(x, l)) = Len(nodes)
           /\ \A i \in 1 .. Len(nodes) : Restyled(x, l)[i].id = nodes[i].id
<1>1. Len(nodes) \in Nat
  BY LenProperties
<1>2. ASSUME NEW i \in 1 .. Len(nodes)
      PROVE  /\ Restyled(x, l)[i] \in Node
             /\ Restyled(x, l)[i].id = nodes[i].id
  <2>1. nodes[i] \in Node
    BY ElementOfSeq
  <2>2. [nodes[i] EXCEPT !.look = l] \in Node /\ [nodes[i] EXCEPT !.look = l].id = nodes[i].id
    BY <2>1 DEF Node
  <2>. QED BY <2>1, <2>2 DEF Restyled
<1>3. DOMAIN Restyled(x, l) = 1 .. Len(nodes)
  BY DEF Restyled
<1>4. Restyled(x, l) \in [1 .. Len(nodes) -> Node]
  <2>1. Restyled(x, l) = [i \in 1 .. Len(nodes) |-> Restyled(x, l)[i]]
    BY DEF Restyled
  <2>. QED BY <1>2, <2>1
<1>5. Restyled(x, l) \in Seq(Node) /\ Len(Restyled(x, l)) = Len(nodes)
  BY <1>1, <1>4
<1>. QED BY <1>2, <1>5

\* A drag commits the canvas that it leaves.
LEMMA DragNodeKeeps ==
    ASSUME EditorInv, UNCHANGED numbered, NEW x, NEW l \in Looks, DragNode(x, l)
    PROVE  EditorInv' /\ dirty' = TRUE
<1>. DEFINE ns == Restyled(x, l)
<1>1. /\ nodeIdCounter \in Nat \ {0} /\ nodeIdCounter' = nodeIdCounter
      /\ nodes' = ns /\ edges' = edges /\ CommitHistory(past, [nodes |-> ns, edges |-> edges])
      /\ nodes \in Seq(Node) /\ edges \in Seq(CanvasEdge) /\ Attached(nodes, edges)
      /\ (numbered => Counted(nodes, nodeIdCounter))
  BY DEF DragNode, EditorInv
<1>2. /\ ns \in Seq(Node) /\ Len(ns) = Len(nodes)
      /\ \A i \in 1 .. Len(nodes) : ns[i].id = nodes[i].id
  BY <1>1, RestyledFits
<1>. HIDE DEF ns
<1>3. Attached(ns, edges) /\ (numbered => Counted(ns, nodeIdCounter))
  BY <1>1, <1>2, SameIds
<1>4. [nodes |-> ns, edges |-> edges] \in Sketches(numbered, nodeIdCounter')
  BY <1>1, <1>2, <1>3, FitIsSketch
<1>9. /\ nodeIdCounter' \in Nat \ {0} /\ nodeIdCounter <= nodeIdCounter'
      /\ nodes' \in Seq(Node) /\ edges' \in Seq(CanvasEdge) /\ Attached(nodes', edges')
      /\ (numbered => Counted(nodes', nodeIdCounter'))
  BY <1>1, <1>2, <1>3
<1>. QED BY <1>1, <1>9, <1>4, EditorAfter

\* A label changes without a commit.
LEMMA RenameNodeKeeps ==
    ASSUME EditorInv, UNCHANGED numbered, NEW x, NEW l \in Looks, RenameNode(x, l)
    PROVE  EditorInv' /\ dirty' = TRUE
<1>. DEFINE ns == Restyled(x, l)
<1>1. /\ nodes' = ns /\ dirty' = TRUE /\ UNCHANGED <<edges, past, future, nodeIdCounter>>
      /\ nodes \in Seq(Node) /\ edges \in Seq(CanvasEdge) /\ Attached(nodes, edges)
      /\ (numbered => Counted(nodes, nodeIdCounter))
  BY DEF RenameNode, EditorInv
<1>2. /\ ns \in Seq(Node) /\ Len(ns) = Len(nodes)
      /\ \A i \in 1 .. Len(nodes) : ns[i].id = nodes[i].id
  BY <1>1, RestyledFits
<1>. HIDE DEF ns
<1>3. Attached(ns, edges) /\ (numbered => Counted(ns, nodeIdCounter))
  BY <1>1, <1>2, SameIds
<1>. QED BY <1>1, <1>2, <1>3 DEF EditorInv, HistoryInv

\* Every node takes another look.
LEMMA AutoLayoutKeeps ==
    ASSUME EditorInv, UNCHANGED numbered, AutoLayout
    PROVE  EditorInv' /\ dirty' = TRUE
<1>. DEFINE ns == [i \in 1 .. Len(nodes) |-> [nodes[i] EXCEPT !.look = Tidy]]
<1>1. /\ nodeIdCounter \in Nat \ {0} /\ nodeIdCounter' = nodeIdCounter
      /\ nodes' = ns /\ edges' = edges /\ CommitHistory(past, Screen)
      /\ nodes \in Seq(Node) /\ edges \in Seq(CanvasEdge) /\ Attached(nodes, edges)
      /\ (numbered => Counted(nodes, nodeIdCounter))
  BY DEF AutoLayout, EditorInv
<1>2. Len(nodes) \in Nat
  BY <1>1, LenProperties
<1>3. ASSUME NEW i \in 1 .. Len(nodes)
      PROVE  [nodes[i] EXCEPT !.look = Tidy] \in Node /\ ns[i].id = nodes[i].id
  <2>1. nodes[i] \in Node
    BY <1>1, ElementOfSeq
  <2>. QED BY <2>1, LooksAssumption DEF Node
<1>4. ns \in Seq(Node) /\ Len(ns) = Len(nodes)
  BY <1>2, <1>3
<1>. HIDE DEF ns
<1>5. Attached(ns, edges) /\ (numbered => Counted(ns, nodeIdCounter))
  BY <1>1, <1>3, <1>4, SameIds
<1>6. Screen \in Sketches(numbered, nodeIdCounter')
  BY <1>1, CommitsTheScreen
<1>9. /\ nodeIdCounter' \in Nat \ {0} /\ nodeIdCounter <= nodeIdCounter'
      /\ nodes' \in Seq(Node) /\ edges' \in Seq(CanvasEdge) /\ Attached(nodes', edges')
      /\ (numbered => Counted(nodes', nodeIdCounter'))
  BY <1>1, <1>4, <1>5
<1>. QED BY <1>1, <1>9, <1>6, EditorAfter

\* Every gesture keeps the editor sound and raises the flag.
LEMMA EditKeeps ==
    ASSUME EditorInv, UNCHANGED numbered, Edit
    PROVE  EditorInv' /\ dirty' = TRUE
  BY AddComponentKeeps, ConnectKeeps, DeleteNodeKeeps, DeleteEdgeKeeps, DragNodeKeeps,
     RenameNodeKeeps, AutoLayoutKeeps DEF Edit

\* A stack that is not empty, and what is left without its last element.
LEMMA LastAndFront ==
    ASSUME NEW G, NEW stack \in Seq(G), stack # << >>
    PROVE  /\ Last(stack) \in G /\ Front(stack) \in Seq(G)
           /\ Len(Front(stack)) = Len(stack) - 1 /\ Len(stack) \in Nat \ {0}
           /\ \A i \in 1 .. Len(stack) - 1 : Front(stack)[i] = stack[i]
<1>1. Len(stack) \in Nat \ {0} /\ \A i \in 1 .. Len(stack) : stack[i] \in G
  BY EmptySeq, ElementOfSeq
<1>. DEFINE n == Len(stack) - 1
<1>2. 1 \in Int /\ n \in Int /\ n >= 0 /\ n - 1 + 1 = n /\ \A i \in 1 .. n : stack[i] \in G /\ 1 + i - 1 = i
  BY <1>1
<1>. HIDE DEF n
<1>3. /\ SubSeq(stack, 1, n) \in Seq(G)
      /\ Len(SubSeq(stack, 1, n)) = IF 1 <= n THEN n - 1 + 1 ELSE 0
      /\ \A i \in 1 .. n - 1 + 1 : SubSeq(stack, 1, n)[i] = stack[1 + i - 1]
  BY <1>2, SubSeqProperties
<1>4. SubSeq(stack, 1, n) = Front(stack) /\ stack[Len(stack)] \in G
  BY <1>1 DEF Front, n
<1>5. Len(Front(stack)) = n /\ \A i \in 1 .. n : Front(stack)[i] = stack[i]
  BY <1>2, <1>3, <1>4
<1>. QED BY <1>1, <1>3, <1>4, <1>5 DEF Last, n

\* Undo and redo exchange sketches between the screen and the stacks.
LEMMA UndoKeeps ==
    ASSUME EditorInv, UNCHANGED numbered, Undo \/ Redo
    PROVE  EditorInv'
<1>. DEFINE G == Sketches(numbered, nodeIdCounter)
<1>1. /\ past \in Seq(G) /\ future \in Seq(G) /\ Len(past) + Len(future) <= MaxHistory
      /\ Screen \in G
      /\ nodeIdCounter \in Nat \ {0} /\ dirty \in BOOLEAN /\ numbered \in BOOLEAN
      /\ Len(past) \in Nat /\ Len(future) \in Nat
  BY ScreenIsSketch, LenProperties DEF EditorInv, HistoryInv
<1>2. UNCHANGED <<nodeIdCounter, dirty, numbered>>
  BY DEF Undo, Redo
<1>. HIDE DEF G
<1>3. ASSUME NEW c \in G, Show(c) 
      PROVE  /\ nodes' \in Seq(Node) /\ edges' \in Seq(CanvasEdge)
             /\ Attached(nodes', edges') /\ (numbered => Counted(nodes', nodeIdCounter))
  BY <1>3, SketchIsFit DEF Show, G
<1>4. CASE Undo
  <2>1. /\ Last(past) \in G /\ Front(past) \in Seq(G) /\ Len(Front(past)) = Len(past) - 1
        /\ Append(future, Screen) \in Seq(G) /\ Len(Append(future, Screen)) = Len(future) + 1
    BY <1>1, <1>4, LastAndFront, AppendProperties DEF Undo
  <2>2. past' = Front(past) /\ future' = Append(future, Screen) /\ Show(Last(past))
    BY <1>4 DEF Undo
  <2>3. HistoryInv'
    <3>1. /\ past' \in Seq(G) /\ future' \in Seq(G)
          /\ Len(past') + Len(future') <= MaxHistory
      BY <1>1, <2>1, <2>2, HistoryAssumption
    <3>. QED BY <1>2, <3>1 DEF HistoryInv, G
  <2>. QED BY <1>1, <1>2, <1>3, <2>1, <2>2, <2>3 DEF EditorInv
<1>5. CASE Redo
  <2>1. /\ Last(future) \in G /\ Front(future) \in Seq(G) /\ Len(Front(future)) = Len(future) - 1
        /\ Append(past, Screen) \in Seq(G) /\ Len(Append(past, Screen)) = Len(past) + 1
    BY <1>1, <1>5, LastAndFront, AppendProperties DEF Redo
  <2>2. future' = Front(future) /\ past' = Append(past, Screen) /\ Show(Last(future))
    BY <1>5 DEF Redo
  <2>3. HistoryInv'
    <3>1. /\ past' \in Seq(G) /\ future' \in Seq(G)
          /\ Len(past') + Len(future') <= MaxHistory
      BY <1>1, <2>1, <2>2, HistoryAssumption
    <3>. QED BY <1>2, <3>1 DEF HistoryInv, G
  <2>. QED BY <1>1, <1>2, <1>3, <2>1, <2>2, <2>3 DEF EditorInv
<1>. QED BY <1>4, <1>5

\* The canvases that the page may be given: the stored one, or none.
Given(ws) ==
    /\ ws \in [version : Nat, nodes : Seq(Node), edges : Seq(CanvasEdge)]
    /\ Attached(ws.nodes, ws.edges)

\* A page without a workspace starts on an empty canvas.
LEMMA ScratchpadIsGiven == Given(Scratchpad)
<1>1. Scratchpad.nodes = << >> /\ Scratchpad.edges = << >> /\ Scratchpad.version = 0
  BY DEF Scratchpad
<1>2. Scratchpad \in [version : Nat, nodes : Seq(Node), edges : Seq(CanvasEdge)]
  BY DEF Scratchpad
<1>3. Attached(<< >>, << >>)
  BY DEF Attached
<1>. QED BY <1>1, <1>2, <1>3 DEF Given

\* A canvas that the server has taken.
LEMMA TakenIsGiven ==
    ASSUME NEW c \in Drawing, Acceptable(c), NEW v \in Nat \ {0}
    PROVE  /\ Given([version |-> v, nodes |-> c.nodes, edges |-> c.edges])
           /\ [version |-> v, nodes |-> c.nodes, edges |-> c.edges]
                 \in [version : Nat \ {0}, nodes : Seq(Node), edges : Seq(CanvasEdge)]
           /\ CanvasOf([version |-> v, nodes |-> c.nodes, edges |-> c.edges]) = c
<1>1. /\ c.nodes \in Seq(Node) /\ c.edges \in Seq(CanvasEdge)
      /\ c = [nodes |-> c.nodes, edges |-> c.edges]
  BY DEF Drawing, Node
<1>2. Attached(c.nodes, c.edges)
  BY <1>1, AcceptableIsAttached
<1>. QED BY <1>1, <1>2 DEF Given, CanvasOf

\* The editor as it starts on such a canvas.
StartsOn(ws) ==
    /\ nodes = ws.nodes /\ edges = ws.edges /\ past = << >> /\ future = << >>
    /\ nodeIdCounter = Len(ws.nodes) + 1 /\ dirty \in BOOLEAN
    /\ numbered = NumberedInOrder(ws)

StartIsSound == \A ws : Given(ws) /\ StartsOn(ws) => EditorInv

LEMMA EditorOn == StartIsSound
<1>. SUFFICES ASSUME NEW ws, Given(ws), StartsOn(ws) PROVE EditorInv
  BY DEF StartIsSound
<1>1. /\ ws.nodes \in Seq(Node) /\ ws.edges \in Seq(CanvasEdge) /\ Attached(ws.nodes, ws.edges)
  BY DEF Given
<1>2. numbered \in BOOLEAN
  BY DEF NumberedInOrder, StartsOn
<1>3. numbered => Counted(nodes, nodeIdCounter)
  BY <1>1, NumberedIsCounted DEF StartsOn
<1>4. nodeIdCounter \in Nat \ {0}
  <2>1. Len(ws.nodes) \in Nat
    BY <1>1, LenProperties
  <2>. QED BY <2>1 DEF StartsOn
<1>5. HistoryInv
  <2>1. \A G : << >> \in Seq(G) /\ Len(<< >>) = 0
    BY EmptySeq
  <2>. QED BY <2>1, HistoryAssumption DEF HistoryInv, StartsOn
<1>. QED BY <1>1, <1>2, <1>3, <1>4, <1>5 DEF EditorInv, StartsOn

\* The server stores only what a page may be given.
LEMMA StoredIsGiven == ServerInv => Given(stored)
  BY DEF ServerInv, Given

\* An empty screen has nothing to lose.
LEMMA NothingDrawn ==
    ASSUME NEW ns, NEW es \in Seq(CanvasEdge), Attached(ns, es), ns = << >>
    PROVE  es = << >>
<1>1. Len(ns) = 0 /\ Len(es) \in Nat
  BY LenProperties
<1>2. \A e \in 1 .. Len(es) : FALSE
  BY <1>1 DEF Attached
<1>3. Len(es) = 0
  BY <1>1, <1>2
<1>. QED BY <1>3, EmptySeq

Inv == EditorInv /\ ServerInv /\ UnsavedWorkIsGuardedButFor

\* The page begins sound.
LEMMA InitInv == Init => Inv
<1>. SUFFICES ASSUME Init PROVE Inv
  OBVIOUS
<1>1. First \in Drawing /\ Acceptable(First) /\ 1 \in Nat \ {0}
  BY CanvasAssumption
<1>2. /\ stored = [version |-> 1, nodes |-> First.nodes, edges |-> First.edges]
      /\ Given(stored)
      /\ stored \in [version : Nat \ {0}, nodes : Seq(Node), edges : Seq(CanvasEdge)]
      /\ stored.version = 1 /\ Scratchpad.version = 0
  BY <1>1, TakenIsGiven DEF Init, Scratchpad
<1>3. PICK ws \in {stored, Scratchpad} : Loaded(ws)
  BY DEF Init
<1>4. Given(ws) /\ version = ws.version /\ mine = CanvasOf(ws)
  BY <1>2, <1>3, ScratchpadIsGiven DEF Loaded
<1>5. EditorInv
  BY <1>3, <1>4, EditorOn DEF Loaded, StartsOn, StartIsSound
<1>6. version = stored.version => mine = CanvasOf(stored)
  BY <1>2, <1>3, <1>4
<1>7. save \in [Saves -> SaveRequest] /\ \A s \in Saves : save[s].at = "unsent"
  <2>1. Unsent \in SaveRequest /\ Unsent.at = "unsent"
    <3>1. BlankCanvas \in Drawing
      BY DEF BlankCanvas, Drawing
    <3>. QED BY <3>1 DEF Unsent, SaveRequest
  <2>. QED BY <2>1 DEF Init
<1>8. ServerInv
  BY <1>2, <1>3, <1>4, <1>6, <1>7 DEF ServerInv, Given
<1>9. Serialize = Screen
  BY <1>5, SavesTheScreen DEF EditorInv
<1>10. UnsavedWorkIsGuardedButFor
  BY <1>3, <1>4, <1>9 DEF UnsavedWorkIsGuardedButFor, Unsaved, Loaded, Screen, CanvasOf
<1>. QED BY <1>5, <1>8, <1>10 DEF Inv
-----------------------------------------------------------------------------
\* The editor, when only the flag or nothing of it has changed.
LEMMA EditorUntouched ==
    ASSUME EditorInv, UNCHANGED <<nodes, edges, past, future, nodeIdCounter, numbered>>,
           dirty' \in BOOLEAN
    PROVE  EditorInv' /\ Serialize' = Serialize
<1>1. EditorInv'
  BY DEF EditorInv, HistoryInv
<1>. QED BY <1>1 DEF Serialize, Ids

\* The answers stay true, when one request takes another state.
LEMMA OneRequest ==
    ASSUME ServerInv, NEW s \in Saves, NEW r \in SaveRequest, r.at # "answered",
           save' = [save EXCEPT ![s] = r], UNCHANGED stored,
           version' \in Nat, version' <= stored.version,
           version' = stored.version => mine' = CanvasOf(stored)
    PROVE  ServerInv'
<1>1. save' \in [Saves -> SaveRequest]
  BY DEF ServerInv
<1>2. \A t \in Saves : save'[t] = IF t = s THEN r ELSE save[t]
  BY DEF ServerInv
<1>. QED BY <1>1, <1>2 DEF ServerInv, CanvasOf

\* Nothing about the saves changes.
LEMMA NoRequest ==
    ASSUME ServerInv, UNCHANGED <<stored, version, mine, save>>
    PROVE  ServerInv'
  BY DEF ServerInv, CanvasOf

\* A request that is over.
LEMMA DoneIsRequest == Done \in SaveRequest /\ Done.at = "done"
<1>1. BlankCanvas \in Drawing
  BY DEF BlankCanvas, Drawing
<1>. QED BY <1>1 DEF Done, Unsent, SaveRequest

\* A request whose page is gone has no answer left to give.
LEMMA ForgottenIsRequest ==
    ASSUME ServerInv, NEW s \in Saves
    PROVE  Forgotten(s) \in SaveRequest /\ Forgotten(s).at # "answered"
<1>1. save[s] \in SaveRequest
  BY DEF ServerInv
<1>2. CASE save[s].at = "sent"
  BY <1>1, <1>2 DEF Forgotten, SaveRequest
<1>3. CASE save[s].at = "answered"
  BY <1>3, DoneIsRequest DEF Forgotten
<1>4. CASE save[s].at \notin {"sent", "answered"}
  BY <1>1, <1>4 DEF Forgotten
<1>. QED BY <1>2, <1>3, <1>4

\* The steps, one by one.  An edit raises the flag.
LEMMA EditCanvasKeeps ==
    ASSUME Inv, EditCanvas
    PROVE  Inv'
<1>1. EditorInv' /\ dirty' = TRUE
  BY EditKeeps DEF EditCanvas, Inv
<1>2. ServerInv'
  BY NoRequest DEF EditCanvas, Inv
<1>. QED BY <1>1, <1>2 DEF Inv, UnsavedWorkIsGuardedButFor

\* An undo or redo is an excuse.
LEMMA UndoOrRedoKeeps ==
    ASSUME Inv, UndoOrRedo
    PROVE  Inv'
<1>1. EditorInv' /\ excuse' = "undone"
  BY UndoKeeps DEF UndoOrRedo, Inv
<1>2. ServerInv'
  BY NoRequest DEF UndoOrRedo, Inv
<1>. QED BY <1>1, <1>2 DEF Inv, UnsavedWorkIsGuardedButFor

\* A save without a workspace is an excuse.
LEMMA SaveScratchpadKeeps ==
    ASSUME Inv, SaveScratchpad
    PROVE  Inv'
<1>1. EditorInv'
  BY EditorUntouched DEF SaveScratchpad, Lowered, Inv
<1>2. ServerInv'
  BY NoRequest DEF SaveScratchpad, Lowered, Inv
<1>3. excuse' = "failed"
  BY DEF SaveScratchpad, Lowered
<1>. QED BY <1>1, <1>2, <1>3 DEF Inv, UnsavedWorkIsGuardedButFor

\* A request carries the screen and the version the page holds.
LEMMA HandleSaveKeeps ==
    ASSUME Inv, NEW s \in Saves, HandleSave(s)
    PROVE  Inv'
<1>. DEFINE r == [save[s] EXCEPT !.at = "sent", !.canvas = Serialize, !.expected = version]
<1>1. /\ UNCHANGED editorVars /\ UNCHANGED <<stored, version, mine, numbered, excuse>>
      /\ save' = [save EXCEPT ![s] = r]
  BY DEF HandleSave
<1>2. r \in SaveRequest /\ r.at # "answered"
  <2>1. Serialize \in Drawing
    BY SavesTheScreen, ScreenIsSketch DEF Inv, EditorInv, Sketches
  <2>2. save[s] \in SaveRequest /\ version \in Nat
    BY DEF Inv, ServerInv
  <2>. QED BY <2>1, <2>2 DEF SaveRequest
<1>3. ServerInv'
  <2>. HIDE DEF r
  <2>. QED BY <1>1, <1>2, OneRequest DEF Inv, ServerInv
<1>4. EditorInv' /\ Serialize' = Serialize
  BY <1>1, EditorUntouched DEF editorVars, Inv, EditorInv
<1>. QED BY <1>1, <1>3, <1>4 DEF Inv, UnsavedWorkIsGuardedButFor, Unsaved, editorVars

\* An answer heard tells the page a version and the canvas that bears it.
LEMMA ReturnKeeps ==
    ASSUME Inv, NEW s \in Saves, Return(s)
    PROVE  Inv'
<1>1. /\ save[s].at = "answered" /\ save' = [save EXCEPT ![s] = Done]
      /\ dirty' = FALSE /\ UNCHANGED <<nodes, edges, past, future, nodeIdCounter, stored, numbered>>
  BY DEF Return, Lowered
<1>2. EditorInv' /\ Serialize' = Serialize
  BY <1>1, EditorUntouched DEF Inv
<1>3. \/ /\ save[s].outcome = "saved" /\ version' = save[s].saved /\ mine' = save[s].canvas
         /\ excuse' = IF Serialize = save[s].canvas THEN "none" ELSE "overtaken"
      \/ UNCHANGED <<version, mine>> /\ excuse' = "failed"
  BY DEF Return, Lowered
<1>4. /\ version' \in Nat /\ version' <= stored.version
      /\ (version' = stored.version => mine' = CanvasOf(stored))
  <2>1. save[s] \in SaveRequest
    BY DEF Inv, ServerInv
  <2>2. save[s].saved \in Nat
    BY <2>1 DEF SaveRequest
  <2>. QED BY <1>1, <1>3, <2>2 DEF Inv, ServerInv
<1>5. ServerInv'
  BY <1>1, <1>4, DoneIsRequest, OneRequest DEF Inv
<1>6. UnsavedWorkIsGuardedButFor'
  BY <1>2, <1>3 DEF UnsavedWorkIsGuardedButFor, Unsaved
<1>. QED BY <1>2, <1>5, <1>6 DEF Inv

\* A save that failed teaches nothing.
LEMMA FailKeeps ==
    ASSUME Inv, NEW s \in Saves, Fail(s)
    PROVE  Inv'
<1>1. /\ save' = [save EXCEPT ![s] = Forgotten(s)] /\ excuse' = "failed"
      /\ UNCHANGED <<version, mine>> /\ dirty' = FALSE
      /\ UNCHANGED <<nodes, edges, past, future, nodeIdCounter, stored, numbered>>
  BY DEF Fail, Lowered
<1>2. EditorInv'
  BY <1>1, EditorUntouched DEF Inv
<1>3. ServerInv'
  BY <1>1, ForgottenIsRequest, OneRequest DEF Inv, ServerInv
<1>. QED BY <1>1, <1>2, <1>3 DEF Inv, UnsavedWorkIsGuardedButFor

\* Another tab makes every version known or answered an old one.
LEMMA OtherTabKeeps ==
    ASSUME Inv, OtherTab
    PROVE  Inv'
<1>1. PICK c \in Canvases :
         stored' = [version |-> stored.version + 1, nodes |-> c.nodes, edges |-> c.edges]
  BY DEF OtherTab
<1>2. UNCHANGED editorVars /\ UNCHANGED <<version, mine, save, numbered, excuse>>
  BY DEF OtherTab
<1>3. stored.version \in Nat \ {0} /\ stored.version + 1 \in Nat \ {0}
  BY DEF Inv, ServerInv
<1>4. /\ stored' \in [version : Nat \ {0}, nodes : Seq(Node), edges : Seq(CanvasEdge)]
      /\ Attached(stored'.nodes, stored'.edges)
      /\ stored'.version = stored.version + 1
  BY <1>1, <1>3, CanvasAssumption, TakenIsGiven DEF Given
<1>5. version \in Nat /\ version < stored'.version
  BY <1>3, <1>4 DEF Inv, ServerInv
<1>6. ASSUME NEW s \in Saves, save[s].at = "answered", save[s].outcome = "saved"
      PROVE  save[s].saved < stored'.version
  <2>1. save[s] \in SaveRequest /\ save[s].saved <= stored.version
    BY <1>6 DEF Inv, ServerInv
  <2>2. save[s].saved \in Nat
    BY <2>1 DEF SaveRequest
  <2>. QED BY <1>3, <1>4, <2>1, <2>2
<1>7. ServerInv'
  <2>1. \A s \in Saves : save[s].at = "answered" /\ save[s].outcome = "saved" =>
           save[s].saved <= stored'.version /\ save[s].saved # stored'.version
    <3>1. \A s \in Saves : save[s].saved \in Nat
      BY DEF Inv, ServerInv, SaveRequest
    <3>. QED BY <1>3, <1>4, <1>6, <3>1
  <2>. QED BY <1>2, <1>3, <1>4, <1>5, <2>1 DEF Inv, ServerInv
<1>8. EditorInv' /\ Serialize' = Serialize
  BY <1>2, EditorUntouched DEF editorVars, Inv, EditorInv
<1>. QED BY <1>2, <1>7, <1>8 DEF Inv, UnsavedWorkIsGuardedButFor, Unsaved, editorVars

\* The page starts again from what is stored, or from nothing.
LEMMA ReloadKeeps ==
    ASSUME Inv, Reload
    PROVE  Inv'
<1>1. PICK ws \in {stored, Scratchpad} :
         /\ Mount(ws) /\ version' = ws.version /\ mine' = CanvasOf(ws)
         /\ numbered' = NumberedInOrder(ws)
  BY DEF Reload
<1>2. Given(ws)
  BY ScratchpadIsGiven, StoredIsGiven DEF Inv
<1>3. EditorInv'
  <2>1. StartIsSound'
    BY EditorOn, PTL
  <2>2. Given(ws)' /\ StartsOn(ws)'
    BY <1>1, <1>2 DEF Given, Mount, StartsOn
  <2>. QED BY <2>1, <2>2 DEF StartIsSound
<1>4. save' = [s \in Saves |-> Forgotten(s)] /\ UNCHANGED stored
  BY DEF Reload
<1>5. /\ save' \in [Saves -> SaveRequest] /\ \A s \in Saves : save'[s].at # "answered"
  BY <1>4, ForgottenIsRequest DEF Inv
<1>6. /\ version' \in Nat /\ version' <= stored.version
      /\ (version' = stored.version => mine' = CanvasOf(stored))
  <2>1. stored.version \in Nat \ {0} /\ Scratchpad.version = 0
    BY DEF Inv, ServerInv, Scratchpad
  <2>. QED BY <1>1, <2>1
<1>7. ServerInv'
  BY <1>4, <1>5, <1>6 DEF Inv, ServerInv, CanvasOf
<1>8. UnsavedWorkIsGuardedButFor'
  <2>1. (nodes \in Seq(Node) /\ edges \in Seq(CanvasEdge) /\ Attached(nodes, edges)
           => Serialize = Screen)'
    BY SavesTheScreen, PTL
  <2>2. Serialize' = Screen'
    BY <1>3, <2>1 DEF EditorInv
  <2>. QED BY <1>1, <2>2 DEF Mount, UnsavedWorkIsGuardedButFor, Unsaved, Screen, CanvasOf
<1>. QED BY <1>3, <1>7, <1>8 DEF Inv

\* A save that is taken makes a version that nobody held.
LEMMA ArriveKeeps ==
    ASSUME Inv, NEW s \in Saves, Arrive(s)
    PROVE  Inv'
<1>. DEFINE r == IF save[s].at = "forgotten" THEN Done
                 ELSE [save[s] EXCEPT !.at = "answered", !.outcome = Outcome(s),
                                      !.saved = stored.version + 1]
            next == [version |-> stored.version + 1, nodes |-> save[s].canvas.nodes,
                     edges |-> save[s].canvas.edges]
<1>1. /\ save' = [save EXCEPT ![s] = r]
      /\ stored' = IF Outcome(s) = "saved" THEN next ELSE stored
      /\ UNCHANGED editorVars /\ UNCHANGED <<version, mine, numbered, excuse>>
  BY DEF Arrive
<1>2. /\ stored.version \in Nat \ {0} /\ stored.version + 1 \in Nat \ {0} /\ version \in Nat
      /\ version <= stored.version /\ save \in [Saves -> SaveRequest]
      /\ save[s] \in SaveRequest /\ save[s].canvas \in Drawing
      /\ \A t \in Saves : save[t].saved \in Nat
  BY DEF Inv, ServerInv, SaveRequest
<1>3. r \in SaveRequest
  <2>1. Outcome(s) \in {"invalid", "conflict", "saved"}
    BY DEF Outcome
  <2>2. CASE save[s].at = "forgotten"
    BY <2>2, DoneIsRequest
  <2>3. CASE save[s].at # "forgotten"
    BY <1>2, <2>1, <2>3 DEF SaveRequest
  <2>. QED BY <2>2, <2>3
<1>4. /\ save' \in [Saves -> SaveRequest]
      /\ save'[s] = r /\ \A t \in Saves \ {s} : save'[t] = save[t]
  BY <1>1, <1>2, <1>3
<1>5. r.at = "answered" => /\ r.outcome = Outcome(s) /\ r.saved = stored.version + 1
                           /\ r.canvas = save[s].canvas
  BY <1>2, DoneIsRequest DEF SaveRequest
<1>. HIDE DEF r
<1>6. ServerInv'
  <2>1. CASE Outcome(s) = "saved"
    <3>1. Acceptable(save[s].canvas)
      BY <2>1 DEF Outcome
    <3>2. /\ stored' \in [version : Nat \ {0}, nodes : Seq(Node), edges : Seq(CanvasEdge)]
          /\ Attached(stored'.nodes, stored'.edges)
          /\ stored'.version = stored.version + 1
          /\ CanvasOf(stored') = save[s].canvas
      BY <1>1, <1>2, <2>1, <3>1, TakenIsGiven DEF Given
    <3>3. ASSUME NEW t \in Saves, save'[t].at = "answered", save'[t].outcome = "saved"
          PROVE  /\ save'[t].saved <= stored'.version
                 /\ save'[t].saved = stored'.version => save'[t].canvas = CanvasOf(stored')
      <4>1. CASE t = s
        BY <1>2, <1>4, <1>5, <3>2, <3>3, <4>1
      <4>2. CASE t # s
        <5>1. save'[t] = save[t] /\ save[t].saved <= stored.version
          BY <1>4, <3>3, <4>2 DEF Inv, ServerInv
        <5>. QED BY <1>2, <3>2, <5>1
      <4>. QED BY <4>1, <4>2
    <3>4. /\ version' \in Nat /\ version' <= stored'.version
          /\ version' # stored'.version
      BY <1>1, <1>2, <3>2
    <3>5. (version = stored.version => mine = CanvasOf(stored))'
      BY <3>4
    <3>6. (\A t \in Saves : save[t].at = "answered" /\ save[t].outcome = "saved" =>
             /\ save[t].saved <= stored.version
             /\ save[t].saved = stored.version => save[t].canvas = CanvasOf(stored))'
      BY <3>3
    <3>. QED BY <1>4, <3>2, <3>4, <3>5, <3>6 DEF ServerInv
  <2>2. CASE Outcome(s) # "saved"
    <3>1. stored' = stored /\ CanvasOf(stored)' = CanvasOf(stored)
      BY <1>1, <2>2 DEF CanvasOf
    <3>2. \A t \in Saves : save'[t].at = "answered" /\ save'[t].outcome = "saved" =>
             save'[t] = save[t]
      BY <1>4, <1>5, <2>2
    <3>. QED BY <1>1, <1>4, <3>1, <3>2 DEF Inv, ServerInv
  <2>. QED BY <2>1, <2>2
<1>7. EditorInv' /\ Serialize' = Serialize
  BY <1>1, EditorUntouched DEF editorVars, Inv, EditorInv
<1>. QED BY <1>1, <1>6, <1>7 DEF Inv, UnsavedWorkIsGuardedButFor, Unsaved, editorVars

\* Every step keeps the invariant.
LEMMA NextInv == Inv /\ [Next]_vars => Inv'
<1>1. ASSUME Inv, UNCHANGED vars PROVE Inv'
  <2>1. EditorInv' /\ Serialize' = Serialize
    BY <1>1, EditorUntouched DEF vars, editorVars, pageVars, Inv, EditorInv
  <2>2. ServerInv'
    BY <1>1, NoRequest DEF vars, pageVars, Inv
  <2>. QED BY <1>1, <2>1, <2>2 DEF Inv, UnsavedWorkIsGuardedButFor, Unsaved, vars, editorVars, pageVars
<1>. QED BY <1>1, EditCanvasKeeps, UndoOrRedoKeeps, SaveScratchpadKeeps, HandleSaveKeeps,
            ArriveKeeps, ReturnKeeps, FailKeeps, OtherTabKeeps, ReloadKeeps DEF Next

(***************************************************************************)
(* The inductive invariant of the page and the editor in it.               *)
(***************************************************************************)
THEOREM EditorIsSound == Spec => []Inv
  BY InitInv, NextInv, PTL DEF Spec

\* What the invariant says of edges.
LEMMA InvEdges == Inv => EdgesHaveEnds
<1>1. ASSUME EditorInv, NEW c \in {Screen} \cup ToSet(past) \cup ToSet(future)
      PROVE  c \in Sketches(numbered, nodeIdCounter)
  <2>1. \A stack \in Seq(Sketches(numbered, nodeIdCounter)) :
           ToSet(stack) \subseteq Sketches(numbered, nodeIdCounter)
    BY ElementOfSeq, LenProperties DEF ToSet
  <2>. QED BY <1>1, <2>1, ScreenIsSketch DEF EditorInv, HistoryInv
<1>2. ASSUME NEW ns \in Seq(Node), NEW es \in Seq(CanvasEdge), Attached(ns, es),
             NEW e \in ToSet(es)
      PROVE  \E m, n \in ToSet(ns) : m.id = e.source /\ n.id = e.target
  <2>1. PICK k \in 1 .. Len(es) : e = es[k]
    BY DEF ToSet
  <2>2. PICK i, j \in 1 .. Len(ns) : ns[i].id = es[k].source /\ ns[j].id = es[k].target
    BY <1>2 DEF Attached
  <2>3. ns[i] \in ToSet(ns) /\ ns[j] \in ToSet(ns)
    BY DEF ToSet
  <2>. QED BY <2>1, <2>2, <2>3
<1>. QED BY <1>1, <1>2, SketchIsFit DEF Inv, EdgesHaveEnds

\* What it says of ids.
LEMMA InvFresh == Inv => NewIdsAreFresh
  BY DEF Inv, EditorInv, Counted, NewIdsAreFresh

(***************************************************************************)
(* Neither the screen nor a snapshot ever holds an edge without its nodes  *)
(* (DesignCanvas.tsx), so that a save leaves nothing out.                  *)
(***************************************************************************)
THEOREM EdgesStayAttached == Spec => []EdgesHaveEnds
  BY EditorIsSound, InvEdges, PTL

(***************************************************************************)
(* The counter of DesignCanvas.tsx never gives out an id in use, when the  *)
(* canvas that was mounted numbered its nodes without a gap.               *)
(***************************************************************************)
THEOREM IdsStayFresh == Spec => []NewIdsAreFresh
  BY EditorIsSound, InvFresh, PTL

(***************************************************************************)
(* While the version the page holds is the current one, the page has seen  *)
(* the canvas that is stored (page.tsx, handleSave), whatever answers were *)
(* lost and whatever another tab saved: no save overwrites unseen work.    *)
(***************************************************************************)
THEOREM VersionsNameCanvases == Spec => []KnownVersionIsKnownCanvas
<1>1. Inv => KnownVersionIsKnownCanvas
  BY DEF Inv, ServerInv, KnownVersionIsKnownCanvas
<1>. QED BY <1>1, EditorIsSound, PTL

(***************************************************************************)
(* Unsaved work behind a lowered flag always follows an undo or redo, a    *)
(* save that failed, or a save overtaken by an edit (page.tsx:82).         *)
(***************************************************************************)
THEOREM WorkIsGuarded == Spec => []UnsavedWorkIsGuardedButFor
<1>1. Inv => UnsavedWorkIsGuardedButFor
  BY DEF Inv
<1>. QED BY <1>1, EditorIsSound, PTL

\* The line that the stacks and the screen make.
Row(p, c, f) == p \o <<c>> \o Reverse(f)

\* The elements of the line, by their place.
LEMMA RowElements ==
    ASSUME NEW G, NEW p \in Seq(G), NEW c \in G, NEW f \in Seq(G)
    PROVE  /\ Row(p, c, f) \in Seq(G)
           /\ Len(Row(p, c, f)) = Len(p) + 1 + Len(f)
           /\ \A i \in 1 .. Len(p) + 1 + Len(f) :
                 Row(p, c, f)[i] = IF i <= Len(p) THEN p[i]
                                   ELSE IF i = Len(p) + 1 THEN c
                                   ELSE f[Len(f) + Len(p) + 2 - i]
<1>. DEFINE r == Reverse(f)
            q == p \o <<c>>
<1>1. Len(p) \in Nat /\ Len(f) \in Nat
  BY LenProperties
<1>2. r \in Seq(G) /\ Len(r) = Len(f) /\ \A j \in 1 .. Len(f) : r[j] = f[Len(f) - j + 1]
  <2>1. \A j \in 1 .. Len(f) : f[Len(f) - j + 1] \in G
    BY <1>1, ElementOfSeq
  <2>. QED BY <1>1, <2>1 DEF Reverse
<1>. HIDE DEF r
<1>3. <<c>> \in Seq(G) /\ Len(<<c>>) = 1 /\ <<c>>[1] = c
  OBVIOUS
<1>4. /\ q \in Seq(G) /\ Len(q) = Len(p) + 1
      /\ \A i \in 1 .. Len(p) + 1 : q[i] = IF i <= Len(p) THEN p[i] ELSE c
  <2>1. /\ q \in Seq(G) /\ Len(q) = Len(p) + Len(<<c>>)
        /\ \A i \in 1 .. Len(p) + Len(<<c>>) : q[i] = IF i <= Len(p) THEN p[i] ELSE <<c>>[i - Len(p)]
    BY <1>3, ConcatProperties
  <2>. QED BY <1>1, <1>3, <2>1
<1>. HIDE DEF q
<1>. DEFINE w == q \o r
<1>5. /\ w \in Seq(G) /\ Len(w) = Len(q) + Len(r)
      /\ \A i \in 1 .. Len(q) + Len(r) : w[i] = IF i <= Len(q) THEN q[i] ELSE r[i - Len(q)]
  <2>1. q \in Seq(G) /\ r \in Seq(G)
    BY <1>2, <1>4
  <2>. QED BY ONLY <2>1, ConcatProperties
<1>6. Row(p, c, f) = w
  BY DEF Row, q, r
<1>. HIDE DEF w
<1>7. ASSUME NEW i \in 1 .. Len(p) + 1 + Len(f)
      PROVE  w[i] = IF i <= Len(p) THEN p[i]
                   ELSE IF i = Len(p) + 1 THEN c
                   ELSE f[Len(f) + Len(p) + 2 - i]
  <2>1. CASE i <= Len(p) + 1
    BY <1>1, <1>2, <1>4, <1>5, <2>1
  <2>2. CASE i > Len(p) + 1
    <3>1. i - Len(q) \in 1 .. Len(f) /\ Len(f) - (i - Len(q)) + 1 = Len(f) + Len(p) + 2 - i
      BY <1>1, <1>4, <2>2
    <3>2. w[i] = r[i - Len(q)]
      BY <1>1, <1>2, <1>4, <1>5, <2>2
    <3>3. r[i - Len(q)] = f[Len(f) + Len(p) + 2 - i]
      BY <1>2, <3>1
    <3>. QED BY <1>1, <2>2, <3>2, <3>3
  <2>. QED BY <1>1, <2>1, <2>2
<1>. QED BY <1>1, <1>2, <1>4, <1>5, <1>6, <1>7

\* An undo, and a redo, move along the line.
LEMMA UndoMoves ==
    ASSUME NEW G, NEW p \in Seq(G), p # << >>, NEW c \in G, NEW f \in Seq(G)
    PROVE  Row(Front(p), Last(p), Append(f, c)) = Row(p, c, f)
<1>. DEFINE h == Front(p)
            l == Last(p)
            g == Append(f, c)
            t == Row(p, c, f)
            u == Row(h, l, g)
<1>1. /\ h \in Seq(G) /\ l \in G /\ Len(p) \in Nat \ {0} /\ Len(h) = Len(p) - 1
      /\ \A i \in 1 .. Len(p) - 1 : h[i] = p[i]
      /\ l = p[Len(p)]
  BY LastAndFront DEF Last
<1>2. /\ g \in Seq(G) /\ Len(g) = Len(f) + 1 /\ Len(f) \in Nat
      /\ \A i \in 1 .. Len(f) : g[i] = f[i]
      /\ g[Len(f) + 1] = c
  BY AppendProperties, LenProperties
<1>. HIDE DEF h, l, g
<1>3. /\ t \in Seq(G) /\ Len(t) = Len(p) + 1 + Len(f)
      /\ \A i \in 1 .. Len(p) + 1 + Len(f) :
            t[i] = IF i <= Len(p) THEN p[i]
                   ELSE IF i = Len(p) + 1 THEN c
                   ELSE f[Len(f) + Len(p) + 2 - i]
  BY RowElements
<1>4. /\ u \in Seq(G) /\ Len(u) = Len(h) + 1 + Len(g)
      /\ \A i \in 1 .. Len(h) + 1 + Len(g) :
            u[i] = IF i <= Len(h) THEN h[i]
                   ELSE IF i = Len(h) + 1 THEN l
                   ELSE g[Len(g) + Len(h) + 2 - i]
  <2>1. h \in Seq(G) /\ l \in G /\ g \in Seq(G)
    BY <1>1, <1>2
  <2>. QED BY ONLY <2>1, RowElements
<1>. HIDE DEF t, u
<1>5. Len(u) = Len(t)
  BY <1>1, <1>2, <1>3, <1>4
<1>6. ASSUME NEW i \in 1 .. Len(t) PROVE u[i] = t[i]
  <2>1. i \in 1 .. Len(h) + 1 + Len(g) /\ i \in 1 .. Len(p) + 1 + Len(f)
    BY <1>3, <1>4, <1>5
  <2>2. CASE i < Len(p)
    BY <1>1, <1>2, <1>3, <1>4, <2>1, <2>2
  <2>3. CASE i = Len(p)
    BY <1>1, <1>2, <1>3, <1>4, <2>1, <2>3
  <2>4. CASE i = Len(p) + 1
    <3>1. u[i] = g[Len(f) + 1]
      <4>1. Len(g) + Len(h) + 2 - i = Len(f) + 1
        BY <1>1, <1>2, <2>4
      <4>2. ~(i <= Len(h)) /\ ~(i = Len(h) + 1)
        BY <1>1, <2>4
      <4>. QED BY <1>4, <2>1, <4>1, <4>2
    <3>. QED BY <1>1, <1>2, <1>3, <2>1, <2>4, <3>1
  <2>5. CASE i > Len(p) + 1
    <3>1. Len(g) + Len(h) + 2 - i = Len(f) + Len(p) + 2 - i /\ Len(f) + Len(p) + 2 - i \in 1 .. Len(f)
      BY <1>1, <1>2, <2>1, <2>5
    <3>2. u[i] = g[Len(f) + Len(p) + 2 - i] /\ t[i] = f[Len(f) + Len(p) + 2 - i]
      BY <1>1, <1>2, <1>3, <1>4, <2>1, <2>5, <3>1
    <3>. QED BY <1>2, <3>1, <3>2
  <2>. QED BY <1>1, <2>1, <2>2, <2>3, <2>4, <2>5
<1>7. u = t
  BY <1>3, <1>4, <1>5, <1>6, SeqEqual
<1>. QED BY <1>7 DEF t, u, h, l, g

\* A redo is an undo seen from the other side.
LEMMA RedoMoves ==
    ASSUME NEW G, NEW p \in Seq(G), NEW c \in G, NEW f \in Seq(G), f # << >>
    PROVE  Row(Append(p, c), Last(f), Front(f)) = Row(p, c, f)
<1>. DEFINE q == Append(p, c)
            g == Front(f)
            l == Last(f)
<1>1. /\ q \in Seq(G) /\ q # << >>
      /\ Len(q) = Len(p) + 1 /\ Len(p) \in Nat
      /\ \A i \in 1 .. Len(p) : q[i] = p[i]
      /\ q[Len(p) + 1] = c
  BY AppendProperties, LenProperties
<1>2. /\ g \in Seq(G) /\ l \in G /\ Len(f) \in Nat \ {0} /\ Len(g) = Len(f) - 1
      /\ \A i \in 1 .. Len(f) - 1 : g[i] = f[i]
      /\ l = f[Len(f)]
  BY LastAndFront DEF Last
<1>3. /\ Front(q) \in Seq(G) /\ Len(Front(q)) = Len(q) - 1
      /\ \A i \in 1 .. Len(q) - 1 : Front(q)[i] = q[i]
  BY <1>1, LastAndFront
<1>4. /\ Append(g, l) \in Seq(G) /\ Len(Append(g, l)) = Len(g) + 1
      /\ \A i \in 1 .. Len(g) : Append(g, l)[i] = g[i]
      /\ Append(g, l)[Len(g) + 1] = l
  BY <1>2, AppendProperties
<1>5. Last(q) = c
  BY <1>1 DEF Last
<1>. HIDE DEF q, g, l
<1>6. Front(q) = p
  BY <1>1, <1>3, SeqEqual
<1>7. Append(g, l) = f
  <2>1. Len(Append(g, l)) = Len(f)
    BY <1>2, <1>4
  <2>2. \A i \in 1 .. Len(f) : Append(g, l)[i] = f[i]
    BY <1>2, <1>4
  <2>. QED BY <1>4, <2>1, <2>2, SeqEqual
<1>8. Row(Front(q), Last(q), Append(g, l)) = Row(q, l, g)
  BY <1>1, <1>2, UndoMoves
<1>. QED BY <1>5, <1>6, <1>7, <1>8 DEF q, g, l

\* A push drops the oldest snapshot of a full stack.
LEMMA PushElements ==
    ASSUME NEW G, NEW stack \in Seq(G), Len(stack) <= MaxHistory, NEW s \in G
    PROVE  \E m \in {0, 1} :
              /\ m = IF Len(stack) = MaxHistory THEN 1 ELSE 0
              /\ Push(stack, s) \in Seq(G)
              /\ Len(Push(stack, s)) = Len(stack) + 1 - m
              /\ \A i \in 1 .. Len(stack) + 1 - m :
                    Push(stack, s)[i] = IF i + m <= Len(stack) THEN stack[i + m] ELSE s
<1>0. PICK m \in {0, 1} : m = IF Len(stack) = MaxHistory THEN 1 ELSE 0
  OBVIOUS
<1>. SUFFICES /\ Push(stack, s) \in Seq(G)
              /\ Len(Push(stack, s)) = Len(stack) + 1 - m
              /\ \A i \in 1 .. Len(stack) + 1 - m :
                    Push(stack, s)[i] = IF i + m <= Len(stack) THEN stack[i + m] ELSE s
  BY <1>0
<1>1. Len(stack) \in Nat
  BY LenProperties
<1>2. CASE Len(stack) = MaxHistory
  <2>. DEFINE q == Tail(stack)
  <2>1. stack # << >>
    BY <1>2, HistoryAssumption
  <2>2. q \in Seq(G) /\ Len(q) = Len(stack) - 1 /\ \A i \in 1 .. Len(q) : q[i] = stack[i + 1]
    BY <2>1, HeadTailProperties
  <2>. HIDE DEF q
  <2>3. /\ Append(q, s) \in Seq(G) /\ Len(Append(q, s)) = Len(q) + 1
        /\ \A i \in 1 .. Len(q) : Append(q, s)[i] = q[i]
        /\ Append(q, s)[Len(q) + 1] = s
    BY <2>2, AppendProperties
  <2>4. Push(stack, s) = Append(q, s) /\ m = 1
    BY <1>0, <1>2 DEF Push, q
  <2>. QED BY <1>1, <2>2, <2>3, <2>4
<1>3. CASE Len(stack) # MaxHistory
  <2>1. /\ Append(stack, s) \in Seq(G) /\ Len(Append(stack, s)) = Len(stack) + 1
        /\ \A i \in 1 .. Len(stack) : Append(stack, s)[i] = stack[i]
        /\ Append(stack, s)[Len(stack) + 1] = s
    BY AppendProperties
  <2>2. Push(stack, s) = Append(stack, s) /\ m = 0
    BY <1>0, <1>3 DEF Push
  <2>. QED BY <1>1, <2>1, <2>2
<1>. QED BY <1>2, <1>3

\* The elements that the line does not forget.
LEMMA NewestElements ==
    ASSUME NEW G, NEW s \in Seq(G)
    PROVE  \E m \in Nat :
              /\ Len(s) > MaxHistory + 1 => m = Len(s) - MaxHistory - 1
              /\ Len(s) <= MaxHistory + 1 => m = 0
              /\ Line!Newest(s) \in Seq(G)
              /\ Len(Line!Newest(s)) = Len(s) - m
              /\ \A i \in 1 .. Len(s) - m : Line!Newest(s)[i] = s[i + m]
<1>1. Len(s) \in Nat /\ \A i \in 1 .. Len(s) : s[i] \in G
  BY LenProperties, ElementOfSeq
<1>0. PICK m \in Nat : /\ Len(s) > MaxHistory + 1 => m = Len(s) - MaxHistory - 1
                       /\ Len(s) <= MaxHistory + 1 => m = 0
  <2>1. CASE Len(s) > MaxHistory + 1
    <3>1. Len(s) - MaxHistory - 1 \in Nat /\ ~(Len(s) <= MaxHistory + 1)
      BY <1>1, <2>1, HistoryAssumption
    <3>. QED BY <3>1
  <2>2. CASE ~(Len(s) > MaxHistory + 1)
    BY <2>2
  <2>. QED BY <2>1, <2>2
<1>. SUFFICES /\ Line!Newest(s) \in Seq(G)
              /\ Len(Line!Newest(s)) = Len(s) - m
              /\ \A i \in 1 .. Len(s) - m : Line!Newest(s)[i] = s[i + m]
  BY <1>0
<1>. DEFINE a == m + 1
            n == Len(s)
<1>2. m \in Nat /\ m <= n /\ a \in Int /\ n \in Int /\ n - a + 1 = n - m
      /\ \A i \in a .. n : s[i] \in G
  BY <1>0, <1>1, HistoryAssumption
<1>3. Line!Newest(s) = SubSeq(s, a, n)
  <2>1. (IF Len(s) > MaxHistory + 1 THEN Len(s) - MaxHistory ELSE 1) = a
    BY <1>0, <1>1, HistoryAssumption
  <2>. QED BY <2>1 DEF Line!Newest
<1>. HIDE DEF a, n
<1>4. /\ SubSeq(s, a, n) \in Seq(G)
      /\ Len(SubSeq(s, a, n)) = IF a <= n THEN n - a + 1 ELSE 0
      /\ \A i \in 1 .. n - a + 1 : SubSeq(s, a, n)[i] = s[a + i - 1]
  BY <1>2, SubSeqProperties
<1>5. \A i \in 1 .. n - m : a + i - 1 = i + m
  BY <1>2 DEF a
<1>6. Len(SubSeq(s, a, n)) = n - m
  <2>1. a <= n \/ n - m = 0
    BY <1>2 DEF a
  <2>. QED BY <1>2, <1>4, <2>1
<1>. QED BY <1>2, <1>3, <1>4, <1>5, <1>6 DEF n

\* What lies behind the mark is the past.
LEMMA BehindIsPast ==
    ASSUME NEW G, NEW p \in Seq(G), NEW c \in G, NEW f \in Seq(G)
    PROVE  /\ SubSeq(Row(p, c, f), 1, Len(p)) = p
           /\ Row(p, c, f)[Len(p) + 1] = c
<1>. DEFINE t == Row(p, c, f)
            n == Len(p)
<1>1. /\ t \in Seq(G) /\ Len(t) = n + 1 + Len(f)
      /\ \A i \in 1 .. n + 1 + Len(f) : t[i] = IF i <= n THEN p[i]
                                               ELSE IF i = n + 1 THEN c
                                               ELSE f[Len(f) + n + 2 - i]
  BY RowElements
<1>. HIDE DEF t
<1>2. n \in Nat /\ Len(f) \in Nat
  BY LenProperties
<1>. HIDE DEF n
<1>3. t[n + 1] = c
  BY <1>1, <1>2
<1>4. \A i \in 1 .. n : t[i] = p[i]
  BY <1>1, <1>2
<1>5. 1 \in Int /\ n \in Int /\ n - 1 + 1 = n /\ \A i \in 1 .. n : t[i] \in G /\ 1 + i - 1 = i
  BY <1>1, <1>2, ElementOfSeq
<1>6. /\ SubSeq(t, 1, n) \in Seq(G)
      /\ Len(SubSeq(t, 1, n)) = IF 1 <= n THEN n - 1 + 1 ELSE 0
      /\ \A i \in 1 .. n - 1 + 1 : SubSeq(t, 1, n)[i] = t[1 + i - 1]
  BY <1>5, SubSeqProperties
<1>7. Len(SubSeq(t, 1, n)) = n /\ \A i \in 1 .. n : SubSeq(t, 1, n)[i] = p[i]
  BY <1>2, <1>4, <1>5, <1>6
<1>8. SubSeq(t, 1, n) = p
  BY <1>6, <1>7, SeqEqual DEF n
<1>. QED BY <1>3, <1>8 DEF t, n

\* The line of which nothing is ahead.
LEMMA RowAtItsEnd ==
    ASSUME NEW G, NEW q \in Seq(G), NEW d \in G
    PROVE  /\ Row(q, d, << >>) \in Seq(G)
           /\ Len(Row(q, d, << >>)) = Len(q) + 1
           /\ \A i \in 1 .. Len(q) + 1 :
                 Row(q, d, << >>)[i] = IF i <= Len(q) THEN q[i] ELSE d
<1>1. PICK f \in Seq(G) : f = << >> /\ Len(f) = 0
  BY EmptySeq
<1>. DEFINE t == Row(q, d, f)
<1>2. /\ t \in Seq(G) /\ Len(t) = Len(q) + 1 + Len(f)
      /\ \A i \in 1 .. Len(q) + 1 + Len(f) :
            t[i] = IF i <= Len(q) THEN q[i]
                   ELSE IF i = Len(q) + 1 THEN d
                   ELSE f[Len(f) + Len(q) + 2 - i]
  BY RowElements
<1>. HIDE DEF t
<1>3. Len(q) \in Nat
  BY LenProperties
<1>4. /\ t \in Seq(G) /\ Len(t) = Len(q) + 1
      /\ \A i \in 1 .. Len(q) + 1 : t[i] = IF i <= Len(q) THEN q[i] ELSE d
  BY <1>1, <1>2, <1>3
<1>. QED BY <1>1, <1>4 DEF t

\* The line after a gesture that has pushed one snapshot.
LEMMA OnePush ==
    ASSUME NEW G, NEW p \in Seq(G), Len(p) <= MaxHistory, NEW b \in G, NEW d \in G
    PROVE  Row(Push(p, b), d, << >>) = Line!Newest(p \o <<b, d>>)
<1>2. PICK z \in Seq(G) : z = <<b, d>> /\ Len(z) = 2 /\ z[1] = b /\ z[2] = d
  <2>1. /\ <<b, d>> \in Seq(G) /\ Len(<<b, d>>) = 2
        /\ <<b, d>>[1] = b /\ <<b, d>>[2] = d
    OBVIOUS
  <2>. QED BY <2>1
<1>3. Len(p) \in Nat
  BY LenProperties
<1>. DEFINE q == Push(p, b)
            t == Row(q, d, << >>)
<1>4. PICK m \in {0, 1} :
         /\ m = IF Len(p) = MaxHistory THEN 1 ELSE 0
         /\ q \in Seq(G) /\ Len(q) = Len(p) + 1 - m
         /\ \A i \in 1 .. Len(p) + 1 - m : q[i] = IF i + m <= Len(p) THEN p[i + m] ELSE b
  BY PushElements
<1>. HIDE DEF q
<1>5. /\ t \in Seq(G) /\ Len(t) = Len(q) + 1
      /\ \A i \in 1 .. Len(q) + 1 : t[i] = IF i <= Len(q) THEN q[i] ELSE d
  BY <1>4, RowAtItsEnd
<1>. HIDE DEF t
<1>6. PICK s \in Seq(G) :
         /\ s = p \o z /\ Len(s) = Len(p) + 2
         /\ \A i \in 1 .. Len(p) + 2 : s[i] = IF i <= Len(p) THEN p[i] ELSE z[i - Len(p)]
  <2>. DEFINE s == p \o z
  <2>1. /\ s \in Seq(G) /\ Len(s) = Len(p) + Len(z)
        /\ \A i \in 1 .. Len(p) + Len(z) : s[i] = IF i <= Len(p) THEN p[i] ELSE z[i - Len(p)]
    BY ConcatProperties
  <2>. QED BY <1>2, <2>1
<1>. DEFINE u == Line!Newest(s)
<1>7. PICK k \in Nat :
         /\ Len(s) > MaxHistory + 1 => k = Len(s) - MaxHistory - 1
         /\ Len(s) <= MaxHistory + 1 => k = 0
         /\ u \in Seq(G) /\ Len(u) = Len(s) - k
         /\ \A i \in 1 .. Len(s) - k : u[i] = s[i + k]
  BY NewestElements
<1>. HIDE DEF u
<1>8. k = m
  BY <1>3, <1>4, <1>6, <1>7, HistoryAssumption
<1>9. /\ u \in Seq(G) /\ Len(u) = Len(s) - m
      /\ \A i \in 1 .. Len(s) - m : u[i] = s[i + m]
  BY <1>7, <1>8
<1>10. Len(t) = Len(u)
  BY <1>3, <1>4, <1>5, <1>6, <1>9
<1>11. ASSUME NEW i \in 1 .. Len(t) PROVE t[i] = u[i]
  <2>1. /\ i \in 1 .. Len(q) + 1 /\ i \in 1 .. Len(s) - m /\ i + m \in 1 .. Len(p) + 2
        /\ Len(q) = Len(p) + 1 - m /\ u[i] = s[i + m]
    BY <1>3, <1>4, <1>5, <1>6, <1>9, <1>10
  <2>2. CASE i + m <= Len(p)
    <3>1. i <= Len(q) /\ i \in 1 .. Len(p) + 1 - m
      BY <1>3, <1>9, <2>1, <2>2
    <3>. QED BY <1>4, <1>5, <1>6, <2>1, <2>2, <3>1
  <2>3. CASE i + m = Len(p) + 1
    <3>1. i <= Len(q) /\ i \in 1 .. Len(p) + 1 - m /\ ~(i + m <= Len(p)) /\ i + m - Len(p) = 1
      BY <1>3, <1>9, <2>1, <2>3
    <3>2. t[i] = b
      BY <1>4, <1>5, <2>1, <3>1
    <3>3. u[i] = z[1]
      <4>1. s[i + m] = z[i + m - Len(p)]
        BY ONLY <1>6, <2>1, <3>1
      <4>. QED BY <2>1, <3>1, <4>1
    <3>. QED BY <1>2, <3>2, <3>3
  <2>4. CASE i + m = Len(p) + 2
    <3>1. ~(i <= Len(q)) /\ ~(i + m <= Len(p)) /\ i + m - Len(p) = 2
      BY <1>3, <1>9, <2>1, <2>4
    <3>2. t[i] = d
      BY <1>5, <2>1, <3>1
    <3>3. u[i] = z[2]
      BY <1>3, <1>6, <2>1, <3>1
    <3>. QED BY <1>2, <3>2, <3>3
  <2>. QED BY <1>3, <2>1, <2>2, <2>3, <2>4
<1>12. t = u
  BY <1>5, <1>9, <1>10, <1>11, SeqEqual
<1>. QED BY <1>2, <1>6, <1>12 DEF t, u, q

\* Forgetting the oldest once more makes no difference.
LEMMA NewestOfNewest ==
    ASSUME NEW G, NEW s \in Seq(G), NEW d \in G
    PROVE  Line!Newest(Line!Newest(s) \o <<d>>) = Line!Newest(s \o <<d>>)
<1>. DEFINE r == Line!Newest(s)
<1>1. PICK m \in Nat :
         /\ Len(s) > MaxHistory + 1 => m = Len(s) - MaxHistory - 1
         /\ Len(s) <= MaxHistory + 1 => m = 0
         /\ r \in Seq(G) /\ Len(r) = Len(s) - m
         /\ \A i \in 1 .. Len(s) - m : r[i] = s[i + m]
  BY NewestElements
<1>2. Len(s) \in Nat
  BY LenProperties
<1>. HIDE DEF r
<1>3. <<d>> \in Seq(G) /\ Len(<<d>>) = 1 /\ <<d>>[1] = d
  OBVIOUS
<1>4. PICK x \in Seq(G) :
         /\ x = r \o <<d>> /\ Len(x) = Len(r) + 1
         /\ \A i \in 1 .. Len(r) + 1 : x[i] = IF i <= Len(r) THEN r[i] ELSE <<d>>[i - Len(r)]
  <2>. DEFINE x == r \o <<d>>
  <2>1. /\ x \in Seq(G) /\ Len(x) = Len(r) + Len(<<d>>)
        /\ \A i \in 1 .. Len(r) + Len(<<d>>) : x[i] = IF i <= Len(r) THEN r[i] ELSE <<d>>[i - Len(r)]
    BY <1>1, <1>3, ConcatProperties
  <2>. QED BY <1>3, <2>1
<1>5. PICK y \in Seq(G) :
         /\ y = s \o <<d>> /\ Len(y) = Len(s) + 1
         /\ \A i \in 1 .. Len(s) + 1 : y[i] = IF i <= Len(s) THEN s[i] ELSE <<d>>[i - Len(s)]
  <2>. DEFINE y == s \o <<d>>
  <2>1. /\ y \in Seq(G) /\ Len(y) = Len(s) + Len(<<d>>)
        /\ \A i \in 1 .. Len(s) + Len(<<d>>) : y[i] = IF i <= Len(s) THEN s[i] ELSE <<d>>[i - Len(s)]
    BY <1>3, ConcatProperties
  <2>. QED BY <1>3, <2>1
<1>6. PICK k \in Nat :
         /\ Len(x) > MaxHistory + 1 => k = Len(x) - MaxHistory - 1
         /\ Len(x) <= MaxHistory + 1 => k = 0
         /\ Line!Newest(x) \in Seq(G) /\ Len(Line!Newest(x)) = Len(x) - k
         /\ \A i \in 1 .. Len(x) - k : Line!Newest(x)[i] = x[i + k]
  BY NewestElements
<1>7. PICK l \in Nat :
         /\ Len(y) > MaxHistory + 1 => l = Len(y) - MaxHistory - 1
         /\ Len(y) <= MaxHistory + 1 => l = 0
         /\ Line!Newest(y) \in Seq(G) /\ Len(Line!Newest(y)) = Len(y) - l
         /\ \A i \in 1 .. Len(y) - l : Line!Newest(y)[i] = y[i + l]
  BY NewestElements
<1>8. k + m = l /\ m <= Len(s) /\ k <= Len(x)
  <2>1. Len(y) = Len(s) + 1 /\ Len(x) = Len(s) - m + 1
    BY <1>1, <1>2, <1>4, <1>5
  <2>2. /\ Len(s) > MaxHistory + 1 => m = Len(s) - MaxHistory - 1
        /\ Len(s) <= MaxHistory + 1 => m = 0
        /\ Len(x) > MaxHistory + 1 => k = Len(x) - MaxHistory - 1
        /\ Len(x) <= MaxHistory + 1 => k = 0
        /\ Len(y) > MaxHistory + 1 => l = Len(y) - MaxHistory - 1
        /\ Len(y) <= MaxHistory + 1 => l = 0
    BY <1>1, <1>6, <1>7
  <2>. QED BY ONLY <1>2, <2>1, <2>2, HistoryAssumption, m \in Nat, k \in Nat, l \in Nat
<1>9. Len(x) - k = Len(y) - l /\ Len(x) - k \in Nat /\ Len(r) \in Nat
  <2>1. Len(x) = Len(r) + 1 /\ Len(y) = Len(s) + 1 /\ Len(r) = Len(s) - m
    BY <1>1, <1>4, <1>5
  <2>. QED BY ONLY <1>2, <1>8, <2>1, m \in Nat, k \in Nat, l \in Nat
<1>10. ASSUME NEW i \in 1 .. Len(x) - k PROVE x[i + k] = y[i + l]
  <2>1. i + k \in 1 .. Len(r) + 1 /\ i + l \in 1 .. Len(s) + 1 /\ i + l = i + k + m
    <3>1. Len(x) = Len(r) + 1 /\ Len(y) = Len(s) + 1
      BY <1>4, <1>5
    <3>. QED BY ONLY <1>2, <1>8, <1>9, <3>1, m \in Nat, k \in Nat, l \in Nat, i \in 1 .. Len(x) - k
  <2>2. CASE i + l <= Len(s)
    <3>1. i + k <= Len(r) /\ i + k \in 1 .. Len(s) - m
      BY <1>1, <1>2, <1>8, <2>1, <2>2
    <3>2. x[i + k] = s[i + k + m]
      BY <1>1, <1>4, <2>1, <3>1
    <3>. QED BY <1>5, <2>1, <2>2, <3>2
  <2>3. CASE i + l = Len(s) + 1
    <3>1. /\ ~(i + k <= Len(r)) /\ i + k - Len(r) = 1
          /\ ~(i + l <= Len(s)) /\ i + l - Len(s) = 1
      <4>1. Len(r) = Len(s) - m
        BY <1>1
      <4>. QED BY ONLY <1>2, <2>1, <2>3, <4>1, m \in Nat, k \in Nat, l \in Nat, i \in Int
    <3>2. x[i + k] = <<d>>[1] /\ y[i + l] = <<d>>[1]
      BY <1>4, <1>5, <2>1, <3>1
    <3>. QED BY <3>2
  <2>. QED BY <1>2, <2>1, <2>2, <2>3
<1>11. Line!Newest(x) = Line!Newest(y)
  <2>1. Len(Line!Newest(x)) = Len(Line!Newest(y))
    BY <1>6, <1>7, <1>9
  <2>2. \A i \in 1 .. Len(Line!Newest(x)) : Line!Newest(x)[i] = Line!Newest(y)[i]
    BY <1>6, <1>7, <1>9, <1>10
  <2>. QED BY <1>6, <1>7, <2>1, <2>2, SeqEqual
<1>. QED BY <1>4, <1>5, <1>11 DEF r

\* Short lists joined.
LEMMA TuplesJoin ==
    ASSUME NEW G, NEW b \in G, NEW d \in G
    PROVE  <<b>> \o <<d>> = <<b, d>> /\ <<b, b>> \o <<d>> = <<b, b, d>>
<1>1. PICK s \in Seq(G) : s = <<b>> /\ Len(s) = 1 /\ s[1] = b
  <2>1. <<b>> \in Seq(G) /\ Len(<<b>>) = 1 /\ <<b>>[1] = b
    OBVIOUS
  <2>. QED BY <2>1
<1>2. PICK t \in Seq(G) : t = <<b, b>> /\ Len(t) = 2 /\ t[1] = b /\ t[2] = b
  <2>1. <<b, b>> \in Seq(G) /\ Len(<<b, b>>) = 2 /\ <<b, b>>[1] = b /\ <<b, b>>[2] = b
    OBVIOUS
  <2>. QED BY <2>1
<1>3. PICK u \in Seq(G) : u = <<d>> /\ Len(u) = 1 /\ u[1] = d
  <2>1. <<d>> \in Seq(G) /\ Len(<<d>>) = 1 /\ <<d>>[1] = d
    OBVIOUS
  <2>. QED BY <2>1
<1>4. PICK v \in Seq(G) : v = <<b, d>> /\ Len(v) = 2 /\ v[1] = b /\ v[2] = d
  <2>1. <<b, d>> \in Seq(G) /\ Len(<<b, d>>) = 2 /\ <<b, d>>[1] = b /\ <<b, d>>[2] = d
    OBVIOUS
  <2>. QED BY <2>1
<1>5. PICK w \in Seq(G) : w = <<b, b, d>> /\ Len(w) = 3 /\ w[1] = b /\ w[2] = b /\ w[3] = d
  <2>1. /\ <<b, b, d>> \in Seq(G) /\ Len(<<b, b, d>>) = 3
        /\ <<b, b, d>>[1] = b /\ <<b, b, d>>[2] = b /\ <<b, b, d>>[3] = d
    OBVIOUS
  <2>. QED BY <2>1
<1>6. s \o u = v
  <2>1. /\ s \o u \in Seq(G) /\ Len(s \o u) = Len(s) + Len(u)
        /\ \A i \in 1 .. Len(s) + Len(u) : (s \o u)[i] = IF i <= Len(s) THEN s[i] ELSE u[i - Len(s)]
    BY ConcatProperties
  <2>2. Len(s \o u) = 2 /\ (s \o u)[1] = s[1] /\ (s \o u)[2] = u[1]
    BY <1>1, <1>3, <2>1
  <2>3. Len(s \o u) = Len(v) /\ \A i \in 1 .. 2 : (s \o u)[i] = v[i]
    BY <1>1, <1>3, <1>4, <2>2
  <2>. QED BY <2>1, <2>2, <2>3, SeqEqual
<1>7. t \o u = w
  <2>1. /\ t \o u \in Seq(G) /\ Len(t \o u) = Len(t) + Len(u)
        /\ \A i \in 1 .. Len(t) + Len(u) : (t \o u)[i] = IF i <= Len(t) THEN t[i] ELSE u[i - Len(t)]
    BY ConcatProperties
  <2>2. Len(t \o u) = Len(w) /\ \A i \in 1 .. Len(t \o u) : (t \o u)[i] = w[i]
    BY <1>2, <1>3, <1>5, <2>1
  <2>. QED BY <2>1, <2>2, SeqEqual
<1>. QED BY <1>1, <1>2, <1>3, <1>4, <1>5, <1>6, <1>7

\* The line after a gesture that has pushed the same snapshot twice.
LEMMA TwoPushes ==
    ASSUME NEW G, NEW p \in Seq(G), Len(p) <= MaxHistory, NEW b \in G, NEW d \in G
    PROVE  Row(Push(Push(p, b), b), d, << >>) = Line!Newest(p \o <<b, b, d>>)
<1>1. PICK q \in Seq(G) : q = Push(p, b) /\ Len(q) <= MaxHistory
  <2>1. Push(p, b) \in Seq(G) /\ Len(Push(p, b)) <= MaxHistory
    BY PushKeeps, HistoryAssumption
  <2>. QED BY <2>1
<1>2. /\ <<b>> \in Seq(G) /\ <<d>> \in Seq(G) /\ <<b, b>> \in Seq(G)
      /\ <<b>> \o <<d>> = <<b, d>> /\ <<b, b>> \o <<d>> = <<b, b, d>>
  <2>1. <<b>> \in Seq(G) /\ <<d>> \in Seq(G) /\ <<b, b>> \in Seq(G)
    OBVIOUS
  <2>. QED BY <2>1, TuplesJoin
<1>3. Row(Push(q, b), d, << >>) = Line!Newest(q \o <<b, d>>)
  BY <1>1, OnePush
<1>4. q \o <<b, d>> = (q \o <<b>>) \o <<d>>
  <2>1. q \in Seq(G) /\ <<b>> \in Seq(G) /\ <<d>> \in Seq(G)
    BY <1>2
  <2>2. (q \o <<b>>) \o <<d>> = q \o (<<b>> \o <<d>>)
    BY <2>1, ConcatAssociative
  <2>. QED BY <1>2, <2>2
<1>5. q \o <<b>> = Line!Newest(p \o <<b, b>>)
  <2>1. Row(q, b, << >>) = Line!Newest(p \o <<b, b>>)
    BY <1>1, OnePush
  <2>2. Row(q, b, << >>) = (q \o <<b>>) \o Reverse(<< >>)
    BY DEF Row
  <2>3. Reverse(<< >>) = << >>
    BY DEF Reverse
  <2>4. q \o <<b>> \in Seq(G)
    BY <1>2, ConcatProperties
  <2>5. (q \o <<b>>) \o << >> = q \o <<b>>
    BY <2>4, ConcatEmptySeq
  <2>. QED BY <2>1, <2>2, <2>3, <2>5
<1>6. PICK s \in Seq(G) : s = p \o <<b, b>>
  <2>1. p \o <<b, b>> \in Seq(G)
    BY <1>2, ConcatProperties
  <2>. QED BY <2>1
<1>7. Line!Newest(Line!Newest(s) \o <<d>>) = Line!Newest(s \o <<d>>)
  BY NewestOfNewest
<1>8. s \o <<d>> = p \o <<b, b, d>>
  <2>1. p \in Seq(G) /\ <<b, b>> \in Seq(G) /\ <<d>> \in Seq(G)
    BY <1>2
  <2>2. (p \o <<b, b>>) \o <<d>> = p \o (<<b, b>> \o <<d>>)
    BY <2>1, ConcatAssociative
  <2>. QED BY <1>2, <1>6, <2>2
<1>. QED BY <1>1, <1>3, <1>4, <1>5, <1>6, <1>7, <1>8
-----------------------------------------------------------------------------
\* What the editor keeps is made of drawings.
LEMMA DrawingsOnly ==
    EditorInv => /\ past \in Seq(Drawing) /\ Screen \in Drawing /\ future \in Seq(Drawing)
                 /\ Len(past) \in Nat /\ Len(past) <= MaxHistory
<1>. SUFFICES ASSUME EditorInv
              PROVE  /\ past \in Seq(Drawing) /\ Screen \in Drawing /\ future \in Seq(Drawing)
                     /\ Len(past) \in Nat /\ Len(past) <= MaxHistory
  OBVIOUS
<1>1. Sketches(numbered, nodeIdCounter) \subseteq Drawing
  BY DEF Sketches
<1>2. past \in Seq(Drawing) /\ Screen \in Drawing /\ future \in Seq(Drawing)
  BY <1>1, ScreenIsSketch, SeqMonotonic DEF EditorInv, HistoryInv
<1>3. Len(past) \in Nat /\ Len(future) \in Nat
  BY <1>2, LenProperties
<1>. QED BY <1>2, <1>3, HistoryAssumption DEF EditorInv, HistoryInv

\* What a gesture that commits adds to the line.
LEMMA CommitEnds ==
    ASSUME EditorInv, EditorInv', NEW b, b = Screen \/ b = Screen', future' = << >>
    PROVE  /\ (past \o <<Screen>> \o Reverse(future))[Len(past) + 1] = Screen
           /\ (past \o <<Screen>> \o Reverse(future))'[(Len(past) + 1)'] = Screen'
           /\ past' = Push(past, b) => Line!EndsWith(<<b, Screen'>>)
           /\ past' = Push(Push(past, b), b) => Line!EndsWith(<<b, b, Screen'>>)
<1>. DEFINE t == Row(past, Screen, future)
            u == Row(past', Screen', future')
<1>1. /\ past \in Seq(Drawing) /\ Screen \in Drawing /\ future \in Seq(Drawing)
      /\ Len(past) \in Nat /\ Len(past) <= MaxHistory
  BY DrawingsOnly
<1>2. /\ past' \in Seq(Drawing) /\ Screen' \in Drawing /\ Len(past') \in Nat
  <2>1. (EditorInv => /\ past \in Seq(Drawing) /\ Screen \in Drawing /\ future \in Seq(Drawing)
                      /\ Len(past) \in Nat /\ Len(past) <= MaxHistory)'
    BY DrawingsOnly, PTL
  <2>. QED BY <2>1
<1>3. SubSeq(t, 1, Len(past)) = past /\ t[Len(past) + 1] = Screen
  BY <1>1, BehindIsPast
<1>4. /\ Len(u) = Len(past') + 1
      /\ \A i \in 1 .. Len(past') + 1 : u[i] = IF i <= Len(past') THEN past'[i] ELSE Screen'
  BY <1>2, RowAtItsEnd
<1>5. u[Len(past') + 1] = Screen'
  <2>. HIDE DEF u
  <2>. QED BY <1>2, <1>4
<1>6. b \in Drawing
  BY <1>1, <1>2
<1>7. /\ past' = Push(past, b) => u = Line!Newest(past \o <<b, Screen'>>)
      /\ past' = Push(Push(past, b), b) => u = Line!Newest(past \o <<b, b, Screen'>>)
  <2>1. ASSUME past' = Push(past, b) PROVE u = Line!Newest(past \o <<b, Screen'>>)
    BY <1>1, <1>2, <1>6, <2>1, OnePush
  <2>2. ASSUME past' = Push(Push(past, b), b) PROVE u = Line!Newest(past \o <<b, b, Screen'>>)
    BY <1>1, <1>2, <1>6, <2>2, TwoPushes
  <2>. QED BY <2>1, <2>2
<1>8. Len(past) + 1 - 1 = Len(past)
  BY <1>1
<1>9. /\ t = past \o <<Screen>> \o Reverse(future)
      /\ u = (past \o <<Screen>> \o Reverse(future))'
      /\ (Len(past) + 1)' = Len(past') + 1
  BY DEF Row
<1>. HIDE DEF t, u
<1>10. Line!Behind = past
  BY <1>3, <1>8, <1>9 DEF Line!Behind
<1>. QED BY <1>3, <1>4, <1>5, <1>7, <1>9, <1>10 DEF Line!EndsWith

\* The refinement mapping, written as a row.
LEMMA LineIsRow ==
    /\ past \o <<Screen>> \o Reverse(future) = Row(past, Screen, future)
    /\ (past \o <<Screen>> \o Reverse(future))' = Row(past', Screen', future')
    /\ (Len(past) + 1)' = Len(past') + 1
  BY DEF Row

\* The same of the next state.
LEMMA DrawingsOnlyNext ==
    EditorInv' => /\ past' \in Seq(Drawing) /\ Screen' \in Drawing /\ future' \in Seq(Drawing)
                  /\ Len(past') \in Nat /\ Len(past') <= MaxHistory
<1>1. (EditorInv => /\ past \in Seq(Drawing) /\ Screen \in Drawing /\ future \in Seq(Drawing)
                    /\ Len(past) \in Nat /\ Len(past) <= MaxHistory)'
  BY DrawingsOnly, PTL
<1>. QED BY <1>1

\* Another canvas in the place of the marked one.
LEMMA MarkedReplaced ==
    ASSUME NEW G, NEW p \in Seq(G), NEW c \in G, NEW d \in G, NEW f \in Seq(G)
    PROVE  Row(p, d, f) = [Row(p, c, f) EXCEPT ![Len(p) + 1] = Row(p, d, f)[Len(p) + 1]]
<1>. DEFINE t == Row(p, c, f)
            u == Row(p, d, f)
            n == Len(p) + 1 + Len(f)
            k == Len(p) + 1
<1>1. /\ t \in Seq(G) /\ Len(t) = n
      /\ \A i \in 1 .. n : t[i] = IF i <= Len(p) THEN p[i]
                                  ELSE IF i = k THEN c
                                  ELSE f[Len(f) + Len(p) + 2 - i]
  BY RowElements
<1>2. /\ u \in Seq(G) /\ Len(u) = n
      /\ \A i \in 1 .. n : u[i] = IF i <= Len(p) THEN p[i]
                                  ELSE IF i = k THEN d
                                  ELSE f[Len(f) + Len(p) + 2 - i]
  BY RowElements
<1>. HIDE DEF t, u
<1>3. Len(p) \in Nat /\ Len(f) \in Nat
  BY LenProperties
<1>4. n \in Nat /\ k \in 1 .. n
  BY <1>3
<1>5. \A i \in 1 .. n : i # k => u[i] = t[i]
  BY <1>1, <1>2, <1>3
<1>. HIDE DEF n, k
<1>6. t \in [1 .. n -> G] /\ u \in [1 .. n -> G]
  BY <1>1, <1>2, LenProperties
<1>7. u = [t EXCEPT ![k] = u[k]]
  BY <1>4, <1>5, <1>6
<1>. QED BY <1>7 DEF t, u, k

\* A change of the screen alone amends the line.
LEMMA RenameIsAmend ==
    ASSUME EditorInv, EditorInv', UNCHANGED <<past, future>>
    PROVE  Line!Amend
<1>1. /\ past \in Seq(Drawing) /\ Screen \in Drawing /\ future \in Seq(Drawing)
      /\ Screen' \in Drawing
  BY DrawingsOnly, DrawingsOnlyNext
<1>2. Row(past, Screen', future) =
         [Row(past, Screen, future) EXCEPT ![Len(past) + 1] =
             Row(past, Screen', future)[Len(past) + 1]]
  BY <1>1, MarkedReplaced
<1>. QED BY <1>2, LineIsRow DEF Line!Amend

\* Every gesture is an edit of the line, or one of those that depart from it.
LEMMA EditIsOnLine ==
    ASSUME EditorInv, EditorInv', Edit
    PROVE  \/ Line!Edit /\ edits' = edits + 1
           \/ Line!EditTwice /\ \E x \in Ids : DeleteNode(x)
           \/ Line!Settle /\ \E x \in Ids, l \in Looks : DragNode(x, l)
           \/ Line!Amend /\ \E x \in Ids, l \in Looks : RenameNode(x, l)
<1>1. ASSUME CommitHistory(past, Screen), AnotherEdit
      PROVE  Line!Edit /\ edits' = edits + 1
  BY <1>1, CommitEnds DEF CommitHistory, AnotherEdit, Line!Edit
<1>2. ASSUME NEW x \in Ids, NEW l \in Looks, DragNode(x, l) PROVE Line!Settle
  <2>1. CommitHistory(past, Screen')
    BY <1>2 DEF DragNode, Screen
  <2>. QED BY <2>1, CommitEnds DEF CommitHistory, Line!Settle
<1>3. ASSUME NEW x \in Ids, NEW l \in Looks, RenameNode(x, l) PROVE Line!Amend
  BY <1>3, RenameIsAmend DEF RenameNode
<1>4. ASSUME NEW x \in Ids, DeleteNode(x)
      PROVE  Line!EditTwice \/ (Line!Edit /\ edits' = edits + 1)
  <2>1. CASE Incident(x) = {}
    BY <1>1, <1>4, <2>1 DEF DeleteNode
  <2>2. CASE Incident(x) # {}
    <3>1. CommitHistory(Push(past, Screen), Screen)
      BY <1>4, <2>2 DEF DeleteNode
    <3>. QED BY <3>1, CommitEnds DEF CommitHistory, Line!EditTwice
  <2>. QED BY <2>1, <2>2
<1>5. ASSUME NEW l, AddComponent(l) PROVE Line!Edit /\ edits' = edits + 1
  BY <1>1, <1>5 DEF AddComponent
<1>6. ASSUME NEW x, NEW y, Connect(x, y) PROVE Line!Edit /\ edits' = edits + 1
  BY <1>1, <1>6 DEF Connect
<1>7. ASSUME NEW e, DeleteEdge(e) PROVE Line!Edit /\ edits' = edits + 1
  BY <1>1, <1>7 DEF DeleteEdge
<1>8. ASSUME AutoLayout PROVE Line!Edit /\ edits' = edits + 1
  BY <1>1, <1>8 DEF AutoLayout
<1>. QED BY <1>2, <1>3, <1>4, <1>5, <1>6, <1>7, <1>8 DEF Edit

\* Undo and redo move the mark.
LEMMA UndoIsMove ==
    ASSUME EditorInv, Undo \/ Redo
    PROVE  (Line!Back /\ Undo) \/ (Line!Forward /\ Redo)
<1>1. /\ past \in Seq(Drawing) /\ Screen \in Drawing /\ future \in Seq(Drawing)
      /\ Len(past) \in Nat /\ Len(future) \in Nat
  BY DrawingsOnly, LenProperties
<1>2. ASSUME NEW c \in Drawing, Show(c) PROVE Screen' = c
  BY <1>2 DEF Show, Screen, Drawing
<1>3. Len(Row(past, Screen, future)) = Len(past) + 1 + Len(future)
  BY <1>1, RowElements
<1>4. /\ Row(past', Screen', future') = Row(past, Screen, future)
      /\ \/ Undo /\ Len(past) + 1 > 1 /\ Len(past') + 1 = Len(past) + 1 - 1
         \/ Redo /\ Len(past) + 1 < Len(past) + 1 + Len(future) /\ Len(past') + 1 = Len(past) + 1 + 1
  <2>1. CASE Undo
    <3>1. past # << >> /\ past' = Front(past) /\ future' = Append(future, Screen) /\ Show(Last(past))
      BY <2>1 DEF Undo
    <3>2. Last(past) \in Drawing /\ Len(Front(past)) = Len(past) - 1 /\ Len(past) # 0
      BY <1>1, <3>1, LastAndFront
    <3>3. Screen' = Last(past)
      BY <1>2, <3>1, <3>2
    <3>4. Row(past', Screen', future') = Row(past, Screen, future)
      BY <1>1, <3>1, <3>3, UndoMoves
    <3>. QED BY <1>1, <2>1, <3>1, <3>2, <3>4
  <2>2. CASE Redo
    <3>1. future # << >> /\ future' = Front(future) /\ past' = Append(past, Screen) /\ Show(Last(future))
      BY <2>2 DEF Redo
    <3>2. Last(future) \in Drawing /\ Len(future) # 0 /\ Len(Append(past, Screen)) = Len(past) + 1
      BY <1>1, <3>1, LastAndFront, AppendProperties
    <3>3. Screen' = Last(future)
      BY <1>2, <3>1, <3>2
    <3>4. Row(past', Screen', future') = Row(past, Screen, future)
      BY <1>1, <3>1, <3>3, RedoMoves
    <3>. QED BY <1>1, <2>2, <3>1, <3>2, <3>4
  <2>. QED BY <2>1, <2>2
<1>5. /\ UNCHANGED (past \o <<Screen>> \o Reverse(future))
      /\ \/ Undo /\ Len(past) + 1 > 1 /\ (Len(past) + 1)' = Len(past) + 1 - 1
         \/ /\ Redo /\ Len(past) + 1 < Len(past \o <<Screen>> \o Reverse(future))
            /\ (Len(past) + 1)' = Len(past) + 1 + 1
  BY <1>3, <1>4 DEF Row
<1>. QED BY <1>5 DEF Line!Back, Line!Forward

\* An editor with empty stacks starts a line.
LEMMA ReloadIsStart ==
    ASSUME EditorInv', past' = << >>, future' = << >>
    PROVE  Line!StartAgain
<1>1. Screen' \in Drawing /\ past' \in Seq(Drawing) /\ Len(past') = 0
  BY DrawingsOnlyNext, EmptySeq
<1>2. Len(Row(past', Screen', future')) = 0 + 1
  BY <1>1, RowAtItsEnd
<1>. QED BY <1>1, <1>2, LineIsRow DEF Line!StartAgain

\* The page begins with a line of one canvas.
LEMMA InitOnLine == Init => Line!Init
<1>. SUFFICES ASSUME Init PROVE Line!Init
  OBVIOUS
<1>1. EditorInv /\ past = << >> /\ future = << >>
  BY InitInv DEF Inv, Init, Loaded
<1>2. Screen \in Drawing /\ past \in Seq(Drawing) /\ Len(past) = 0
  BY <1>1, DrawingsOnly, EmptySeq
<1>3. Len(Row(past, Screen, future)) = 0 + 1
  BY <1>1, <1>2, RowAtItsEnd
<1>. QED BY <1>2, <1>3, LineIsRow DEF Line!Init

\* A step of the editor, as EditsAreLinear sorts them.
OnLine ==
    \/ Line!Edit /\ edits' = edits + 1
    \/ Line!Back /\ Undo
    \/ Line!Forward /\ Redo
    \/ Line!StartAgain /\ Mount(Screen')
    \/ Line!EditTwice /\ \E x \in Ids : DeleteNode(x)
    \/ Line!Settle /\ \E x \in Ids, l \in Looks : DragNode(x, l)
    \/ Line!Amend /\ \E x \in Ids, l \in Looks : RenameNode(x, l)

\* Every step of the page is one of the line, or leaves it alone.
LEMMA NextOnLine == Inv /\ Inv' /\ [Next]_vars => [OnLine]_<<nodes, edges, past, future>>
<1>. SUFFICES ASSUME Inv, Inv', [Next]_vars
              PROVE  OnLine \/ UNCHANGED <<nodes, edges, past, future>>
  OBVIOUS
<1>1. CASE EditCanvas
  BY <1>1, EditIsOnLine DEF EditCanvas, Inv, OnLine
<1>2. CASE UndoOrRedo
  BY <1>2, UndoIsMove DEF UndoOrRedo, Inv, OnLine
<1>3. CASE SaveScratchpad
  BY <1>3 DEF SaveScratchpad, Lowered
<1>4. ASSUME NEW s \in Saves, HandleSave(s) \/ Arrive(s) \/ Return(s) \/ Fail(s)
      PROVE  UNCHANGED <<nodes, edges, past, future>>
  BY <1>4 DEF HandleSave, Arrive, Return, Fail, Lowered, editorVars
<1>5. CASE OtherTab
  BY <1>5 DEF OtherTab, editorVars
<1>6. CASE Reload
  <2>1. PICK ws \in {stored, Scratchpad} : Mount(ws)
    BY <1>6 DEF Reload
  <2>2. Screen'.nodes = ws.nodes /\ Screen'.edges = ws.edges
    BY <2>1 DEF Mount, Screen
  <2>3. Mount(Screen')
    BY <2>1, <2>2 DEF Mount
  <2>. QED BY <2>1, <2>3, ReloadIsStart DEF Mount, Inv, OnLine
<1>7. CASE UNCHANGED vars
  BY <1>7 DEF vars, editorVars
<1>. QED BY <1>1, <1>2, <1>3, <1>4, <1>5, <1>6, <1>7 DEF Next

(***************************************************************************)
(* The editor keeps the line of EditHistory: the stacks and the screen are *)
(* a line along which undo and redo move, and to which an edit adds what   *)
(* one undo reverses, but for nodes deleted with their edges, drags and    *)
(* labels edited in place.                                                 *)
(***************************************************************************)
THEOREM UndoLosesNothing == Spec => EditsAreLinear
<1>1. Inv /\ Inv' /\ [Next]_vars =>
         [\/ Line!Edit /\ edits' = edits + 1
          \/ Line!Back /\ Undo
          \/ Line!Forward /\ Redo
          \/ Line!StartAgain /\ Mount(Screen')
          \/ Line!EditTwice /\ \E x \in Ids : DeleteNode(x)
          \/ Line!Settle /\ \E x \in Ids, l \in Looks : DragNode(x, l)
          \/ Line!Amend /\ \E x \in Ids, l \in Looks : RenameNode(x, l)
         ]_<<nodes, edges, past, future>>
  BY NextOnLine DEF OnLine
<1>. QED BY <1>1, InitOnLine, EditorIsSound, PTL DEF Spec, EditsAreLinear
=============================================================================
