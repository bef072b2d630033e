--------------------------- MODULE Genome_proofs ---------------------------
(***************************************************************************)
(* Proofs about Genome for every set of node ids, tools, components,       *)
(* statuses and extra channels.  What each patch does to a genome is a     *)
(* lemma about a genome value; the theorems put them together.             *)
(***************************************************************************)
EXTENDS Genome, FiniteSetTheorems, WellFoundedInduction, TLAPS

\* The inductive invariant, of a genome value: besides the properties, a
\* promoted node's operation is the default one (so no removal of children can
\* give it code-writing back).
PromotedHasNoOperation(g) ==
    \A n \in Nodes(g) : g.nodes[n].promoted => g.nodes[n].leaf_operation = NoOperation

Sound(g) ==
    /\ IsGenome(g)
    /\ LinksAgree(g)
    /\ Grounded(g)
    /\ BundlesLinked(g)
    /\ PromotedHasNoOperation(g)
    /\ IsFiniteSet(Nodes(g))

IInv == Sound(genome)

-----------------------------------------------------------------------------
(* Nodes and bundles.                                                      *)

\* A new leaf is a node whose parent may be set.
LEMMA NewLeafTyped ==
    ASSUME NEW op \in Operation \cup {NoOperation}
    PROVE  /\ NewLeaf(op) \in Node
           /\ NewLeaf(op).children = {}
           /\ NewLeaf(op).promoted = FALSE
           /\ NewLeaf(op).leaf_operation = op
  BY StatusesAreKnown DEF NewLeaf, Node

\* A node that a patch brings has no place in a tree yet.
LEMMA NewNodeTyped ==
    ASSUME NEW node \in NewNode
    PROVE  node \in Node /\ node.children = {} /\ node.promoted = FALSE
  BY DEF NewNode, Node

\* A standard bundle's channels are channels, each named by the child.
LEMMA BundleTyped ==
    ASSUME NEW parent \in NodeId, NEW child \in NodeId
    PROVE  /\ StandardBundle(parent, child) \subseteq Channel
           /\ \A ch \in StandardBundle(parent, child) :
                 \E type \in ChannelType : ch.id = <<child, type>>
  BY DEF StandardBundle, Channel

-----------------------------------------------------------------------------
(* A change of one node that keeps its place in the tree.                  *)

\* Replacing a node by one with the same links keeps the genome sound.
LEMMA WithNodeSound ==
    ASSUME NEW g, Sound(g), NEW n \in Nodes(g), NEW node \in Node,
           node.parent = g.nodes[n].parent, node.children = g.nodes[n].children,
           node.promoted => node.leaf_operation = NoOperation
    PROVE  Sound(WithNode(g, n, node))
<1> DEFINE h == WithNode(g, n, node)
<1>1. /\ h = [nodes |-> h.nodes, channels |-> h.channels]
      /\ h.nodes = [g.nodes EXCEPT ![n] = node]
      /\ h.channels = g.channels
      /\ Nodes(h) = Nodes(g)
  BY DEF WithNode, Nodes
<1>2. \A m \in Nodes(g) : /\ h.nodes[m].parent = g.nodes[m].parent
                          /\ h.nodes[m].children = g.nodes[m].children
  BY <1>1 DEF Nodes
<1>3. IsGenome(h)
  BY <1>1 DEF Sound, IsGenome
<1>4. LinksAgree(h)
  BY <1>1, <1>2 DEF Sound, LinksAgree, IsGenome
<1>5. Grounded(h)
  BY <1>1, <1>2 DEF Sound, Grounded
<1>6. BundlesLinked(h)
  BY <1>1, <1>2 DEF Sound, BundlesLinked
<1>7. PromotedHasNoOperation(h)
  BY <1>1 DEF Sound, PromotedHasNoOperation, Nodes
<1>8. IsFiniteSet(Nodes(h))
  BY <1>1 DEF Sound
<1>. QED
  BY <1>3, <1>4, <1>5, <1>6, <1>7, <1>8 DEF Sound

-----------------------------------------------------------------------------
(* add_child.                                                              *)

\* The links and the labels after add_child.
LEMMA WithChildFacts ==
    ASSUME NEW g, Sound(g), NEW parent, NEW child \in NodeId, CanAddChild(g, parent, child),
           NEW node \in Node
    PROVE  LET h == WithChild(g, parent, child, node) IN
           /\ h = [nodes |-> h.nodes, channels |-> h.channels]
           /\ Nodes(h) = Nodes(g) \cup {child}
           /\ h.nodes = [n \in Nodes(h) |-> h.nodes[n]]
           /\ h.nodes[child] = [node EXCEPT !.parent = parent]
           /\ h.nodes[parent] = [g.nodes[parent] EXCEPT !.children = @ \cup {child}]
           /\ \A n \in Nodes(g) \ {parent} : h.nodes[n] = g.nodes[n]
           /\ h.channels = g.channels \cup StandardBundle(parent, child)
  BY DEF WithChild, CanAddChild, Nodes

\* add_child keeps a genome sound.
LEMMA WithChildSound ==
    ASSUME NEW g, Sound(g), NEW parent, NEW child \in NodeId, CanAddChild(g, parent, child),
           NEW node \in Node, node.children = {},
           node.promoted => node.leaf_operation = NoOperation
    PROVE  Sound(WithChild(g, parent, child, node))
<1> DEFINE h == WithChild(g, parent, child, node)
<1>1. /\ h = [nodes |-> h.nodes, channels |-> h.channels]
      /\ Nodes(h) = Nodes(g) \cup {child}
      /\ h.nodes = [n \in Nodes(h) |-> h.nodes[n]]
      /\ h.nodes[child] = [node EXCEPT !.parent = parent]
      /\ h.nodes[parent] = [g.nodes[parent] EXCEPT !.children = @ \cup {child}]
      /\ \A n \in Nodes(g) \ {parent} : h.nodes[n] = g.nodes[n]
      /\ h.channels = g.channels \cup StandardBundle(parent, child)
  BY WithChildFacts
<1>2. /\ parent \in Nodes(g) /\ child \notin Nodes(g) /\ parent # child
      /\ Root \in Nodes(g) /\ Nodes(g) \subseteq NodeId /\ parent \in NodeId
      /\ \A n \in Nodes(g) : g.nodes[n] \in Node
  BY DEF CanAddChild, Sound, IsGenome
<1>3. /\ h.nodes[child] \in Node
      /\ h.nodes[child].parent = parent /\ h.nodes[child].children = {}
      /\ h.nodes[child].promoted = node.promoted
      /\ h.nodes[child].leaf_operation = node.leaf_operation
  BY <1>1, <1>2 DEF Node
<1>4. /\ h.nodes[parent] \in Node
      /\ h.nodes[parent].parent = g.nodes[parent].parent
      /\ h.nodes[parent].children = g.nodes[parent].children \cup {child}
      /\ h.nodes[parent].promoted = g.nodes[parent].promoted
      /\ h.nodes[parent].leaf_operation = g.nodes[parent].leaf_operation
  BY <1>1, <1>2 DEF Node
<1>5. \A n \in Nodes(g) : /\ h.nodes[n].parent = g.nodes[n].parent
                          /\ h.nodes[n].promoted = g.nodes[n].promoted
                          /\ h.nodes[n].leaf_operation = g.nodes[n].leaf_operation
  BY <1>1, <1>4
<1>6. IsGenome(h)
  <2>1. \A n \in Nodes(h) : h.nodes[n] \in Node
    BY <1>1, <1>2, <1>3, <1>4
  <2>2. h.channels \subseteq Channel
    BY <1>1, <1>2, BundleTyped DEF Sound, IsGenome
  <2>3. h.nodes \in [Nodes(h) -> Node]
    BY <1>1, <2>1
  <2>. QED
    BY <1>1, <1>2, <2>2, <2>3 DEF IsGenome
<1>7. LinksAgree(h)
  <2>1. h.nodes[Root].parent = None
    BY <1>2, <1>5 DEF Sound, LinksAgree
  <2>2. ASSUME NEW n \in Nodes(h) \ {Root}
        PROVE  /\ h.nodes[n].parent \in Nodes(h)
               /\ n \in h.nodes[h.nodes[n].parent].children
    <3>1. CASE n = child
      BY <3>1, <1>1, <1>2, <1>3, <1>4
    <3>2. CASE n # child
      <4>1. n \in Nodes(g) \ {Root}
        BY <3>2, <1>1
      <4>2. /\ h.nodes[n].parent = g.nodes[n].parent
            /\ g.nodes[n].parent \in Nodes(g)
            /\ n \in g.nodes[g.nodes[n].parent].children
        BY <4>1, <1>5 DEF Sound, LinksAgree
      <4>. QED
        BY <4>2, <1>1, <1>4
    <3>. QED
      BY <3>1, <3>2
  <2>3. ASSUME NEW n \in Nodes(h), NEW c \in h.nodes[n].children
        PROVE  c \in Nodes(h) \ {Root} /\ h.nodes[c].parent = n
    <3>1. CASE c = child /\ n = parent
      BY <3>1, <1>1, <1>2, <1>3
    <3>2. CASE ~(c = child /\ n = parent)
      <4>1. n \in Nodes(g) /\ c \in g.nodes[n].children
        BY <3>2, <1>1, <1>3, <1>4
      <4>2. c \in Nodes(g) \ {Root} /\ g.nodes[c].parent = n
        BY <4>1 DEF Sound, LinksAgree
      <4>. QED
        BY <4>2, <1>1, <1>5
    <3>. QED
      BY <3>1, <3>2
  <2>. QED
    BY <2>1, <2>2, <2>3 DEF LinksAgree
<1>8. Grounded(h)
  <2>1. SUFFICES ASSUME NEW S \in SUBSET (Nodes(h) \ {Root}), S # {}
                 PROVE  \E n \in S : h.nodes[n].parent \notin S
    BY DEF Grounded
  <2>2. CASE S \subseteq {child}
    BY <2>2, <2>1, <1>2, <1>3
  <2>3. CASE ~(S \subseteq {child})
    <3> DEFINE T == S \ {child}
    <3>1. T \in SUBSET (Nodes(g) \ {Root}) /\ T # {}
      BY <2>3, <2>1, <1>1
    <3>2. PICK n \in T : g.nodes[n].parent \notin T
      BY <3>1 DEF Sound, Grounded
    <3>3. n \in Nodes(g) /\ g.nodes[n].parent \in Nodes(g)
      BY <3>1 DEF Sound, LinksAgree
    <3>4. h.nodes[n].parent \notin S
      BY <3>2, <3>3, <1>2, <1>5
    <3>. QED
      BY <3>4
  <2>. QED
    BY <2>2, <2>3
<1>9. BundlesLinked(h)
  <2>1. SUFFICES ASSUME NEW ch \in h.channels, NEW n \in NodeId, NEW type \in ChannelType,
                        ch.id = <<n, type>>
                 PROVE  /\ n \in Nodes(h) \ {Root}
                        /\ ch \in StandardBundle(h.nodes[n].parent, n)
    BY DEF BundlesLinked
  <2>2. CASE ch \in g.channels
    <3>1. n \in Nodes(g) \ {Root} /\ ch \in StandardBundle(g.nodes[n].parent, n)
      BY <2>2, <2>1 DEF Sound, BundlesLinked
    <3>. QED
      BY <3>1, <1>1, <1>5
  <2>3. CASE ch \in StandardBundle(parent, child)
    <3>1. n = child
      BY <2>3, <2>1, <1>2, BundleTyped
    <3>. QED
      BY <3>1, <2>3, <1>1, <1>2, <1>3
  <2>. QED
    BY <2>2, <2>3, <1>1
<1>10. PromotedHasNoOperation(h)
  BY <1>1, <1>3, <1>5 DEF Sound, PromotedHasNoOperation
<1>11. IsFiniteSet(Nodes(h))
  BY <1>1, FS_AddElement DEF Sound
<1>. QED
  BY <1>6, <1>7, <1>8, <1>9, <1>10, <1>11 DEF Sound

-----------------------------------------------------------------------------
(* PromoteLeafToMetasystem.                                                *)

\* A promotion keeps a genome sound: it adds the extracted child, which takes
\* the operation, and then changes the node in place.
LEMMA PromotedSound ==
    ASSUME NEW g, Sound(g), NEW n, CanPromote(g, n),
           NEW child \in NodeId, CanAddChild(g, n, child)
    PROVE  Sound(Promoted(g, n, child))
<1> DEFINE old == g.nodes[n]
           extracted == [NewLeaf(old.leaf_operation) EXCEPT
                            !.tools = old.tools, !.prompt = old.prompt,
                            !.promoted = old.promoted]
           h == WithChild(g, n, child, extracted)
           node == [h.nodes[n] EXCEPT !.leaf_operation = NoOperation, !.tools = {},
                                      !.prompt = {}, !.promoted = TRUE]
<1>1. n \in Nodes(g) /\ old \in Node
  BY DEF CanPromote, Sound, IsGenome
<1>2. /\ extracted \in Node /\ extracted.children = {}
      /\ extracted.promoted = old.promoted
      /\ extracted.leaf_operation = old.leaf_operation
  <2>1. old.leaf_operation \in Operation \cup {NoOperation}
    BY <1>1 DEF Node
  <2>2. /\ NewLeaf(old.leaf_operation) \in Node
        /\ NewLeaf(old.leaf_operation).children = {}
        /\ NewLeaf(old.leaf_operation).leaf_operation = old.leaf_operation
    BY <2>1, NewLeafTyped
  <2>. QED
    BY <1>1, <2>2 DEF Node
<1>3. extracted.promoted => extracted.leaf_operation = NoOperation
  BY <1>1, <1>2 DEF Sound, PromotedHasNoOperation
<1>4. Sound(h)
  BY <1>2, <1>3, WithChildSound
<1>5. n \in Nodes(h) /\ h.nodes[n] \in Node
  <2>1. n \in Nodes(h)
    <3>. HIDE DEF extracted
    <3>. QED
      BY <1>1 DEF WithChild, Nodes
  <2>. QED
    BY <2>1, <1>4 DEF Sound, IsGenome
<1>6. /\ node \in Node /\ node.leaf_operation = NoOperation
      /\ node.parent = h.nodes[n].parent /\ node.children = h.nodes[n].children
  BY <1>5 DEF Node
<1>7. Promoted(g, n, child) = WithNode(h, n, node)
  BY DEF Promoted
<1>. HIDE DEF h, node
<1>. QED
  BY <1>4, <1>5, <1>6, <1>7, WithNodeSound

-----------------------------------------------------------------------------
(* remove_subtree.                                                         *)

\* A subtree holds its root and the children of whatever it holds, and nothing
\* that some set closed under children leaves out.
LEMMA SubtreeClosed ==
    ASSUME NEW g, LinksAgree(g), NEW n \in Nodes(g)
    PROVE  /\ Subtree(g, n) \subseteq Nodes(g)
           /\ n \in Subtree(g, n)
           /\ ClosedUnderChildren(g, Subtree(g, n))
<1>1. Subtree(g, n) \subseteq Nodes(g) /\ n \in Subtree(g, n)
  BY DEF Subtree
<1>2. ASSUME NEW m \in Subtree(g, n), NEW c \in g.nodes[m].children
      PROVE  c \in Subtree(g, n)
  <2>1. c \in Nodes(g)
    BY <1>1 DEF LinksAgree
  <2>2. ASSUME NEW S \in SUBSET Nodes(g), n \in S, ClosedUnderChildren(g, S)
        PROVE  c \in S
    BY <2>2 DEF Subtree, ClosedUnderChildren
  <2>. QED
    BY <2>1, <2>2 DEF Subtree
<1>. QED
  BY <1>1, <1>2 DEF ClosedUnderChildren

LEMMA SubtreeLeast ==
    ASSUME NEW g, NEW n, NEW S \in SUBSET Nodes(g), n \in S, ClosedUnderChildren(g, S)
    PROVE  Subtree(g, n) \subseteq S
  BY DEF Subtree

\* A subtree other than the whole tree holds no root, and among its nodes only
\* its own root has a parent outside it.
LEMMA SubtreeBoundary ==
    ASSUME NEW g, Sound(g), NEW n \in Nodes(g) \ {Root}
    PROVE  /\ Root \notin Subtree(g, n)
           /\ \A c \in Subtree(g, n) \ {n} : g.nodes[c].parent \in Subtree(g, n)
<1> DEFINE R == Subtree(g, n)
<1>1. /\ R \subseteq Nodes(g) /\ n \in R
      /\ \A m \in R : g.nodes[m].children \subseteq R
  BY SubtreeClosed DEF Sound, ClosedUnderChildren
<1>. HIDE DEF R
<1>2. ASSUME NEW c \in R \ {n}, g.nodes[c].parent \notin R \/ c = Root
      PROVE  FALSE
  <2>1. ASSUME NEW m \in R \ {c}
        PROVE  g.nodes[m].children \subseteq R \ {c}
    BY <1>1, <1>2 DEF Sound, LinksAgree
  <2>2. ClosedUnderChildren(g, R \ {c}) /\ n \in R \ {c} /\ R \ {c} \in SUBSET Nodes(g)
    BY <2>1, <1>1 DEF ClosedUnderChildren
  <2>3. R \subseteq R \ {c}
    BY <2>2, SubtreeLeast DEF R
  <2>. QED
    BY <2>3
<1>. QED
  BY <1>2 DEF R

\* remove_subtree keeps a genome sound.
LEMMA WithoutSound ==
    ASSUME NEW g, Sound(g), NEW n, CanRemove(g, n)
    PROVE  Sound(Without(g, n))
<1> DEFINE R == Subtree(g, n)
           h == Without(g, n)
<1>1. n \in Nodes(g) \ {Root} /\ Root \in Nodes(g) /\ Nodes(g) \subseteq NodeId
  BY DEF CanRemove, Sound, IsGenome
<1>2. /\ h = [nodes |-> h.nodes, channels |-> h.channels]
      /\ Nodes(h) = Nodes(g) \ R
      /\ h.nodes = [m \in Nodes(h) |-> h.nodes[m]]
      /\ \A m \in Nodes(h) : h.nodes[m] = [g.nodes[m] EXCEPT !.children = @ \ {n}]
      /\ h.channels = {ch \in g.channels : ch.from \notin R /\ ch.to \notin R}
  BY DEF Without, Nodes
<1>3. /\ R \subseteq Nodes(g) /\ n \in R /\ Root \notin R
      /\ \A m \in R : g.nodes[m].children \subseteq R
      /\ \A c \in R \ {n} : g.nodes[c].parent \in R
  BY <1>1, SubtreeClosed, SubtreeBoundary DEF Sound, ClosedUnderChildren
<1>. HIDE DEF R, h
<1>4. \A m \in Nodes(g) : g.nodes[m] \in Node
  BY DEF Sound, IsGenome
<1>5. ASSUME NEW m \in Nodes(h)
      PROVE  /\ m \in Nodes(g) /\ m \notin R
             /\ h.nodes[m] \in Node
             /\ h.nodes[m].parent = g.nodes[m].parent
             /\ h.nodes[m].children = g.nodes[m].children \ {n}
             /\ h.nodes[m].promoted = g.nodes[m].promoted
             /\ h.nodes[m].leaf_operation = g.nodes[m].leaf_operation
  <2>1. /\ m \in Nodes(g) /\ m \notin R /\ g.nodes[m] \in Node
        /\ h.nodes[m] = [g.nodes[m] EXCEPT !.children = @ \ {n}]
    BY <1>2, <1>4
  <2>2. g.nodes[m].children \ {n} \in SUBSET NodeId
    BY <2>1 DEF Node
  <2>. QED
    BY <2>1, <2>2 DEF Node
<1>6. IsGenome(h)
  <2>1. h.nodes \in [Nodes(h) -> Node]
    BY <1>2, <1>5
  <2>2. h.channels \subseteq Channel
    BY <1>2 DEF Sound, IsGenome
  <2>. QED
    BY <2>1, <2>2, <1>1, <1>2, <1>3 DEF IsGenome
<1>7. \* a survivor's parent survives: its children in the subtree are only n
      ASSUME NEW m \in Nodes(h) \ {Root}
      PROVE  g.nodes[m].parent \in Nodes(h)
  <2>1. g.nodes[m].parent \in Nodes(g) /\ m \in g.nodes[g.nodes[m].parent].children
    BY <1>5 DEF Sound, LinksAgree
  <2>. QED
    BY <2>1, <1>2, <1>3, <1>5
<1>8. LinksAgree(h)
  <2>1. h.nodes[Root].parent = None
    BY <1>1, <1>2, <1>3, <1>5 DEF Sound, LinksAgree
  <2>2. ASSUME NEW m \in Nodes(h) \ {Root}
        PROVE  /\ h.nodes[m].parent \in Nodes(h)
               /\ m \in h.nodes[h.nodes[m].parent].children
    <3>1. m \in g.nodes[g.nodes[m].parent].children /\ m # n
      BY <1>3, <1>5 DEF Sound, LinksAgree
    <3>. QED
      BY <3>1, <1>5, <1>7
  <2>3. ASSUME NEW m \in Nodes(h), NEW c \in h.nodes[m].children
        PROVE  c \in Nodes(h) \ {Root} /\ h.nodes[c].parent = m
    <3>1. c \in g.nodes[m].children /\ c # n
      BY <1>5
    <3>2. c \in Nodes(g) \ {Root} /\ g.nodes[c].parent = m
      BY <3>1, <1>5 DEF Sound, LinksAgree
    <3>3. c \notin R
      BY <3>1, <3>2, <1>3, <1>5
    <3>. QED
      BY <3>2, <3>3, <1>2, <1>5
  <2>. QED
    BY <2>1, <2>2, <2>3 DEF LinksAgree
<1>9. Grounded(h)
  <2>1. SUFFICES ASSUME NEW S \in SUBSET (Nodes(h) \ {Root}), S # {}
                 PROVE  \E m \in S : h.nodes[m].parent \notin S
    BY DEF Grounded
  <2>2. S \in SUBSET (Nodes(g) \ {Root})
    BY <1>2
  <2>3. PICK m \in S : g.nodes[m].parent \notin S
    BY <2>1, <2>2 DEF Sound, Grounded
  <2>. QED
    BY <2>3, <1>5
<1>10. BundlesLinked(h)
  <2>1. SUFFICES ASSUME NEW ch \in h.channels, NEW m \in NodeId, NEW type \in ChannelType,
                        ch.id = <<m, type>>
                 PROVE  /\ m \in Nodes(h) \ {Root}
                        /\ ch \in StandardBundle(h.nodes[m].parent, m)
    BY DEF BundlesLinked
  <2>2. /\ ch \in g.channels /\ ch.from \notin R /\ ch.to \notin R
        /\ m \in Nodes(g) \ {Root} /\ ch \in StandardBundle(g.nodes[m].parent, m)
    BY <2>1, <1>2 DEF Sound, BundlesLinked
  <2>3. ch.from = m \/ ch.to = m
    BY <2>2 DEF StandardBundle
  <2>4. m \in Nodes(h)
    BY <2>2, <2>3, <1>2
  <2>. QED
    BY <2>2, <2>4, <1>5
<1>11. PromotedHasNoOperation(h)
  BY <1>5 DEF Sound, PromotedHasNoOperation
<1>12. IsFiniteSet(Nodes(h))
  <2>1. Nodes(h) \in SUBSET Nodes(g) /\ IsFiniteSet(Nodes(g))
    BY <1>2 DEF Sound
  <2> QED BY <2>1, FS_Subset
<1>13. Sound(h)
  BY <1>6, <1>8, <1>9, <1>10, <1>11, <1>12 DEF Sound
<1>. QED
  BY <1>13 DEF h

-----------------------------------------------------------------------------
(* The walks.                                                              *)

\* The root's subtree is the whole tree.
LEMMA RootSubtree ==
    ASSUME NEW g, Sound(g)
    PROVE  Subtree(g, Root) = Nodes(g)
<1> DEFINE S == Nodes(g) \ Subtree(g, Root)
<1>1. /\ Subtree(g, Root) \subseteq Nodes(g) /\ Root \in Subtree(g, Root)
      /\ \A m \in Subtree(g, Root) : g.nodes[m].children \subseteq Subtree(g, Root)
  BY SubtreeClosed DEF Sound, IsGenome, ClosedUnderChildren
<1>2. CASE S # {}
  <2>1. PICK n \in S : g.nodes[n].parent \notin S
    BY <1>1, <1>2 DEF Sound, Grounded
  <2>2. g.nodes[n].parent \in Subtree(g, Root) /\ n \in g.nodes[g.nodes[n].parent].children
    BY <1>1, <2>1 DEF Sound, LinksAgree
  <2> QED BY <1>1, <2>1, <2>2
<1> QED BY <1>1, <1>2

\* No node is in the subtree of its child.
LEMMA NoCycle ==
    ASSUME NEW g, Sound(g), NEW n \in Nodes(g), NEW c \in g.nodes[n].children
    PROVE  n \notin Subtree(g, c)
<1>1. c \in Nodes(g) \ {Root} /\ g.nodes[c].parent = n
  BY DEF Sound, LinksAgree
<1>2. /\ Subtree(g, c) \subseteq Nodes(g) /\ c \in Subtree(g, c) /\ Root \notin Subtree(g, c)
      /\ \A m \in Subtree(g, c) \ {c} : g.nodes[m].parent \in Subtree(g, c)
  BY <1>1, SubtreeClosed, SubtreeBoundary DEF Sound
<1>3. Subtree(g, c) \in SUBSET (Nodes(g) \ {Root}) /\ Subtree(g, c) # {}
  BY <1>2
<1>4. PICK m \in Subtree(g, c) : g.nodes[m].parent \notin Subtree(g, c)
  BY <1>3 DEF Sound, Grounded
<1> QED BY <1>1, <1>2, <1>4

\* A subtree is its root and the subtrees of the root's children.
LEMMA SubtreeUnfolds ==
    ASSUME NEW g, Sound(g), NEW n \in Nodes(g)
    PROVE  Subtree(g, n) = {n} \cup UNION {Subtree(g, c) : c \in g.nodes[n].children}
<1> DEFINE U == {n} \cup UNION {Subtree(g, c) : c \in g.nodes[n].children}
<1>1. \A m \in Nodes(g) : /\ Subtree(g, m) \subseteq Nodes(g) /\ m \in Subtree(g, m)
                          /\ \A k \in Subtree(g, m) : g.nodes[k].children \subseteq Subtree(g, m)
  BY SubtreeClosed DEF Sound, ClosedUnderChildren
<1>2. g.nodes[n].children \subseteq Nodes(g)
  BY DEF Sound, LinksAgree
<1>3. U \subseteq Subtree(g, n)
  <2>1. ASSUME NEW c \in g.nodes[n].children PROVE Subtree(g, c) \subseteq Subtree(g, n)
    BY <1>1, SubtreeLeast DEF ClosedUnderChildren
  <2> QED BY <1>1, <2>1
<1>4. U \in SUBSET Nodes(g) /\ n \in U /\ ClosedUnderChildren(g, U)
  <2>1. U \subseteq Nodes(g)
    BY <1>1, <1>2
  <2>2. ASSUME NEW m \in U, NEW k \in g.nodes[m].children PROVE k \in U
    <3>1. CASE m = n
      BY <1>1, <1>2, <3>1
    <3>2. ASSUME NEW c \in g.nodes[n].children, m \in Subtree(g, c) PROVE k \in U
      BY <1>1, <1>2, <3>2
    <3> QED BY <3>1, <3>2
  <2> QED BY <2>1, <2>2 DEF ClosedUnderChildren
<1> HIDE DEF U
<1>5. Subtree(g, n) \subseteq U
  BY <1>4, SubtreeLeast
<1> QED BY <1>3, <1>5 DEF U

\* Some node of any set of nodes has no child in it.
LEMMA LowestNode ==
    ASSUME NEW g, Sound(g), NEW S \in SUBSET Nodes(g), S # {}
    PROVE  \E n \in S : g.nodes[n].children \cap S = {}
<1> DEFINE size(n) == Cardinality(Subtree(g, n))
           D == {size(n) : n \in S}
           L == OpToRel(<, Nat)
<1>1. ASSUME NEW n \in Nodes(g)
      PROVE  IsFiniteSet(Subtree(g, n)) /\ size(n) \in Nat
  <2>1. Subtree(g, n) \in SUBSET Nodes(g)
    BY SubtreeClosed DEF Sound
  <2> QED BY <2>1, FS_Subset, FS_CardinalityType DEF Sound
<1>2. D \subseteq Nat /\ D # {}
  BY <1>1
<1>3. IsWellFoundedOn(L, Nat)
  BY NatLessThanWellFounded
<1>4. PICK k \in D : \A j \in D : ~(<<j, k>> \in L)
  <2> HIDE DEF D, L
  <2> QED BY <1>2, <1>3, WFMin
<1>5. PICK n \in S : k = size(n)
  BY <1>4
<1>6. ASSUME NEW c \in g.nodes[n].children, c \in S PROVE FALSE
  <2>1. /\ Subtree(g, c) \in SUBSET Subtree(g, n) /\ n \in Subtree(g, n)
        /\ n \notin Subtree(g, c)
    BY <1>6, SubtreeUnfolds, NoCycle
  <2>2. size(c) <= size(n) /\ size(c) # size(n)
    BY <1>1, <2>1, FS_Subset
  <2>3. ~(<<size(c), size(n)>> \in L)
    BY <1>4, <1>5, <1>6
  <2>4. size(c) \in Nat /\ size(n) \in Nat
    BY <1>1, <1>6
  <2> HIDE DEF size
  <2> QED BY <2>2, <2>3, <2>4 DEF OpToRel
<1> QED BY <1>6

\* What collect_subtree's recursion says has one solution: the subtrees.
LEMMA CollectedIsSubtree ==
    ASSUME NEW g, Sound(g)
    PROVE  CollectSubtree(g) = [n \in Nodes(g) |-> Subtree(g, n)]
<1> DEFINE Solves(f) == f = [n \in Nodes(g) |-> {n} \cup UNION {f[c] : c \in g.nodes[n].children}]
           sub == [n \in Nodes(g) |-> Subtree(g, n)]
<1>1. \A n \in Nodes(g) : g.nodes[n].children \subseteq Nodes(g)
  BY DEF Sound, LinksAgree
<1>2. Solves(sub)
  <2>1. ASSUME NEW n \in Nodes(g)
        PROVE  Subtree(g, n) = {n} \cup UNION {sub[c] : c \in g.nodes[n].children}
    <3>1. {sub[c] : c \in g.nodes[n].children} = {Subtree(g, c) : c \in g.nodes[n].children}
      BY <1>1
    <3> QED BY <3>1, SubtreeUnfolds
  <2> QED BY <2>1
<1>3. ASSUME NEW f, Solves(f) PROVE f = sub
  <2> DEFINE S == {n \in Nodes(g) : f[n] # Subtree(g, n)}
  <2>0. \A n \in Nodes(g) : f[n] = {n} \cup UNION {f[c] : c \in g.nodes[n].children}
    BY <1>3
  <2>1. CASE S # {}
    <3>1. PICK n \in S : g.nodes[n].children \cap S = {}
      <4> S \in SUBSET Nodes(g)
        OBVIOUS
      <4> HIDE DEF S
      <4> QED BY <2>1, LowestNode
    <3>2. {f[c] : c \in g.nodes[n].children} = {Subtree(g, c) : c \in g.nodes[n].children}
      BY <1>1, <3>1
    <3>3. f[n] = {n} \cup UNION {f[c] : c \in g.nodes[n].children}
      BY <2>0, <3>1
    <3> QED BY <3>1, <3>2, <3>3, SubtreeUnfolds
  <2>2. \A n \in Nodes(g) : f[n] = Subtree(g, n)
    BY <2>1
  <2>3. f = [n \in Nodes(g) |-> f[n]]
    BY <1>3
  <2> QED BY <2>2, <2>3
<1>4. CollectSubtree(g) = CHOOSE f : Solves(f)
  BY DEF CollectSubtree
<1> HIDE DEF Solves, sub
<1>5. Solves(CHOOSE f : Solves(f))
  BY <1>2
<1> QED BY <1>3, <1>4, <1>5 DEF sub

\* The ancestors of a node, by the walk down.
Above(g, n) == {m \in Nodes(g) \ {n} : n \in Subtree(g, m)}

LEMMA AboveUnfolds ==
    ASSUME NEW g, Sound(g), NEW n \in Nodes(g)
    PROVE  LET parent == g.nodes[n].parent
           IN  Above(g, n) = IF parent = None THEN {} ELSE {parent} \cup Above(g, parent)
<1>1. \A m \in Nodes(g) : Subtree(g, m) \subseteq Nodes(g) /\ m \in Subtree(g, m)
  BY SubtreeClosed DEF Sound
<1>2. \A m \in Nodes(g) \ {Root} :
         /\ Root \notin Subtree(g, m)
         /\ \A c \in Subtree(g, m) \ {m} : g.nodes[c].parent \in Subtree(g, m)
  BY SubtreeBoundary
<1>3. CASE n = Root
  <2>1. g.nodes[n].parent = None
    BY <1>3 DEF Sound, LinksAgree
  <2> QED BY <1>2, <1>3, <2>1 DEF Above
<1>4. CASE n # Root
  <2> DEFINE p == g.nodes[n].parent
  <2>1. p \in Nodes(g) /\ p # None /\ n \in g.nodes[p].children
    BY <1>4, NoneIsNotNode DEF Sound, LinksAgree, IsGenome
  <2> HIDE DEF p
  <2>2. n \notin {p} /\ p \notin Subtree(g, n) /\ n \in Subtree(g, p)
    BY <1>1, <2>1, NoCycle, SubtreeClosed DEF Sound, ClosedUnderChildren
  <2>3. ASSUME NEW m \in Nodes(g), m # n, m # p
        PROVE  n \in Subtree(g, m) <=> p \in Subtree(g, m)
    <3>1. n \in Subtree(g, m) => p \in Subtree(g, m)
      BY <1>2, <2>1, <2>3, RootSubtree DEF p
    <3>2. p \in Subtree(g, m) => n \in Subtree(g, m)
      BY <2>1, SubtreeClosed DEF Sound, ClosedUnderChildren
    <3> QED BY <3>1, <3>2
  <2>4. Above(g, n) = {p} \cup Above(g, p)
    BY <2>1, <2>2, <2>3 DEF Above
  <2> QED BY <2>1, <2>4 DEF p
<1> QED BY <1>3, <1>4

\* What ancestor_ids' recursion says has one solution: the nodes above.
LEMMA AncestorsAreAbove ==
    ASSUME NEW g, Sound(g)
    PROVE  AncestorIds(g) = [n \in Nodes(g) |-> Above(g, n)]
<1> DEFINE Solves(f) == f = [n \in Nodes(g) |->
                                IF g.nodes[n].parent = None THEN {}
                                ELSE {g.nodes[n].parent} \cup f[g.nodes[n].parent]]
           above == [n \in Nodes(g) |-> Above(g, n)]
<1>1. \A n \in Nodes(g) \ {Root} : g.nodes[n].parent \in Nodes(g)
  BY DEF Sound, LinksAgree
<1>2. g.nodes[Root].parent = None
  BY DEF Sound, LinksAgree
<1>3. Solves(above)
  <2>1. ASSUME NEW n \in Nodes(g)
        PROVE  Above(g, n) = IF g.nodes[n].parent = None THEN {}
                             ELSE {g.nodes[n].parent} \cup above[g.nodes[n].parent]
    BY <1>1, <1>2, AboveUnfolds
  <2> QED BY <2>1
<1>4. ASSUME NEW f, Solves(f) PROVE f = above
  <2> DEFINE S == {n \in Nodes(g) : f[n] # Above(g, n)}
  <2>1. \A n \in Nodes(g) : f[n] = IF g.nodes[n].parent = None THEN {}
                                   ELSE {g.nodes[n].parent} \cup f[g.nodes[n].parent]
    BY <1>4
  <2>2. Root \notin S
    BY <1>2, <2>1, AboveUnfolds DEF Sound, IsGenome
  <2>3. CASE S # {}
    <3>1. PICK n \in S : g.nodes[n].parent \notin S
      BY <2>2, <2>3 DEF Sound, Grounded
    <3>2. g.nodes[n].parent \in Nodes(g) /\ f[g.nodes[n].parent] = Above(g, g.nodes[n].parent)
      BY <1>1, <2>2, <3>1
    <3>3. n \in Nodes(g) /\ f[n] # Above(g, n)
      BY <3>1
    <3>4. Above(g, n) = IF g.nodes[n].parent = None THEN {}
                        ELSE {g.nodes[n].parent} \cup Above(g, g.nodes[n].parent)
      BY <3>3, AboveUnfolds
    <3>5. f[n] = IF g.nodes[n].parent = None THEN {}
                 ELSE {g.nodes[n].parent} \cup f[g.nodes[n].parent]
      BY <2>1, <3>3
    <3> QED BY <3>2, <3>3, <3>4, <3>5
  <2>4. \A n \in Nodes(g) : f[n] = Above(g, n)
    BY <2>3
  <2>5. f = [n \in Nodes(g) |-> f[n]]
    BY <1>4
  <2> QED BY <2>4, <2>5
<1>5. AncestorIds(g) = CHOOSE f : Solves(f)
  BY DEF AncestorIds
<1> HIDE DEF Solves, above
<1>6. Solves(CHOOSE f : Solves(f))
  BY <1>3
<1> QED BY <1>4, <1>5, <1>6 DEF above

-----------------------------------------------------------------------------
(* Channels.                                                               *)

\* A change of channels keeps a genome sound if the bundles that are left are
\* among those that were there.
LEMMA WithChannelsSound ==
    ASSUME NEW g, Sound(g), NEW channels \in SUBSET Channel,
           \A ch \in channels : ch \in g.channels \/ ch.id \in ExtraChannel
    PROVE  Sound(WithChannels(g, channels))
<1> DEFINE h == WithChannels(g, channels)
<1>1. /\ h = [nodes |-> h.nodes, channels |-> h.channels]
      /\ h.nodes = g.nodes /\ Nodes(h) = Nodes(g) /\ h.channels = channels
  BY DEF WithChannels, Nodes
<1>2. \A n \in NodeId, type \in ChannelType : <<n, type>> \notin ExtraChannel
  BY ExtraIdsAreFresh DEF ChannelType
<1>3. BundlesLinked(h)
  BY <1>1, <1>2 DEF Sound, BundlesLinked
<1>. QED
  BY <1>1, <1>3 DEF Sound, IsGenome, LinksAgree, Grounded, PromotedHasNoOperation

-----------------------------------------------------------------------------
(* The patches.                                                            *)

\* A patch of one node that leaves its place and its operation.
LEMMA InPlaceSound ==
    ASSUME NEW g, Sound(g), NEW n \in Nodes(g), NEW node \in Node,
           node.parent = g.nodes[n].parent, node.children = g.nodes[n].children,
           node.promoted = g.nodes[n].promoted,
           node.leaf_operation = g.nodes[n].leaf_operation
    PROVE  Sound(WithNode(g, n, node))
<1>1. node.promoted => node.leaf_operation = NoOperation
  BY DEF Sound, PromotedHasNoOperation
<1> QED BY <1>1, WithNodeSound

\* Such a patch gives a node other tools, another prompt or another status.
LEMMA InPlaceIs ==
    ASSUME NEW old \in Node
    PROVE  /\ \A tools \in SUBSET Tool :
                 LET node == [old EXCEPT !.tools = tools]
                 IN  /\ node \in Node /\ node.parent = old.parent
                     /\ node.children = old.children /\ node.promoted = old.promoted
                     /\ node.leaf_operation = old.leaf_operation
           /\ \A prompt \in SUBSET Component :
                 LET node == [old EXCEPT !.prompt = prompt]
                 IN  /\ node \in Node /\ node.parent = old.parent
                     /\ node.children = old.children /\ node.promoted = old.promoted
                     /\ node.leaf_operation = old.leaf_operation
           /\ \A status \in Status :
                 LET node == [old EXCEPT !.status = status]
                 IN  /\ node \in Node /\ node.parent = old.parent
                     /\ node.children = old.children /\ node.promoted = old.promoted
                     /\ node.leaf_operation = old.leaf_operation
  BY DEF Node

\* Every patch makes a sound genome of a sound one, on its own or in a batch.
LEMMA PatchedSound ==
    ASSUME NEW g, Sound(g), NEW h \in Patched(g)
    PROVE  Sound(h)
<1>0. \A n \in Nodes(g) : g.nodes[n] \in Node
  BY DEF Sound, IsGenome
<1>1. CASE h \in AddedChild(g)
  <2>1. PICK e \in NodeId \X NodeId \X NewNode :
           CanAddChild(g, e[1], e[2]) /\ h = WithChild(g, e[1], e[2], e[3])
    BY <1>1 DEF AddedChild
  <2>2. e[2] \in NodeId /\ e[3] \in Node /\ e[3].children = {} /\ e[3].promoted = FALSE
    BY NewNodeTyped
  <2> QED BY <2>1, <2>2, WithChildSound
<1>2. CASE h \in PromotedLeaf(g)
  BY <1>2, PromotedSound DEF PromotedLeaf
<1>3. CASE h \in RemovedSubtree(g)
  BY <1>3, WithoutSound DEF RemovedSubtree
<1>4. CASE h \in AddedChannel(g)
  <2>1. PICK ch \in [id: ExtraChannel, from: NodeId \cup {None}, to: NodeId \cup {None}] :
           h = WithChannels(g, g.channels \cup {ch})
    BY <1>4 DEF AddedChannel
  <2>2. ch \in Channel /\ ch.id \in ExtraChannel
    BY DEF Channel
  <2>3. g.channels \cup {ch} \in SUBSET Channel
    BY <2>2 DEF Sound, IsGenome
  <2> QED BY <2>1, <2>2, <2>3, WithChannelsSound
<1>5. CASE h \in RemovedChannel(g)
  <2>1. PICK id : h = WithChannels(g, {ch \in g.channels : ch.id # id})
    BY <1>5 DEF RemovedChannel
  <2> DEFINE rest == {ch \in g.channels : ch.id # id}
  <2>2. rest \in SUBSET Channel /\ rest \subseteq g.channels
    BY DEF Sound, IsGenome
  <2> QED BY <2>1, <2>2, WithChannelsSound
<1>6. CASE h \in AddedTool(g) \cup RemovedTool(g)
  <2>1. ASSUME NEW n \in Nodes(g), NEW tools \in SUBSET Tool,
               h = WithNode(g, n, [g.nodes[n] EXCEPT !.tools = tools])
        PROVE  Sound(h)
    BY <1>0, <2>1, InPlaceIs, InPlaceSound
  <2>2. \A n \in Nodes(g), tool \in Tool :
           g.nodes[n].tools \cup {tool} \in SUBSET Tool /\ g.nodes[n].tools \ {tool} \in SUBSET Tool
    BY <1>0 DEF Node
  <2>3. CASE h \in AddedTool(g)
    <3>1. PICK n \in Nodes(g), tool \in Tool :
             h = WithNode(g, n, [g.nodes[n] EXCEPT !.tools = @ \cup {tool}])
      BY <2>3 DEF AddedTool
    <3>2. h = WithNode(g, n, [g.nodes[n] EXCEPT !.tools = g.nodes[n].tools \cup {tool}])
      BY <3>1
    <3>3. g.nodes[n].tools \cup {tool} \in SUBSET Tool
      BY <2>2
    <3> QED BY <2>1, <3>2, <3>3
  <2>4. CASE h \in RemovedTool(g)
    <3>1. PICK n \in Nodes(g), tool \in Tool :
             h = WithNode(g, n, [g.nodes[n] EXCEPT !.tools = @ \ {tool}])
      BY <2>4 DEF RemovedTool
    <3>2. h = WithNode(g, n, [g.nodes[n] EXCEPT !.tools = g.nodes[n].tools \ {tool}])
      BY <3>1
    <3>3. g.nodes[n].tools \ {tool} \in SUBSET Tool
      BY <2>2
    <3> QED BY <2>1, <3>2, <3>3
  <2> QED BY <1>6, <2>3, <2>4
<1>7. CASE h \in AddedPromptComponent(g) \cup RemovedPromptComponent(g)
  <2>1. ASSUME NEW n \in Nodes(g), NEW prompt \in SUBSET Component,
               h = WithNode(g, n, [g.nodes[n] EXCEPT !.prompt = prompt])
        PROVE  Sound(h)
    BY <1>0, <2>1, InPlaceIs, InPlaceSound
  <2>2. \A n \in Nodes(g), c \in Component :
           /\ g.nodes[n].prompt \cup {c} \in SUBSET Component
           /\ g.nodes[n].prompt \ {c} \in SUBSET Component
    BY <1>0 DEF Node
  <2>3. CASE h \in AddedPromptComponent(g)
    <3>1. PICK n \in Nodes(g), c \in Component :
             h = WithNode(g, n, [g.nodes[n] EXCEPT !.prompt = @ \cup {c}])
      BY <2>3 DEF AddedPromptComponent
    <3>2. h = WithNode(g, n, [g.nodes[n] EXCEPT !.prompt = g.nodes[n].prompt \cup {c}])
      BY <3>1
    <3>3. g.nodes[n].prompt \cup {c} \in SUBSET Component
      BY <2>2
    <3> QED BY <2>1, <3>2, <3>3
  <2>4. CASE h \in RemovedPromptComponent(g)
    BY <2>1, <2>2, <2>4 DEF RemovedPromptComponent
  <2> QED BY <1>7, <2>3, <2>4
<1>8. CASE h \in WithNodeStatus(g)
  <2>1. PICK n \in Nodes(g), status \in Status : h = WithNode(g, n, [g.nodes[n] EXCEPT !.status = status])
    BY <1>8 DEF WithNodeStatus
  <2> QED BY <1>0, <2>1, InPlaceIs, InPlaceSound
<1> QED BY <1>1, <1>2, <1>3, <1>4, <1>5, <1>6, <1>7, <1>8 DEF Patched

-----------------------------------------------------------------------------
(* The invariant.                                                          *)

\* The genome of a root alone is sound.
LEMMA InitSound == Init => IInv
<1> SUFFICES ASSUME Init PROVE Sound(genome)
  BY DEF IInv
<1>1. /\ genome = [nodes |-> genome.nodes, channels |-> genome.channels]
      /\ Nodes(genome) = {Root} /\ genome.channels = {}
      /\ genome.nodes = [n \in {Root} |-> NewLeaf(NoOperation)]
      /\ genome.nodes[Root] = NewLeaf(NoOperation)
  BY DEF Init, Nodes
<1>2. /\ genome.nodes[Root] \in Node /\ genome.nodes[Root].children = {}
      /\ genome.nodes[Root].promoted = FALSE
  BY <1>1, NewLeafTyped
<1>3. genome.nodes[Root].parent = None
  BY <1>1 DEF NewLeaf
<1>4. IsGenome(genome)
  BY <1>1, <1>2, RootIsNode DEF IsGenome
<1>5. LinksAgree(genome) /\ Grounded(genome)
  BY <1>1, <1>2, <1>3 DEF LinksAgree, Grounded
<1>6. BundlesLinked(genome) /\ PromotedHasNoOperation(genome)
  BY <1>1, <1>2 DEF BundlesLinked, PromotedHasNoOperation
<1>. QED
  BY <1>1, <1>4, <1>5, <1>6, FS_Singleton DEF Sound

\* Every patch keeps the genome sound, and so does a batch of any of them.
LEMMA NextSound == IInv /\ [Next]_genome => IInv'
<1> SUFFICES ASSUME Sound(genome), [Next]_genome PROVE Sound(genome')
  BY DEF IInv, Sound, IsGenome, LinksAgree, Grounded, BundlesLinked,
         PromotedHasNoOperation, Nodes
<1>1. CASE genome' \in Patched(genome)
  BY <1>1, PatchedSound
<1>2. CASE Batch
  <2>1. PICK g \in Patched(genome) : genome' \in Patched(g)
    BY <1>2 DEF Batch
  <2>2. Sound(g)
    BY PatchedSound
  <2> QED BY <2>1, <2>2, PatchedSound
<1>3. CASE UNCHANGED genome
  BY <1>3
<1>4. Next => Batch \/ genome' \in Patched(genome)
  BY DEF Next, Patched, AddChild, PromoteLeafToMetasystem, RemoveSubtree, AddChannel,
         RemoveChannel, AddTool, RemoveTool, AddPromptComponent, RemovePromptComponent,
         SetNodeStatus
<1> QED BY <1>1, <1>2, <1>3, <1>4

\* A node that was promoted has nothing to write with, as a leaf or as a
\* metasystem.
LEMMA PromotedCannotWrite ==
    ASSUME NEW g, PromotedHasNoOperation(g), NEW n \in Nodes(g), g.nodes[n].promoted
    PROVE  "write_code" \notin Capabilities(g, n)
<1>1. "write_code" \notin MetasystemCapabilities
  BY DEF MetasystemCapabilities
<1>2. LeafCapabilities(NoOperation) = {}
  BY DEF LeafCapabilities, NoOperation
<1>. QED
  BY <1>1, <1>2 DEF Capabilities, PromotedHasNoOperation

\* The genome is sound in every reachable state.
THEOREM GenomeInvariant == Spec => []IInv
<1>. QED
  BY InitSound, NextSound, PTL DEF Spec

\* The genome keeps its type.
THEOREM GenomeTyped == Spec => []TypeOK
<1>1. IInv => TypeOK
  BY DEF IInv, Sound, TypeOK
<1>. QED
  BY <1>1, GenomeInvariant, PTL

\* The genome stays a tree under the root.
THEOREM GenomeStaysATree == Spec => []TreeShape
<1>1. IInv => TreeShape
  BY DEF IInv, Sound, TreeShape
<1>. QED
  BY <1>1, GenomeInvariant, PTL

\* No channel of a standard bundle outlives its link.
THEOREM BundlesStayLinked == Spec => []BundlesFollowLinks
<1>1. IInv => BundlesFollowLinks
  BY DEF IInv, Sound, BundlesFollowLinks
<1>. QED
  BY <1>1, GenomeInvariant, PTL

\* A promoted node never writes code again.
THEOREM PromotionIsFinal == Spec => []PromotedNeverWrites
<1>1. IInv => PromotedNeverWrites
  BY PromotedCannotWrite DEF IInv, Sound, PromotedNeverWrites
<1>. QED
  BY <1>1, GenomeInvariant, PTL

\* The walks of genome.rs agree with each other and with the definitions used here.
THEOREM WalksAlwaysAgree == Spec => []WalksAgree
<1>1. IInv => WalksAgree
  <2> SUFFICES ASSUME Sound(genome), NEW n \in Nodes(genome)
               PROVE  /\ CollectSubtree(genome)[n] = Subtree(genome, n)
                      /\ AncestorIds(genome)[n] = {m \in Nodes(genome) \ {n} :
                                                      n \in CollectSubtree(genome)[m]}
    BY DEF IInv, WalksAgree
  <2>1. \A m \in Nodes(genome) : CollectSubtree(genome)[m] = Subtree(genome, m)
    BY CollectedIsSubtree
  <2>2. AncestorIds(genome)[n] = Above(genome, n)
    BY AncestorsAreAbove
  <2> QED BY <2>1, <2>2 DEF Above
<1> QED BY <1>1, GenomeInvariant, PTL

=============================================================================
