------------------------------- MODULE Genome -------------------------------
(***************************************************************************)
(* The organizational genome of vsm-core: a tree of viable nodes and the   *)
(* channels between them, changed only through patches                     *)
(* (OrganizationalGenomePatch::apply), and the capabilities a node derives *)
(* from its place in the tree.                                             *)
(*                                                                         *)
(* A genome is a value, as in the code, where a trial patches a clone of   *)
(* the champion.  Siblings are kept as a set: their order decides only     *)
(* which eligible child the router meets first.  Models, context policies  *)
(* and permissions move with the leaf operation and are left out.          *)
(***************************************************************************)
EXTENDS Naturals, FiniteSets

CONSTANTS
    NodeId,       \* the ids a node may have
    Root,         \* the root node's id
    None,         \* no node
    Tool,         \* the names of code-writing tools
    Component,    \* the ids of prompt components
    Status,       \* the NodeLifecycleStatus values in use
    Operation,    \* the leaf operations in use
    ExtraChannel, \* the ids of channels added one by one
    MaxMissing,   \* bound: channels of the standard bundles removed one by one
    MaxBatched    \* bound: nodes of the genomes that batches patch

ASSUME RootIsNode == Root \in NodeId
ASSUME NoneIsNotNode == None \notin NodeId
ASSUME OperationsAreKnown == Operation \subseteq {"coding", "reviewer", "tester"}
ASSUME ExtraIdsAreFresh == ExtraChannel \cap (NodeId \X {"resource_bargaining", "command",
    "system2_coordination", "audit", "algedonic"}) = {}
ASSUME StatusesAreKnown ==
    "active" \in Status /\ Status \subseteq {"shadow", "probation", "active", "retired"}
ASSUME BoundsAreNat == {MaxMissing, MaxBatched} \subseteq Nat

VARIABLE genome   \* [nodes: present id -> node, channels: set of channels]

-----------------------------------------------------------------------------
(* Nodes, channels and genomes.                                            *)

\* The operation of a LeafOperationSpec::default(): it allows nothing.
NoOperation == "none"

Node == [parent: NodeId \cup {None}, children: SUBSET NodeId,
         leaf_operation: Operation \cup {NoOperation}, tools: SUBSET Tool,
         prompt: SUBSET Component, status: Status, promoted: BOOLEAN]

\* The node of an add_child, as its callers build it: without children, and not
\* marked as promoted.
NewNode == [parent: {None}, children: {{}}, leaf_operation: Operation \cup {NoOperation},
            tools: SUBSET Tool, prompt: SUBSET Component, status: Status, promoted: {FALSE}]

\* ViableNode::new_leaf.
NewLeaf(op) ==
    [parent |-> None, children |-> {}, leaf_operation |-> op, tools |-> {},
     prompt |-> {}, status |-> "active", promoted |-> FALSE]

ChannelType == {"resource_bargaining", "command", "system2_coordination", "audit", "algedonic"}

\* ParentChildChannelBundle::standard.  Channel ids are fresh in the code; a
\* child has at most one bundle at a time, so its id and the type name them.
StandardBundle(parent, child) ==
    {[id |-> <<child, type>>,
      from |-> IF type = "algedonic" THEN child ELSE parent,
      to |-> IF type = "algedonic" THEN parent ELSE child] : type \in ChannelType}

Channel ==
    [id: (NodeId \X ChannelType) \cup ExtraChannel,
     from: NodeId \cup {None}, to: NodeId \cup {None}]

Nodes(g) == DOMAIN g.nodes
WithNode(g, n, node) ==
    [nodes |-> [g.nodes EXCEPT ![n] = node], channels |-> g.channels]
WithChannels(g, channels) == [nodes |-> g.nodes, channels |-> channels]
IsLeaf(g, n) == g.nodes[n].children = {}

\* capabilities(): a metasystem's are fixed, a leaf's follow its operation.
LeafCapabilities(op) ==
    CASE op = "coding" -> {"write_code", "run_tests", "research",
                           "read_filesystem", "write_filesystem"}
      [] op = "reviewer" -> {"run_tests", "review", "research", "read_filesystem"}
      [] op = "tester" -> {"run_tests", "read_filesystem"}
      [] OTHER -> {}
MetasystemCapabilities ==
    {"research", "integrate", "read_filesystem", "delegate", "audit_children",
     "mutate_child_topology", "issue_command", "coordinate", "allocate_resources",
     "run_future_probes"}
Capabilities(g, n) ==
    IF IsLeaf(g, n) THEN LeafCapabilities(g.nodes[n].leaf_operation)
                    ELSE MetasystemCapabilities

-----------------------------------------------------------------------------
(* What the patches do, each with the condition under which it is no error. *)

\* add_child: the child keeps what it brings, but for its parent.
CanAddChild(g, parent, child) ==
    /\ parent \in Nodes(g)
    /\ child \notin Nodes(g)

WithChild(g, parent, child, node) ==
    [nodes |-> [n \in Nodes(g) \cup {child} |->
                   CASE n = child -> [node EXCEPT !.parent = parent]
                     [] n = parent -> [g.nodes[n] EXCEPT !.children = @ \cup {child}]
                     [] OTHER -> g.nodes[n]],
     channels |-> g.channels \cup StandardBundle(parent, child)]

CanPromote(g, n) == n \in Nodes(g) /\ IsLeaf(g, n)

\* Mutant: the parent's operation is copied instead of moved.
Promoted_KeepsOperation(g, n, child) ==
    LET old == g.nodes[n]
        h == WithChild(g, n, child, [NewLeaf(old.leaf_operation) EXCEPT !.tools = old.tools])
    IN  WithNode(h, n, [h.nodes[n] EXCEPT !.tools = {}, !.prompt = {}, !.promoted = TRUE])

\* PromoteLeafToMetasystem: the extracted child takes the operational identity
\* and the metadata; the node keeps neither operation, prompt nor tools.
Promoted(g, n, child) ==
    LET old == g.nodes[n]
        h == WithChild(g, n, child,
                       [NewLeaf(old.leaf_operation) EXCEPT
                           !.tools = old.tools, !.prompt = old.prompt,
                           !.promoted = old.promoted])
    IN  WithNode(h, n, [h.nodes[n] EXCEPT !.leaf_operation = NoOperation, !.tools = {},
                                          !.prompt = {}, !.promoted = TRUE])

\* collect_subtree: the node and whatever is reached from it through children.
ClosedUnderChildren(g, S) == \A m \in S : g.nodes[m].children \subseteq S
Subtree(g, n) ==
    {m \in Nodes(g) : \A S \in SUBSET Nodes(g) :
        n \in S /\ ClosedUnderChildren(g, S) => m \in S}

\* Mutant: the root is not excepted.
CanRemove_AnyNode(g, n) == n \in Nodes(g)

CanRemove(g, n) == n \in Nodes(g) /\ n # Root

\* Mutants: the parent keeps the link; only the channels to a removed node go.
Without_KeepsLink(g, n) ==
    LET removed == Subtree(g, n) IN
    [nodes |-> [m \in Nodes(g) \ removed |-> g.nodes[m]],
     channels |-> {ch \in g.channels : ch.from \notin removed /\ ch.to \notin removed}]
Without_OnlyTo(g, n) ==
    LET removed == Subtree(g, n) IN
    [nodes |-> [m \in Nodes(g) \ removed |->
                   [g.nodes[m] EXCEPT !.children = @ \ {n}]],
     channels |-> {ch \in g.channels : ch.to \notin removed}]

Without(g, n) ==
    LET removed == Subtree(g, n) IN
    [nodes |-> [m \in Nodes(g) \ removed |->
                   [g.nodes[m] EXCEPT !.children = @ \ {n}]],
     channels |-> {ch \in g.channels : ch.from \notin removed /\ ch.to \notin removed}]

-----------------------------------------------------------------------------
(* The walks over the tree, as the code computes them.                     *)

\* Mutant: only the direct children are collected.
CollectSubtree_OneLevel(g) == [n \in Nodes(g) |-> {n} \cup g.nodes[n].children]

\* collect_subtree: the node, then each child's subtree.
CollectSubtree(g) ==
    LET collected[n \in Nodes(g)] ==
            {n} \cup UNION {collected[child] : child \in g.nodes[n].children}
    IN  collected

\* ancestor_ids: up the parent links to a node without one.
AncestorIds(g) ==
    LET ancestors[n \in Nodes(g)] ==
            LET parent == g.nodes[n].parent
            IN  IF parent = None THEN {} ELSE {parent} \cup ancestors[parent]
    IN  ancestors

-----------------------------------------------------------------------------
(* The patches: the genomes that one may make of a genome.  A patch that is *)
(* an error makes none: from_suggestion patches a clone and drops it.      *)

AddedChild(g) ==
    {WithChild(g, e[1], e[2], e[3]) :
        e \in {e \in NodeId \X NodeId \X NewNode : CanAddChild(g, e[1], e[2])}}

\* The extracted child's id is fresh: ViableNode::new_leaf makes a new one.
PromotedLeaf(g) ==
    {Promoted(g, e[1], e[2]) :
        e \in {e \in NodeId \X NodeId : CanPromote(g, e[1]) /\ CanAddChild(g, e[1], e[2])}}

RemovedSubtree(g) == {Without(g, n) : n \in {n \in NodeId : CanRemove(g, n)}}

\* The channel is pushed as it comes: nothing is asked of its ends.  Its id is
\* fresh (ChannelConfig::new).
AddedChannel(g) ==
    {WithChannels(g, g.channels \cup {ch}) :
        ch \in [id: {id \in ExtraChannel : \A ch \in g.channels : ch.id # id},
               from: NodeId \cup {None}, to: NodeId \cup {None}]}

MissingChannels(g) ==
    UNION {StandardBundle(g.nodes[n].parent, n) : n \in Nodes(g) \ {Root}} \ g.channels

RemovedChannel(g) ==
    {h \in {WithChannels(g, {ch \in g.channels : ch.id # id}) :
                id \in (NodeId \X ChannelType) \cup ExtraChannel} :
        Cardinality(MissingChannels(h)) <= MaxMissing}

AddedTool(g) ==
    {WithNode(g, n, [g.nodes[n] EXCEPT !.tools = @ \cup {tool}]) : n \in Nodes(g), tool \in Tool}

RemovedTool(g) ==
    {WithNode(g, n, [g.nodes[n] EXCEPT !.tools = @ \ {tool}]) : n \in Nodes(g), tool \in Tool}

AddedPromptComponent(g) ==
    {WithNode(g, n, [g.nodes[n] EXCEPT !.prompt = @ \cup {c}]) : n \in Nodes(g), c \in Component}

\* PromptComponentNotFound otherwise.
RemovedPromptComponent(g) ==
    {WithNode(g, e[1], [g.nodes[e[1]] EXCEPT !.prompt = @ \ {e[2]}]) :
        e \in {e \in Nodes(g) \X Component : e[2] \in g.nodes[e[1]].prompt}}

WithNodeStatus(g) ==
    {WithNode(g, n, [g.nodes[n] EXCEPT !.status = status]) : n \in Nodes(g), status \in Status}

Patched(g) ==
    AddedChild(g) \cup PromotedLeaf(g) \cup RemovedSubtree(g)
    \cup AddedChannel(g) \cup RemovedChannel(g)
    \cup AddedTool(g) \cup RemovedTool(g)
    \cup AddedPromptComponent(g) \cup RemovedPromptComponent(g)
    \cup WithNodeStatus(g)

-----------------------------------------------------------------------------
(* OrganizationalGenomePatch::apply, one action for each kind of patch.    *)

Init ==
    genome = [nodes |-> [n \in {Root} |-> NewLeaf(NoOperation)], channels |-> {}]

AddChild == genome' \in AddedChild(genome)
PromoteLeafToMetasystem == genome' \in PromotedLeaf(genome)
RemoveSubtree == genome' \in RemovedSubtree(genome)
AddChannel == genome' \in AddedChannel(genome)
RemoveChannel == genome' \in RemovedChannel(genome)
AddTool == genome' \in AddedTool(genome)
RemoveTool == genome' \in RemovedTool(genome)
AddPromptComponent == genome' \in AddedPromptComponent(genome)
RemovePromptComponent == genome' \in RemovedPromptComponent(genome)
SetNodeStatus == genome' \in WithNodeStatus(genome)

\* Any patches in order, and all or (on the clone) nothing; here there are two.
Batch ==
    /\ Cardinality(Nodes(genome)) <= MaxBatched
    /\ \E g \in Patched(genome) : genome' \in Patched(g)

Next ==
    \/ AddChild \/ PromoteLeafToMetasystem \/ RemoveSubtree
    \/ AddChannel \/ RemoveChannel
    \/ AddTool \/ RemoveTool
    \/ AddPromptComponent \/ RemovePromptComponent
    \/ SetNodeStatus
    \/ Batch

Spec == Init /\ [][Next]_genome

-----------------------------------------------------------------------------
(* Properties.                                                             *)

\* A genome of the right type: the nodes present include the root, and every
\* node and channel is one of the sets above.
IsGenome(g) ==
    /\ g = [nodes |-> g.nodes, channels |-> g.channels]
    /\ Root \in Nodes(g) /\ Nodes(g) \subseteq NodeId
    /\ g.nodes \in [Nodes(g) -> Node]
    /\ g.channels \subseteq Channel

\* The parent links and the children lists are two copies of one relation.
LinksAgree(g) ==
    /\ g.nodes[Root].parent = None
    /\ \A n \in Nodes(g) \ {Root} :
           /\ g.nodes[n].parent \in Nodes(g)
           /\ n \in g.nodes[g.nodes[n].parent].children
    /\ \A n \in Nodes(g) : \A c \in g.nodes[n].children :
           /\ c \in Nodes(g) \ {Root}
           /\ g.nodes[c].parent = n

\* No set of nodes is its own support: whatever nodes are taken (without the
\* root), some one of them has its parent outside.
Grounded(g) ==
    \A S \in SUBSET (Nodes(g) \ {Root}) :
        S # {} => \E n \in S : g.nodes[n].parent \notin S

\* Every channel of a standard bundle is the one its child has to its parent now.
BundlesLinked(g) ==
    \A ch \in g.channels : \A n \in NodeId, type \in ChannelType :
        ch.id = <<n, type>> =>
            /\ n \in Nodes(g) \ {Root}
            /\ ch \in StandardBundle(g.nodes[n].parent, n)

\* Type invariant.
TypeOK == IsGenome(genome)

\* The genome is a tree under the root after any sequence of patches: its two
\* directions of links agree and there is no cycle, so collect_subtree and
\* ancestor_ids end, without add_child ever testing for a cycle
\* (GenomeError::CycleDetected is never raised).
TreeShape == LinksAgree(genome) /\ Grounded(genome)

\* A channel of a standard bundle still connects a child to its present parent:
\* none outlives the link it was made for, whichever end a removal took.
BundlesFollowLinks == BundlesLinked(genome)

\* A leaf once promoted never writes code again, also after its children are
\* all removed and it is a leaf once more: its operation went to the child.
PromotedNeverWrites ==
    \A n \in Nodes(genome) :
        genome.nodes[n].promoted => "write_code" \notin Capabilities(genome, n)

\* The walk down and the walk up give one relation, and the walk down is the
\* least closed set: a trace names as responsible exactly the nodes whose
\* subtree the worker is in, and removing a subtree leaves no descendant.
WalksAgree ==
    \A n \in Nodes(genome) :
        /\ CollectSubtree(genome)[n] = Subtree(genome, n)
        /\ AncestorIds(genome)[n] =
               {m \in Nodes(genome) \ {n} : n \in CollectSubtree(genome)[m]}

=============================================================================
