----------------------------- MODULE WriteTree -----------------------------
(***************************************************************************)
(* FWriteTree: the pending writes of a client, and visibleWrites, the      *)
(* compound write they are merged into, from which the views compute what  *)
(* the application sees and transactions compute what they read.           *)
(*                                                                         *)
(* Data live at the Leaves of a small tree.  A node (FNode) is a function  *)
(* from the paths of its leaves, relative to it, to values; a value is the *)
(* id of the write it comes from, 0 for the server.  A compound write      *)
(* (FCompoundWrite) is a function from the paths that have a value in its  *)
(* FImmutableTree to nodes.  Priorities are left out.                      *)
(*                                                                         *)
(* The answers of the server come in the order of the writes, but a        *)
(* transaction that is aborted or run again takes its write out of the     *)
(* middle.                                                                 *)
(***************************************************************************)
EXTENDS Integers, Sequences, FiniteSets

LOCAL INSTANCE SequencesExt
LOCAL INSTANCE TLC

CONSTANTS
    Leaves,     \* the paths of the data: sequences of keys, none a prefix of another
    MaxRecords, \* writes made
    OldestFirst \* writes are only removed by the answers of the server

VARIABLES
    allWrites,     \* records, oldest first
    visibleWrites, \* the compound write
    lastWriteId,
    writesMade,
    hiddenLayered, \* history: a rebuild took in a hidden write
    overlapMissed  \* history: a write was cut out although one made outside it overlaps it

writeTreeVars == << allWrites, visibleWrites, lastWriteId, writesMade, hiddenLayered,
                    overlapMissed >>

TreePaths == UNION {{SubSeq(leaf, 1, n) : n \in 0 .. Len(leaf)} : leaf \in Leaves}
From(path, other) == SubSeq(other, Len(path) + 1, Len(other))

-----------------------------------------------------------------------------
(* Nodes *)

\* A node at path all of whose leaves have one value.
NodeOf(path, value) == [leaf \in {From(path, l) : l \in {k \in Leaves : IsPrefix(path, k)}} |-> value]

GetChild(node, path) ==
    [leaf \in {From(path, l) : l \in {k \in DOMAIN node : IsPrefix(path, k)}} |-> node[path \o leaf]]

UpdateChild(node, path, child) ==
    [leaf \in {l \in DOMAIN node : ~IsPrefix(path, l)} \cup {path \o l : l \in DOMAIN child} |->
        IF IsPrefix(path, leaf) THEN child[From(path, leaf)] ELSE node[leaf]]

-----------------------------------------------------------------------------
(* Compound writes *)

EmptyWrite == << >>
ValuedAbove(cw, path) == {p \in DOMAIN cw : IsPrefix(p, path)}
\* findRootMostValueAndPath
RootMost(cw, path) == CHOOSE p \in ValuedAbove(cw, path) :
                          \A q \in ValuedAbove(cw, path) : IsPrefix(p, q)

\* setTree:atPath: with one value, or with the empty tree.
WithoutTree(cw, path) == [p \in {q \in DOMAIN cw : ~IsPrefix(path, q)} |-> cw[p]]
SetTree(cw, path, node) ==
    [p \in {q \in DOMAIN cw : ~IsPrefix(path, q)} \cup {path} |-> IF p = path THEN node ELSE cw[p]]

AddWrite(cw, path, node) ==
    IF path # << >> /\ ValuedAbove(cw, path) # {}
    THEN LET top == RootMost(cw, path)
         IN  [cw EXCEPT ![top] = UpdateChild(@, From(top, path), node)]
    ELSE SetTree(cw, path, node)

\* addCompoundWrite:atPath:, the order of the disjoint paths does not matter.
AddCompoundWrite(cw, path, other) ==
    FoldLeft(LAMBDA s, p : AddWrite(s, path \o p, other[p]), cw, SetToSeq(DOMAIN other))

RemoveWriteAtPath(cw, path) == IF path = << >> THEN EmptyWrite ELSE WithoutTree(cw, path)

HasCompleteWrite(cw, path) == ValuedAbove(cw, path) # {}
CompleteNode(cw, path) == LET top == RootMost(cw, path) IN GetChild(cw[top], From(top, path))

\* childCompoundWriteAtPath:
ChildCompoundWrite(cw, path) ==
    IF path = << >> THEN cw
    ELSE IF HasCompleteWrite(cw, path) THEN (<< >> :> CompleteNode(cw, path))
    ELSE LET below == {p \in DOMAIN cw : IsPrefix(path, p)}
         IN  [p \in {From(path, q) : q \in below} |-> cw[path \o p]]

\* applyToNode: a value ends the descent.
ApplyToNode(cw, node) ==
    FoldLeft(LAMBDA n, p : UpdateChild(n, p, cw[p]), node,
             SetToSeq({p \in DOMAIN cw : RootMost(cw, p) = p}))

-----------------------------------------------------------------------------
(* Writes: a record has its path and, as a compound write relative to it,  *)
(* its data: one node at the empty path for an overwrite.                  *)

Targets(record) == {record.path \o p : p \in DOMAIN record.data}

Overlapping(one, two) ==
    \E t \in Targets(one), u \in Targets(two) : IsPrefix(t, u) \/ IsPrefix(u, t)

\* A visible write overlaps the removed one, but is not made inside its path.
MissedBy(removed, record) ==
    record.visible /\ Overlapping(record, removed) /\ ~IsPrefix(removed.path, record.path)

Record(path, targets, visible) ==
    [id |-> writesMade + 1, path |-> path, visible |-> visible,
     data |-> [p \in targets |-> NodeOf(path \o p, writesMade + 1)],
     merge |-> targets # {<< >>}]

Add(record) ==
    /\ writesMade < MaxRecords
    /\ writesMade' = record.id
    /\ lastWriteId' = record.id
    /\ allWrites' = Append(allWrites, record)
    /\ visibleWrites' = IF record.visible
                        THEN AddCompoundWrite(visibleWrites, record.path, record.data)
                        ELSE visibleWrites
    /\ UNCHANGED << hiddenLayered, overlapMissed >>

AddOverwrite(path, visible) == Add(Record(path, {<< >>}, visible))

\* An update: names disjoint paths below its own.
AddMerge(path, targets) ==
    /\ targets # {} /\ << >> \notin targets
    /\ \A p, q \in targets : p # q => ~IsPrefix(p, q)
    /\ Add(Record(path, targets, TRUE))

\* layerTreeFromWrites:filter:treeRoot:, one record.
LayerRecord(cw, record, treeRoot) ==
    LET down == From(record.path, treeRoot)
        deep == CompleteNode(record.data, down)
    IN  IF IsPrefix(treeRoot, record.path)
        THEN AddCompoundWrite(cw, From(treeRoot, record.path), record.data)
        ELSE IF ~IsPrefix(record.path, treeRoot) THEN cw
        ELSE IF ~record.merge THEN AddWrite(cw, << >>, GetChild(record.data[<< >>], down))
        ELSE IF HasCompleteWrite(record.data, down)
             THEN AddWrite(cw, << >>, GetChild(deep, Tail(down)))
        ELSE cw

\* writes are those the filter lets through.
LayerTree(writes, treeRoot) ==
    FoldLeft(LAMBDA cw, record : LayerRecord(cw, record, treeRoot), EmptyWrite, writes)

\* defaultFilter
DefaultFilter(record) == TRUE

\* record:containsPath:
RecordContains(record, path) == \E target \in Targets(record) : IsPrefix(target, path)

\* Mutant of Shadowed: an older write is taken to shadow, too.
ShadowedByAny(index, rest) ==
    \E i \in 1 .. Len(rest) :
        rest[i].visible /\ RecordContains(rest[i], allWrites[index].path)

\* A later write covers the removed one.
Shadowed(index, rest) ==
    \E i \in index .. Len(rest) :
        rest[i].visible /\ RecordContains(rest[i], allWrites[index].path)

\* Mutant of Overlaps: no rebuild.
NeverOverlaps(index, rest) == FALSE

\* Another visible write is inside the removed one.
Overlaps(index, rest) ==
    \E i \in 1 .. Len(rest) : rest[i].visible /\ IsPrefix(allWrites[index].path, rest[i].path)

\* What removeWriteId returns: the views have to be evaluated again.
NeedToReevaluate(index) ==
    allWrites[index].visible /\ ~Shadowed(index, RemoveAt(allWrites, index))

\* removeWriteId
RemoveWriteId(index) ==
    LET record  == allWrites[index]
        rest    == RemoveAt(allWrites, index)
        rebuild == NeedToReevaluate(index) /\ Overlaps(index, rest)
        cut     == NeedToReevaluate(index) /\ ~Overlaps(index, rest)
    IN  /\ OldestFirst => index = 1
        /\ allWrites' = rest
        /\ visibleWrites' = IF rebuild THEN LayerTree(SelectSeq(rest, DefaultFilter), << >>)
                            ELSE IF cut THEN FoldLeft(RemoveWriteAtPath, visibleWrites,
                                                      SetToSeq(Targets(record)))
                            ELSE visibleWrites
        /\ lastWriteId' = IF ~rebuild THEN lastWriteId
                          ELSE IF rest = << >> THEN -1 ELSE Last(rest).id
        /\ hiddenLayered' = (hiddenLayered \/ (rebuild /\ \E r \in ToSet(rest) : ~r.visible))
        /\ overlapMissed' = (overlapMissed \/ (cut /\ \E r \in ToSet(rest) : MissedBy(record, r)))
        /\ UNCHANGED writesMade

RemoveAllWrites ==
    /\ allWrites # << >>
    /\ allWrites' = << >> /\ visibleWrites' = EmptyWrite
    /\ UNCHANGED << lastWriteId, writesMade, hiddenLayered, overlapMissed >>

\* calculateCompleteEventCacheAtPath, for a view that has the server's data ...
ViewCache(treePath, serverCache) ==
    IF HasCompleteWrite(visibleWrites, treePath) THEN CompleteNode(visibleWrites, treePath)
    ELSE ApplyToNode(ChildCompoundWrite(visibleWrites, treePath), serverCache)

\* ... and for a transaction, hidden writes included and its own excluded.
TransactionCache(treePath, serverCache, excluded) ==
    LET Filter(record) == /\ record.id \notin excluded
                          /\ IsPrefix(record.path, treePath) \/ IsPrefix(treePath, record.path)
    IN  ApplyToNode(LayerTree(SelectSeq(allWrites, Filter), treePath), serverCache)

-----------------------------------------------------------------------------
WriteTreeInit ==
    /\ allWrites = << >> /\ visibleWrites = EmptyWrite /\ lastWriteId = -1
    /\ writesMade = 0 /\ hiddenLayered = FALSE /\ overlapMissed = FALSE

WriteTreeNext ==
    \/ \E path \in TreePaths, visible \in BOOLEAN : AddOverwrite(path, visible)
    \/ \E path \in TreePaths :
         \E targets \in SUBSET {From(path, p) : p \in {q \in TreePaths : IsPrefix(path, q)}} :
            AddMerge(path, targets)
    \/ \E index \in DOMAIN allWrites : RemoveWriteId(index)
    \/ RemoveAllWrites

WriteTreeSpec == WriteTreeInit /\ [][WriteTreeNext]_writeTreeVars

-----------------------------------------------------------------------------
(* Properties *)

\* The reference: the pending writes that are chosen, applied in order to the
\* server's data at the root.
Applied(Chosen(_)) ==
    FoldLeft(LAMBDA node, record :
                IF ~Chosen(record) THEN node
                ELSE [leaf \in Leaves |-> IF RecordContains(record, leaf) THEN record.id
                                          ELSE node[leaf]],
             NodeOf(<< >>, 0), allWrites)
VisibleData == Applied(LAMBDA record : record.visible)

\* What a view shows at any path is the server's data under the visible pending
\* writes, whatever order they are removed in - unless a rebuild took in a hidden
\* write, or a write was cut out although one made outside its path overlaps it.
ViewsExact ==
    ~hiddenLayered /\ ~overlapMissed =>
        \A path \in TreePaths :
            ViewCache(path, NodeOf(path, 0)) = GetChild(VisibleData, path)

\* layerTree skips or misreads an update made above the tree root: one that names
\* a path inside it, or reaches it over two keys or more.
Misread(record, path) ==
    /\ record.merge /\ IsStrictPrefix(record.path, path)
    /\ \/ \E target \in Targets(record) : IsStrictPrefix(path, target)
       \/ RecordContains(record, path) /\ Len(path) > Len(record.path) + 1

\* What a transaction reads at a path is the server's data under all pending
\* writes but those it excludes - unless an update is misread.
TransactionsReadExact ==
    \A path \in TreePaths, excluded \in {{}} \cup {{id} : id \in 1 .. writesMade} :
        (\A record \in ToSet(allWrites) : ~Misread(record, path))
        => TransactionCache(path, NodeOf(path, 0), excluded)
             = GetChild(Applied(LAMBDA record : record.id \notin excluded), path)

\* A removal that reports that nothing visible was removed changes nothing that
\* is visible: no view misses an event.
RemovalsReported ==
    [][\A index \in DOMAIN allWrites :
         RemoveWriteId(index) /\ ~NeedToReevaluate(index) => VisibleData' = VisibleData
      ]_writeTreeVars

\* visibleWrites is "tracking the results of applying all visible writes"
\* (FWriteTree.m): what a view shows is always the server's data under them.
VisibleWritesApplied ==
    ViewCache(<< >>, NodeOf(<< >>, 0)) = VisibleData

\* Views and transactions read the server's data under the writes that are
\* pending, whatever removals did to the merged tree before.
ReadsExact == ViewsExact /\ TransactionsReadExact
=============================================================================
