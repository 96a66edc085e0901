------------------------------- MODULE Links -------------------------------
(***************************************************************************)
(* The reply to /links: a flat list of servers with their uplinks, from    *)
(* which the tree, the order of its rows and its radial picture are made.  *)
(* The reply may name an uplink that is not in it, a cycle, no self-linked *)
(* root or several, and a server twice.                                    *)
(***************************************************************************)
EXTENDS Naturals, Sequences, FiniteSets, SequencesExt, TLC

CONSTANTS
    Servers,     \* 1 .. Servers are the names, in their order
    MaxEntries,  \* entries of a reply
    MaxHops      \* hop counts that a reply gives

VARIABLE entries

Names == 1 .. Servers
NoServer == 0
Unresolved == [depth |-> MaxEntries + 1, parent |-> NoServer, done |-> FALSE]
Entry == [server : Names, up : 0 .. Servers, hops : 0 .. MaxHops]

TypeOK == entries \in Seq(Entry) /\ Len(entries) <= MaxEntries

Init == entries = <<>>

\* The reply of the server; a hop count of MaxHops stands for none.
Arrives(e) == Len(entries) < MaxEntries /\ entries' = Append(entries, e)

Next == \E e \in Entry : Arrives(e)
Spec == Init /\ [][Next]_entries

-----------------------------------------------------------------------------
Listed == {entries[i].server : i \in DOMAIN entries}
First(P(_)) == CHOOSE i \in DOMAIN entries : P(entries[i]) /\ \A j \in 1 .. i - 1 : ~P(entries[j])

\* Root selection: the first self-linked entry, else the first with the fewest hops.
Root ==
    IF \E i \in DOMAIN entries : entries[i].up = entries[i].server
    THEN entries[First(LAMBDA e : e.up = e.server)].server
    ELSE entries[First(LAMBDA e : \A i \in DOMAIN entries : e.hops <= entries[i].hops)].server

\* An uplink is usable when the reply names it and it is another server.
Usable(e) == e.up # e.server /\ e.up \in Listed

\* One entry of a pass: attached when its uplink is, or under the root without one.
Attach(at, e) ==
    IF at[e.server].done THEN at
    ELSE IF ~Usable(e) THEN [at EXCEPT ![e.server] = [depth |-> 1, parent |-> Root, done |-> TRUE]]
    ELSE IF at[e.up].done
    THEN [at EXCEPT ![e.server] = [depth |-> at[e.up].depth + 1, parent |-> e.up, done |-> TRUE]]
    ELSE at

Pass(at) == FoldLeft(Attach, at, entries)

\* A mutant: what no pass attached is left out.
SweepNothing(at) == at

\* What no pass attached, a cycle, goes under the root.
Sweep(at) ==
    [s \in Names |-> IF s \in Listed /\ ~at[s].done
                     THEN [depth |-> 1, parent |-> Root, done |-> TRUE] ELSE at[s]]

\* build_links_tree: passes until one attaches nothing.
Tree ==
    LET start == [s \in Names |-> IF s = Root THEN [depth |-> 0, parent |-> NoServer, done |-> TRUE]
                                  ELSE Unresolved]
        after[n \in 0 .. MaxEntries] == IF n = 0 THEN start ELSE Pass(after[n - 1])
    IN  Sweep(after[MaxEntries])

\* The nodes below a server, by name; a server that is listed twice is there twice.
Kids(tree, s) ==
    LET below(e) == tree[e.server].done /\ tree[e.server].parent = s
        kids == SelectSeq(entries, below)
    IN  SortSeq([i \in DOMAIN kids |-> kids[i].server], <)

\* handle_links_bundle: depth first from every root node.
Rows(tree) ==
    LET from[s \in Names] == <<s>> \o FlattenSeq([i \in DOMAIN Kids(tree, s) |-> from[Kids(tree, s)[i]]])
        root(e) == e.server = Root
    IN  FlattenSeq([i \in DOMAIN SelectSeq(entries, root) |-> from[Root]])

\* leaf_count, and the first slot of a server on the rim: assign_angles in units of leaves.
Leaves(tree) ==
    LET sum(f) == FoldLeft(+, 0, f)
        count[s \in Names] == IF Kids(tree, s) = <<>> THEN 1
                              ELSE sum([i \in DOMAIN Kids(tree, s) |-> count[Kids(tree, s)[i]]])
    IN  count

Slot(tree) ==
    LET leaves == Leaves(tree)
        before(s) == {i \in DOMAIN Kids(tree, tree[s].parent) : Kids(tree, tree[s].parent)[i] < s}
        sum(s) == FoldLeft(+, 0, [i \in 1 .. Cardinality(before(s)) |-> leaves[Kids(tree, tree[s].parent)[i]]])
        slot[s \in Names] == IF tree[s].parent = NoServer THEN 0 ELSE slot[tree[s].parent] + sum(s)
    IN  slot

-----------------------------------------------------------------------------
Distinct == Cardinality(Listed) = Len(entries)

(* "Every entry ends up in the result": whatever uplinks are missing or go    *)
(* in a circle, every server has a row, below its parent and one level        *)
(* deeper, once when the reply names it once, and no two leaves share a slot  *)
(* of the rim.                                                                *)
EveryServerShown ==
    entries # <<>> =>
        LET tree == Tree
            rows == Rows(tree)
            slot == Slot(tree)
            leaf == {s \in Listed : Kids(tree, s) = <<>>}
        IN  /\ ToSet(rows) = Listed
            /\ \A i \in DOMAIN rows : rows[i] # Root =>
                  \E j \in 1 .. i - 1 : /\ rows[j] = tree[rows[i]].parent
                                        /\ tree[rows[i]].depth = tree[rows[j]].depth + 1
            /\ Distinct => /\ Len(rows) = Len(entries)
                           /\ {slot[s] : s \in leaf} = 0 .. Cardinality(leaf) - 1

=============================================================================
