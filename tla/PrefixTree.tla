----------------------------- MODULE PrefixTree -----------------------------
(****************************************************************************)
(* The prefix trees of the binary tables (PrefixTree.h, FilePtr.h): built   *)
(* in memory for the phrases that share a first word, written node by node, *)
(* and read back on demand.                                                 *)
(*                                                                          *)
(* A file is a sequence of nodes and an offset is a position in it, which   *)
(* abstracts the bytes of a node; 0 is no offset of a subtree, as in the    *)
(* code, where only the first node of a file starts there.                  *)
(****************************************************************************)
EXTENDS Integers, SequencesExt

InvalidOffT == -1
NoTree == 0

------------------------------------------------------------------------------
(****************************************************************************)
(* In memory: the data of every key sequence inserted and of its prefixes.  *)
(****************************************************************************)
EmptyTree == [k \in {} |-> InvalidOffT]

Insert(psa, key) ==
  [k \in DOMAIN psa \cup (Prefixes(key) \ {<< >>}) |->
     IF k \in DOMAIN psa THEN psa[k] ELSE InvalidOffT]

Below(psa, path) == {k \in DOMAIN psa : Len(k) = Len(path) + 1 /\ IsPrefix(path, k)}

------------------------------------------------------------------------------
(****************************************************************************)
(* On file.                                                                 *)
(****************************************************************************)
\* The node of a path, with the pointers to its subtrees still open.
NewNode(psa, path) ==
  LET keys == SetToSortSeq({Last(k) : k \in Below(psa, path)}, <)
  IN  [keys |-> keys,
       data |-> [i \in DOMAIN keys |-> psa[Append(path, keys[i])]],
       ptr  |-> [i \in DOMAIN keys |-> NoTree]]

\* A subtree waiting to be written, and the pointer it will be reached by.
Waiting(path, offset, i) == [path |-> path, offset |-> offset, i |-> i]

\* Mutant: the offset of a subtree is not written into its parent.
WriteNode_Unpatched(psa, file, queue) ==
  LET top   == Last(queue)
      node  == NewNode(psa, top.path)
      below == [i \in DOMAIN node.keys |->
                  Waiting(Append(top.path, node.keys[i]), Len(file) + 1, i)]
  IN  [file  |-> Append(file, node),
       queue |-> Front(queue) \o SelectSeq(below, LAMBDA w : Below(psa, w.path) # {})]

\* One turn of the loop of create: the subtree that waits on top of the queue
\* is patched into its parent and appended to the file: two writes in the code,
\* between which the file is as unfinished as before them.
WriteNode(psa, file, queue) ==
  LET top     == Last(queue)
      offset  == Len(file) + 1
      patched == IF top.offset = NoTree THEN file
                 ELSE [file EXCEPT ![top.offset].ptr[top.i] = offset]
      node    == NewNode(psa, top.path)
      below   == [i \in DOMAIN node.keys |-> Waiting(Append(top.path, node.keys[i]), offset, i)]
  IN  [file  |-> Append(patched, node),
       queue |-> Front(queue) \o SelectSeq(below, LAMBDA w : Below(psa, w.path) # {})]

FirstWaiting == <<Waiting(<< >>, NoTree, 0)>>

FindKey(node, key) == IF Contains(node.keys, key) THEN CHOOSE i \in DOMAIN node.keys : node.keys[i] = key
                      ELSE 0

------------------------------------------------------------------------------
(****************************************************************************)
(* Pointers into a tree file: a key in a node.  A node that lies behind the *)
(* end of the file cannot be read, and the process aborts.                  *)
(****************************************************************************)
Root      == [offset |-> 0, i |-> 0]
NoPointer == [offset |-> -1, i |-> 0]
Aborted   == [offset |-> -2, i |-> 0]
IsNode(p) == p.offset > 0

PointerTo(nodes, offset, key) ==
  IF offset \notin DOMAIN nodes THEN Aborted
  ELSE LET i == FindKey(nodes[offset], key)
       IN  IF i = 0 THEN NoPointer ELSE [offset |-> offset, i |-> i]

\* The step of Extend and of find from one key to the next; roots holds the
\* offset of the tree of each first key.
ExtendPointer(nodes, roots, p, key) ==
  IF p \in {NoPointer, Aborted} THEN p
  ELSE LET offset == IF p = Root
                     THEN IF key \in DOMAIN roots THEN roots[key] ELSE InvalidOffT
                     ELSE LET tree == nodes[p.offset].ptr[p.i]
                          IN  IF tree = NoTree THEN InvalidOffT ELSE tree
       IN  IF offset = InvalidOffT THEN NoPointer ELSE PointerTo(nodes, offset, key)

\* The pointers on the way along a sequence of keys.
Way(nodes, roots, keys) ==
  FoldLeft(LAMBDA way, key : Append(way, ExtendPointer(nodes, roots, Last(way), key)),
           <<Root>>, keys)

DataAt(nodes, p) == IF IsNode(p) THEN nodes[p.offset].data[p.i] ELSE InvalidOffT
=============================================================================
