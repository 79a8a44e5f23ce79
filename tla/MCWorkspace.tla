---------------------------- MODULE MCWorkspace ----------------------------
(***************************************************************************)
(* Small instances of Workspace.                                           *)
(***************************************************************************)
EXTENDS Workspace, TLC

CONSTANTS a, b, c, t1, t2, v1, v2

Symmetry == Permutations(Tabs) \cup Permutations(Videos)

To(old, new) == [old |-> old, new |-> new]
\* Keywords are deleted, renamed, also to one that is there, and added, alone
\* and in one request.
Edit(deleted, renamed, added) == [deleted |-> deleted, renamed |-> renamed, added |-> added]
SomeEdits ==
    {Edit(d, p, <<>>) : d \in {<<>>, <<a>>, <<a, b>>},
                        p \in {<<>>, <<To(c, b)>>, <<To(c, a), To(b, a)>>}}
    \cup {Edit(<<>>, <<>>, <<a>>), Edit(<<>>, <<To(a, b), To(b, c)>>, <<>>)}

=============================================================================
