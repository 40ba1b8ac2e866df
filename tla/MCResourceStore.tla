-------------------------- MODULE MCResourceStore --------------------------
(***************************************************************************)
(* ResourceStore for TLC: two provider modules, an agent, a tool and a kit. *)
(***************************************************************************)
EXTENDS ResourceStore, TLC

CONSTANTS r1, r2

MCTool(c) == "code"
Item(f, ref) == [file |-> f, ref |-> ref]
Ask(op, items, over) == [op |-> op, items |-> items, over |-> over]

Puts == {Ask("save", <<i>>, TRUE) :
           i \in {Item("p1", "p2"), Item("p2", NoRef), Item("a1", "p1"),
                  Item("a1", "p2"), Item("k1", NoRef),
                  Item("t1", "code")}}
\* A kit with the provider its agent needs, and its tool; the other names a
\* provider that need not be there.
Bundles == {Ask("import", <<Item("p2", NoRef), Item("a1", "p2"), Item("t1", "code")>>, FALSE),
            Ask("import", <<Item("p1", "p2"), Item("k1", NoRef)>>, TRUE)}
Scaffolds == {Ask("scaffold", <<Item("a1", "main"), Item("t1", "code"), Item("k1", NoRef)>>, FALSE)}
Deletes == {Ask("delete", <<Item(f, NoRef)>>, TRUE) : f \in {"p2", "a1", "t1"}}

MCOffers == Puts \cup Bundles \cup Scaffolds \cup Deletes
MCSymmetry == Permutations(Requests)
=============================================================================
