------------------------ MODULE MCDescriptorTable ------------------------
(* Model checking DescriptorTable on a small table. *)
EXTENDS DescriptorTable, TLC

Symmetry == Permutations(Thread) \cup Permutations(Obj)
==========================================================================
