--------------------------- MODULE MCCandidateCatalog ---------------------------
(* Deployments of CandidateCatalog for TLC. *)
EXTENDS CandidateCatalog, TLC

\* Four requests of any kind in one process.
Alone == [procs |-> {"p1"}, dims |-> {"small", "large"}, calls |-> 4, kinds |-> Kinds,
          contents |-> {Nothing, "i" :> "a" @@ "j" :> None},
          batches |-> {"i" :> "b" @@ "j" :> "blank"}]

\* Two processes, whose catalogs all have the same settings.
Sharing == [Alone EXCEPT !.calls = 3, !.procs = Procs, !.dims = {"small"}]

Deployments == {Alone, Sharing}

Conflicting == {[Alone EXCEPT !.calls = 3, !.procs = Procs, !.kinds = {"create", "delete", "upsert"}]}

CallSymmetry == Permutations(Calls)
=============================================================================
