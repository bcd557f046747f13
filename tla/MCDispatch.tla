----------------------------- MODULE MCDispatch -----------------------------
(* Bounds for Dispatch: four versions of one module that differ in one     *)
(* export, in its order and in nothing, and one version of another module. *)
EXTENDS Dispatch, TLC

CONSTANTS m, n, f, g, v1, v2, v3, v4, w1, l1, l2

MCNames == {m, n}
MCKeys == {f, g}
MCVersions == {v1, v2, v3, v4, w1}
MCNameOf == v1 :> m @@ v2 :> m @@ v3 :> m @@ v4 :> m @@ w1 :> n
MCExports ==
  v1 :> <<f, g>> @@ v2 :> <<f, g>> @@ v3 :> <<g, f>> @@ v4 :> <<f>> @@ w1 :> <<g>>
MCLoaders == {l1, l2}
MCSymmetry == Permutations(MCLoaders)
=============================================================================
