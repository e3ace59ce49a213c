------------------------- MODULE MCContractStorage -------------------------
(* Small instances of ContractStorage and U256 for TLC. *)
EXTENDS ContractStorage, TLC

CONSTANTS g, p

GuardedMaps == {g}
PlainMaps == {p}

\* The prefixes differ in their last byte; each key is the end of the other's.
Prefixes == (g :> <<1, 1>>) @@ (p :> <<1, 2>>)
TwoKeys == {<<1>>, <<2, 1>>}
Lock == <<3>>

\* Numbers whose sums and differences carry and borrow through every limb.
EdgeAmounts ==
  {[Zero EXCEPT !.lo1 = 1], [Zero EXCEPT !.lo1 = W - 1, !.lo2 = W - 1],
   [lo1 |-> W - 1, lo2 |-> W - 1, hi1 |-> W - 1, hi2 |-> W - 1]}
EdgeFactors == {H - 1}

=============================================================================
