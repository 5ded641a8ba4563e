----------------------------- MODULE MCDelivery -----------------------------
(* Instances of Delivery for TLC: markers of two symbols, one of them made of
   twice the same, two of them sharing a symbol. *)
EXTENDS Delivery

MCStreams == {"out", "err"}
MCSymbols == [out |-> {"a", "b"}, err |-> {"a"}]
MCEnd     == [out |-> <<<<"a", "b">>, <<"b", "b">>>>, err |-> <<<<"a">>>>]
MCReady   == [out |-> <<<<"a", "b">>>>, err |-> <<>>]
MCWarmup  == [out |-> <<<<"a", "a">>>>, err |-> <<>>]
MCStrip   == {"out"}
S(first, clients, inputs, out, err) ==
  [first |-> first, clients |-> clients, inputs |-> inputs,
   prints |-> [out |-> out, err |-> err]]
MCScenarios == {S("Booting", 0, 0, 4, 0), S("Warmup", 1, 1, 3, 0), S("Idle", 1, 1, 3, 0),
                S("Idle", 1, 2, 2, 1), S("Idle", 2, 2, 2, 0)}

Interchangeable == Permutations(Clients)
=============================================================================
