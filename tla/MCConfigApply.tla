--------------------------- MODULE MCConfigApply ---------------------------
(* ConfigApply for TLC: two pairs that may want the same port, lists that edit, *)
(* move, remove and swap them.                                                  *)
EXTENDS ConfigApply, TLC

CONSTANTS p, q

On(address, content) == [enabled |-> TRUE, address |-> address, content |-> content]
Off(address, content) == [enabled |-> FALSE, address |-> address, content |-> content]

FirstOnPort  == p :> On("port", "old") @@ q :> Off("port", "old")
SecondOnPort == p :> Off("port", "old") @@ q :> On("port", "new")
Moved        == p :> On("other", "new") @@ q :> On("port", "old")
Alone        == p :> On("port", "new")

MCOffers == {FirstOnPort, SecondOnPort, Moved, Alone}

=============================================================================
