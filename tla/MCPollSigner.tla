---------------------------- MODULE MCPollSigner ----------------------------
(* Instances of PollSigner for TLC. *)
EXTENDS PollSigner

CONSTANTS k1, k2, f1

\* Paid by the vault and signed by another key as well; paid by that other key; v1.
paid == [body |-> "paid", keys |-> <<k1, k2>>, need |-> 2]
other == [body |-> "other", keys |-> <<k2, k1>>, need |-> 2]
v1 == [body |-> "v1", keys |-> <<k1>>, need |-> 1]
fresh == [body |-> "fresh", keys |-> <<k1, k2>>, need |-> 2]
SomeMessages == {paid, other, v1, fresh}
V1 == {v1}

By(k, bytes) == [by |-> k, over |-> bytes]
Tx(m, sigs) == [message |-> m, signatures |-> sigs]

SomeDrafts == {Tx(paid, <<NoSignature, By(k2, paid)>>), Tx(other, <<>>), Tx(v1, <<>>)}

\* As submitted, rewritten (which voids the other signature), by the wrong key, over
\* the message before the rewrite, unsigned.
SomeReturned ==
    {Tx(paid, <<By(k1, paid), NoSignature>>), Tx(fresh, <<By(k1, fresh), NoSignature>>),
     Tx(fresh, <<By(k2, fresh), NoSignature>>), Tx(fresh, <<By(k1, paid), NoSignature>>),
     Tx(other, <<NoSignature, By(k1, other)>>), Tx(fresh, <<>>)}

At(k, asset) == [address |-> k, asset |-> asset]
SomeVaults == {{At(k1, "same")}, {At(k1, NONE), At(k2, "other")}, {At(k1, "same"), At(k2, NONE)}}

Good(m) ==
    [mode |-> m, key |-> IF m \in Fordefi THEN k1 ELSE NONE, wellFormed |-> TRUE,
     attempts |-> IF m = "manual" THEN 1 ELSE 2,
     chain |-> m \in {"native_auto", "manual"}, push |-> IF m = "manual" THEN "manual" ELSE NONE,
     fee |-> NONE]

SomeConfigs ==
    {Good(m) : m \in Modes} \cup
    {[Good("raw") EXCEPT !.attempts = 0], [Good("utila") EXCEPT !.wellFormed = FALSE],
     [Good("black_box") EXCEPT !.chain = TRUE], [Good("native_auto") EXCEPT !.push = "manual"],
     [Good("manual") EXCEPT !.push = "auto"], [Good("manual") EXCEPT !.fee = f1]}
=============================================================================
