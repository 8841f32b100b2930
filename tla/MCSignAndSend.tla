--------------------------- MODULE MCSignAndSend ---------------------------
(* Instances of SignAndSend for TLC. *)
EXTENDS SignAndSend, TLC

CONSTANTS k1, k2, s1, s2

\* The same payment built twice, for both keys, and for the second key alone.
first == [body |-> "first", keys |-> <<k1, k2>>, need |-> 2]
again == [body |-> "again", keys |-> <<k1, k2>>, need |-> 2]
alone == [body |-> "alone", keys |-> <<k2>>, need |-> 1]
fresh == [body |-> "fresh", keys |-> <<k1, k2>>, need |-> 2]
SomeMessages == {first, again, alone, fresh}

By(k, bytes) == [by |-> k, over |-> bytes]
Tx(m, sigs) == [message |-> m, signatures |-> sigs]

SomeDrafts == {Tx(first, <<>>), Tx(again, <<NoSignature, NoSignature>>), Tx(alone, <<>>)}

\* With the provider's signature alone, with both, with one the rewrite has voided.
SomeRewritten ==
    {Tx(fresh, <<By(k1, fresh), NoSignature>>), Tx(fresh, <<By(k1, fresh), By(k2, fresh)>>),
     Tx(fresh, <<By(k1, fresh), By(k2, first)>>)}

Keyed == (s1 :> k1) @@ (s2 :> k2)

\* The fee payer signs, rewrites or sends; the cosigner is local or remote.
SomeCasts ==
    {(s1 :> a) @@ (s2 :> b) : a \in {"fireblocks", "fordefi_native_manual", "fordefi_native_auto"},
                              b \in {"memory", "vault"}}
=============================================================================
