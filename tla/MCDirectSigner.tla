--------------------------- MODULE MCDirectSigner ---------------------------
(* Instances of DirectSigner for TLC. *)
EXTENDS DirectSigner

CONSTANTS k1, k2, t1, t2

\* Two signers, the other one first; the same key also as an account that does not
\* sign; a message that k1 does not sign; a header that asks for too many signatures.
both == [body |-> "both", keys |-> <<k2, k1>>, need |-> 2]
sole == [body |-> "sole", keys |-> <<k1, k2, k1>>, need |-> 1]
other == [body |-> "other", keys |-> <<k2, k1>>, need |-> 1]
short == [body |-> "short", keys |-> <<k1>>, need |-> 2]
SomeMessages == {both, sole, other, short}

By(k, bytes) == [by |-> k, over |-> bytes]
Tx(m, sigs) == [message |-> m, signatures |-> sigs]

\* Unsigned, with and without slots, signed by the other party, and with what the
\* other party signed in the wrong slot.
SomeDrafts ==
    {Tx(both, <<>>), Tx(both, <<By(k2, both), NoSignature>>), Tx(sole, <<NoSignature>>),
     Tx(sole, <<By(k2, sole)>>),
     Tx(other, <<>>), Tx(short, <<>>)}

\* Signed as asked, by the wrong key, over another message, in the other slot, not at all.
SomeReturned ==
    {Tx(both, <<NoSignature, By(k1, both)>>), Tx(both, <<By(k2, both), By(k2, both)>>),
     Tx(both, <<By(k1, both), NoSignature>>), Tx(both, <<>>),
     Tx(sole, <<By(k1, sole)>>), Tx(sole, <<By(k1, both)>>), Tx(other, <<By(k2, other)>>)}

Good(b) ==
    [backend |-> b, key |-> IF b \in KeyInConfig THEN k1 ELSE NONE, wellFormed |-> TRUE,
     network |-> "known", byAddress |-> FALSE, credential |-> TRUE]

SomeConfigs ==
    {Good(b) : b \in Backends} \cup
    {[Good("vault") EXCEPT !.key = NONE], [Good("turnkey") EXCEPT !.byAddress = TRUE],
     [Good("turnkey") EXCEPT !.credential = FALSE], [Good("dfns") EXCEPT !.credential = FALSE],
     [Good("para") EXCEPT !.wellFormed = FALSE], [Good("cdp") EXCEPT !.network = "unset"],
     [Good("cdp") EXCEPT !.network = "unknown"], [Good("openfort") EXCEPT !.credential = FALSE]}

Plain == {t1}
Tabled == {sole}
=============================================================================
