--------------------------- MODULE MCAuthentication ---------------------------
(* A small instance: all ARNs of up to four characters, alone against every    *)
(* pattern of up to three short parts, and pairs of patterns.                  *)
EXTENDS Authentication, SequencesExt

MCChars == {"a", "b"}
MCArns == BoundedSeq(MCChars, 4)
Short(n, k) == BoundedSeq(BoundedSeq(MCChars, k), n) \ {<<>>}
MCConfigurations ==
    {<<>>} \cup {<<p>> : p \in Short(3, 2)}
           \cup {<<p, q>> : p, q \in Short(2, 1)}
===============================================================================
