---------------------------- MODULE MCDiscovery ----------------------------
EXTENDS Discovery, TLC

CONSTANTS a, b, c

Interchangeable == Permutations({a, b, c})

OneBucket == [n \in Node |-> 0]
TwoBuckets == [n \in Node |-> IF n = a THEN 0 ELSE 1]
NoMessages == {}
NoBootnodes == <<>>
OneBootnode == <<a>>
Short == {<<b>>, <<a, b>>}
=============================================================================
