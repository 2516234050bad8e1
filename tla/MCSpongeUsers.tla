----------------------------- MODULE MCSpongeUsers -----------------------------
\* One function with a fixed digest and one with any, of different rates.  The key
\* and the seed are longer than a block, so that both sides of the sponge run over
\* several permutations.
EXTENDS SpongeUsers

MCModes == {"SHA3", "SHAKE"}
MCRate == [m \in MCModes |-> IF m = "SHA3" THEN 2 ELSE 3]
MCDigestLen == [m \in MCModes |-> IF m = "SHA3" THEN 2 ELSE AnyLen]
MCLengths == 0 .. 7
MCWanted == <<0, 8>>

================================================================================
