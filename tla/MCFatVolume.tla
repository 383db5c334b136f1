---------------------------- MODULE MCFatVolume ----------------------------
(* FatVolume with texts in which no two sectors are alike.                  *)
EXTENDS FatVolume

MCText == UNION {{t \in [1 .. k -> Data] : \A i, j \in 1 .. k : t[i] = t[j] => i = j} :
                    k \in 1 .. MaxLen}
=============================================================================
