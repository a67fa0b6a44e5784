------------------------------ MODULE MCCodec -------------------------------
EXTENDS Codec

\* Every coefficient once, and boundary values in every place of a group.
Edge == {-3328, -1664, -1, 0, 1, 208, 1665, 3328}
Every == -3328 .. 3328

MCPairs == {<<x, 0>> : x \in Every} \cup {<<1, x>> : x \in Every} \cup (Edge \X Edge)
MCFours == {<<x, 3328, 0, 1>> : x \in Every} \cup {<<0, 1, 3328, x>> : x \in Every}
           \cup {<<w, x, y, z>> : w, x, y, z \in {-1, 0, 1665, 3328}}
MCEights == {<<x, 0, 3328, -1, x, 1665, x, 1>> : x \in Every}
            \cup {<<0, x, 3328, x, -1, x, 0, x>> : x \in Every}
            \cup {<<1, -3328, x, 0, 1665, 0, 3328, 1>> : x \in Every}
MCNoises == {[j \in 1 .. 8 |-> e] : e \in -832 .. 831}
            \cup {[j \in 1 .. 8 |-> IF j = i THEN -832 ELSE 831] : i \in 1 .. 8}
MCSums == -32768 .. 32767
MCProducts == {-109084672, 109084671}
              \cup {x * y : x \in {-3328, -1664, -1, 0, 1, 1441, 3328},
                            y \in {-32768, -17, -1, 0, 1, 1353, 32767}}
              \cup {32767 * x : x \in 0 .. 3328}
              \cup {-32768 * x + 5 : x \in -3328 .. 3328}
MCMessages == {0, 1, 17, 128, 254, 255}
=============================================================================
