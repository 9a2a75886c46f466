-------------------------- MODULE MCConvertScheduler --------------------------
EXTENDS ConvertScheduler
CONSTANTS a, b, c
MCKeys == {a, b, c}
TopsA == <<a>>
TopsAC == <<a, c, a>>
MCAliases == [k \in MCKeys |-> IF k = c THEN {"m_1"} ELSE {"m", "top"}]
Diamond == [k \in MCKeys |-> IF k = a THEN <<b, c, b>> ELSE IF k = b THEN <<c>> ELSE <<>>]
MCNames == {"top", "m", "m_1", "m_2", "m_1_1", "m_1_2", "m_3", "m_1_3"}
Colliding(k, n) ==
  IF k = c THEN CASE n = 0 -> "m_1" [] n = 1 -> "m_1_1" [] n = 2 -> "m_1_2" [] OTHER -> "m_1_3"
  ELSE CASE n = 0 -> "m" [] n = 1 -> "m_1" [] n = 2 -> "m_2" [] OTHER -> "m_3"

=============================================================================
