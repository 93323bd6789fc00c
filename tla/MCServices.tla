------------------------------ MODULE MCServices ------------------------------
EXTENDS Services
CONSTANTS k1, k2, long, m1, m2, t1

Setting(k, kd) == [key |-> k, kind |-> kd]

\* One that may be applied whole, one with a key that is too long, and one with a
\* setting of no known type and a version that does not fit an int32_t.
Documents ==
  {[version |-> 1, settings |-> <<Setting(k1, "string"), Setting(k2, "fraction")>>],
   [version |-> 2, settings |-> <<Setting(long, "bool")>>],
   [version |-> 3, settings |-> <<Setting(k2, "other"), Setting(k1, "negative fraction")>>]}
===============================================================================
