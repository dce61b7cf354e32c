------------------------------- MODULE MC_Wire -------------------------------
(* Instances of Wire: arrays of one and two bytes, an empty one, one that has *)
(* no DType, one of the other byte order and, for the native SDKs, a          *)
(* bfloat16, one whose shape does not fit its bytes and one without a type.   *)
EXTENDS Wire

CONSTANTS k1, k2

A(k, t, n, bytes) ==
  [key |-> k, dtype |-> t, elems |-> n, data |-> bytes, swapped |-> FALSE]

MC_Array ==
  {A(k1, "UINT8", 1, <<1>>), A(k1, "UINT8", 0, <<>>), A(k2, "FLOAT16", 1, <<1, 2>>),
   [A(k2, "FLOAT16", 1, <<1, 2>>) EXCEPT !.swapped = TRUE],
   A(k2, "uint16", 1, <<1, 1>>), A(k2, "BFLOAT16", 1, <<2, 1>>), A(k1, "UINT8", 2, <<2>>),
   A(k2, Unspecified, 1, <<2>>)}

===============================================================================
