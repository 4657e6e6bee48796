---------------------------- MODULE MCHashChains ----------------------------
(***************************************************************************)
(* Pieces of input for HashChains: runs, periods of two and three, and     *)
(* single bytes to break them up.                                          *)
(***************************************************************************)
EXTENDS HashChains

a == {}
b == {0}

MCWords ==
  {<<b>>, <<a, a, a, a, a>>, <<a, b, a, b, a>>, <<a, b, b, a, b, b>>}

=============================================================================
