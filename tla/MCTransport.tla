---------------------------- MODULE MCTransport -----------------------------
(* Transport with bytes of eight values: 12 bytes are the first payload     *)
(* with a long abridged header and the last that fits in Full, 24 the      *)
(* largest one.                                                            *)
EXTENDS Transport

MCSizes == {4, 8, 12, 24}

MCLastBytes == {0, 3}

MCLosses == {0, 9}
=============================================================================
