---------------------------- MODULE MCPeerState ----------------------------
(***************************************************************************)
(* PeerState for TLC: the two delimiters and the byte whose successor      *)
(* wraps stand for all bytes.                                              *)
(***************************************************************************)
EXTENDS PeerState, TLC

Bytes == {Hat, Dollar, 255}

Symmetric == Permutations(FD)

=============================================================================
