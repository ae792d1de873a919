----------------------------- MODULE MCChatBloc -----------------------------
(***************************************************************************)
(* The instance of ChatBloc that TLC checks: two conversations, and the    *)
(* messages that race in them.                                             *)
(***************************************************************************)
EXTENDS ChatBloc, TLC

CONSTANTS a, b

MCConvs == {a, b}
MCMsgs == {[conv |-> a, from |-> "me", no |-> 1], [conv |-> b, from |-> "peer", no |-> 2]}

Symmetry == Permutations(Reqs)
=============================================================================
