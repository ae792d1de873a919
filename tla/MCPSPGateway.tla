---------------------------- MODULE MCPSPGateway ----------------------------
(***************************************************************************)
(* The PSP gateway on a small instance: three calls, one key that a        *)
(* payment and a refund share, and events of which one identity comes more *)
(* than once, with and without a transaction.                              *)
(***************************************************************************)
EXTENDS PSPGateway

CONSTANTS k1, e1

Execution(op, key) == [op |-> op, key |-> key]
Poll(n) == [op |-> "poll", tx |-> n]
Event(id, n, raw) == [op |-> "event", id |-> id, tx |-> n, raw |-> raw]

MCRequests ==
    {Execution("payment", k1), Execution("refund", k1), Execution("payout", NoKey),
     Poll(1), Event(e1, 1, "SUCCESS"), Event(e1, NoTx, NoStatus), Event(NoId, 1, "ON_HOLD")}
=============================================================================
