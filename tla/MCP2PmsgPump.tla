----------------------------- MODULE MCP2PmsgPump -----------------------------
(* Instances of P2PmsgPump for TLC: which entry points each thread uses.   *)
EXTENDS P2PmsgPump, TLC

CONSTANTS t1, t2

\* One thread posts notifications and batches, the other messages and signals.
CallsMixed   == (t1 :> {"con", "batch"}) @@ (t2 :> {"msg", "sig"})
\* One thread tests the budget under m_oCSection, the other under the global lock.
CallsPostSig == (t1 :> {"con"}) @@ (t2 :> {"msg", "sig"})
\* One thread uses an entry point that takes only the global lock.
CallsSys     == (t1 :> {"sys"}) @@ (t2 :> {"con"})
=============================================================================
