----------------------------- MODULE MCConnPools -----------------------------
(* Instances of ConnPools for TLC.  Each cfg picks the kinds of its sources. *)
EXTENDS ConnPools, TLC

CONSTANTS a, b

\* A ping that is retried on a second pool, and a pool reached by Client(name).
RetryAndClient == (a :> "clickhouse") @@ (b :> "redis")
\* A Close that waits for operations, and a client with nothing to close.
WaitAndDrop == (a :> "mongodb") @@ (b :> "elasticsearch")
\* One source.
SQLite == a :> "sqlite"

\* Handlers are interchangeable; the refresher is not one of them.
HandlerSymmetry == Permutations(Handlers)

=============================================================================
