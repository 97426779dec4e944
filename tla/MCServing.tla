----------------------------- MODULE MCServing -----------------------------
\* An instance of Serving for TLC.
EXTENDS Serving, TLC

CONSTANTS e1, e2, slow, any

\* Two exports, a rate that is not cached, and a request of another kind.
MCKinds ==
    e1 :> {"export"} @@ e2 :> {"export"} @@ slow :> {"rate"}
    @@ any :> {"stream", "ready"}
=============================================================================
