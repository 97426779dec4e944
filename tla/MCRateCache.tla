---------------------------- MODULE MCRateCache ----------------------------
\* Instances of RateCache for TLC.
EXTENDS RateCache, TLC

CONSTANTS usd, eur

\* No bulletin on day 3.  The last two bulletins list the currencies in
\* opposite order, so that requests for day 4 can wait for each other.
Bulletins == 1 :> <<usd>> @@ 2 :> <<usd, eur>> @@ 4 :> <<eur, usd>>
=============================================================================
