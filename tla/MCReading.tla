------------------------------ MODULE MCReading -----------------------------
\* An instance of Reading for TLC: two accounts in two currencies, rows around
\* the turn of a year and at the end of a February, two rules that match the
\* same text, the one created first being of less priority.
EXTENDS Reading, TLC

CONSTANTS lira, dollar, TRY, USD, market, rent, migros, other, mig, m

Currencies == (lira :> TRY) @@ (dollar :> USD)
Filters    == {<<lira, NoCategory>>, <<lira, market>>}
Contained  == {<<migros, mig>>, <<migros, m>>}

Enter(account, day, amount, text, category) ==
    [account |-> account, day |-> day, amount |-> amount, text |-> text,
     category |-> category]

Entries ==
    {Enter(lira, <<2023, 12, 31>>, -2, migros, NoCategory),
     Enter(lira, <<2024, 1, 1>>, -1, migros, rent),
     Enter(dollar, <<2024, 2, 29>>, 3, other, NoCategory)}

Rules ==
    {[id |-> 1, priority |-> 10, pattern |-> m, category |-> rent],
     [id |-> 2, priority |-> 5, pattern |-> mig, category |-> market]}

WriterSymmetry == Permutations(Writer)

Months == {<<2023, 12>>, <<2024, 2>>}
=============================================================================
