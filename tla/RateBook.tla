------------------------------ MODULE RateBook ------------------------------
(***************************************************************************)
(* What the exchange rates promise, with no cache misses, retries or open  *)
(* transactions in sight: a book with one rate for each currency and day,  *)
(* written bulletin by bulletin and never corrected, from which all        *)
(* answers are read.                                                       *)
(***************************************************************************)
EXTENDS Integers, Sequences, SequencesExt

CONSTANTS Request, Currency, Day, Bulletin, Published, MAX_FALLBACK_DAYS

VARIABLES published, book, asked, answers

vars == <<published, book, asked, answers>>

Init ==
    /\ published = Published
    /\ book = {}
    /\ asked = [r \in Request |-> [codes |-> <<>>, day |-> 0]]
    /\ answers = [r \in Request |-> <<>>]

Publish ==
    /\ \E d \in DOMAIN Bulletin \ published : published' = published \cup {d}
    /\ UNCHANGED <<book, asked, answers>>

\* A request asks for one or two currencies on a day.
Questions == {<<c>> : c \in Currency} \cup {<<c, d>> : c, d \in Currency}

Ask(r, codes, day) ==
    /\ asked[r].codes = <<>> /\ answers[r] = <<>>
    /\ asked' = [asked EXCEPT ![r] = [codes |-> codes, day |-> day]]
    /\ UNCHANGED <<published, book, answers>>

\* Bulletins that may be entered for a day: near enough, and with none between
\* the two that was out from the start.
Eligible(day) ==
    {b \in published :
        /\ b <= day /\ day - b < MAX_FALLBACK_DAYS
        /\ \A d \in Published : d <= day => d <= b}

Entry(c, day, b) == [currency |-> c, requested |-> day, rate_date |-> b]

\* A whole bulletin is entered for the day of a question, except where the book
\* has an entry: that one stays.
Store(day, b) ==
    /\ b \in Eligible(day)
    /\ book' = book \cup
            {Entry(c, day, b) : c \in {k \in ToSet(Bulletin[b]) :
                \A t \in book : ~(t.currency = k /\ t.requested = day)}}
    /\ UNCHANGED <<published, asked, answers>>

\* The next currency of a question is answered from the book.
Answer(r) ==
    /\ asked[r].codes # <<>>
    /\ \E t \in book :
        /\ t.currency = Head(asked[r].codes) /\ t.requested = asked[r].day
        /\ answers' = [answers EXCEPT ![r] = Append(@, t)]
    /\ asked' = [asked EXCEPT ![r].codes = Tail(@)]
    /\ UNCHANGED <<published, book>>

Next ==
    \/ Publish
    \/ \E r \in Request, codes \in Questions, day \in Day : Ask(r, codes, day)
    \/ \E r \in Request, b \in published :
            asked[r].codes # <<>> /\ Store(asked[r].day, b)
    \/ \E r \in Request : Answer(r)

Spec == Init /\ [][Next]_vars
=============================================================================
