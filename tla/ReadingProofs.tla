---------------------------- MODULE ReadingProofs ---------------------------
(***************************************************************************)
(* Proofs about Reading, for every ledger, set of rules, clients and       *)
(* writers: its types, that lists neither repeat nor hide rows, that the   *)
(* categories of rows follow the rules, and that reports, trends, exports  *)
(* and budgets agree with the ledger and with each other.                  *)
(***************************************************************************)
EXTENDS Reading, SumTheorems

\* Rows and rules are entered one by one, and are known by their ids.
Ledger(S) ==
    /\ S \in SUBSET Row /\ IsFiniteSet(S)
    /\ \A s, t \in S : s.id = t.id => s = t
RuleSet(Q) == Q \in SUBSET NewRule /\ IsFiniteSet(Q)

LedgerType == Ledger(rows) /\ RuleSet(rules)

Changes == [id : Id, category : Categories]

\* A writer that has not read rows has noted none.
WritersType ==
    /\ pc \in [Writer -> {"idle", "entering", "recategorizing", "loaded"}]
    /\ entry \in [Writer -> Entry \cup {NoCategory}]
    /\ chosen \in [Writer -> Categories]
    /\ known \in [Writer -> SUBSET NewRule]
    /\ changes \in [Writer -> SUBSET Changes]
    /\ loaded \in [Writer -> SUBSET Id]
    /\ overtaken \in [Writer -> BOOLEAN]
    /\ \A w \in Writer :
          /\ pc[w] = "entering" => entry[w] \in Entry
          /\ IsFiniteSet(known[w])
          /\ pc[w] # "loaded" => loaded[w] = {} /\ changes[w] = {}

Keys == [day : {e.day : e \in Entry}, id : Id]

PagerType ==
    /\ pager \in [at : {"closed", "open", "end"}, account : Account \cup {NoCategory},
                  category : Categories, cursor : SUBSET Keys,
                  seen : SUBSET Id, steady : SUBSET Id]
    /\ \A c, d \in pager.cursor : c = d

Group == [category : Categories, spent : Int]

ReportType ==
    report \in [at : {"none", "totals", "made"}, month : Month \cup {<<1, 1>>},
                currency : {Currency[a] : a \in Account} \cup {NoCategory},
                income : Nat, expenses : Nat, by_category : SUBSET Group,
                meanwhile : SUBSET Row]

HasId(ledger, i) == \E t \in ledger : t.id = i

\* What is noted by its id is in the ledger.
NotedAreRows ==
    /\ \A i \in pager.seen : HasId(rows, i)
    /\ \A w \in Writer : \A i \in loaded[w] : HasId(rows, i)

\* The steady rows are shown by the filter now.
SteadyAreShown == pager.at # "closed" => pager.steady \subseteq Shown(rows)

\* Nothing seen lies beyond the cursor; a list without a cursor has seen nothing.
SeenAreBehind ==
    pager.at = "open" =>
        /\ pager.cursor = {} => pager.seen = {}
        /\ \A t \in rows, c \in pager.cursor : t.id \in pager.seen => ~Beyond(t, c)

\* What is steady and not yet seen lies beyond the cursor.
UnseenAreBeyond ==
    pager.at = "open" =>
        \A t \in rows, c \in pager.cursor :
            t.id \in pager.steady \ pager.seen => Beyond(t, c)

PagerInv == SteadyAreShown /\ SeenAreBehind /\ UnseenAreBeyond /\ PagesHideNothing

\* The category a row will have once the changes noted are made.
WillBe(t, noted, category) ==
    /\ \A c \in noted : c.id = t.id => c.category = category
    /\ t.category = category \/ \E c \in noted : c.id = t.id

\* What the writer has read of the rules is so, and it will leave the rows it
\* has read as the rules say.
HasReadRules(w) ==
    /\ pc[w] = "entering" => chosen[w] = ChosenCategory(entry[w])
    /\ pc[w] = "recategorizing" => known[w] = rules
WillFollow(w) ==
    \A t \in rows : t.id \in loaded[w] =>
        WillBe(t, changes[w], MatchingCategory(rules, t.text))

UndisturbedFollow ==
    \A w \in Writer : overtaken[w] \/ (HasReadRules(w) /\ WillFollow(w))

\* Between its statements, a report's expenses and what was committed since are
\* what its month spends now.
ReportFits ==
    report.at = "totals" =>
        /\ IsFiniteSet(report.meanwhile)
        /\ \A t \in report.meanwhile : HasId(rows, t.id)
        /\ Expenses(MonthRows(rows, report.currency, report.month))
             = report.expenses
               + Expenses(MonthRows(report.meanwhile, report.currency, report.month))

ReportInv == ReportFits /\ ReportAddsUp

\* What the parts below rest on.
Basics == LedgerType /\ WritersType /\ PagerType /\ ReportType /\ NotedAreRows

InductiveInv == Basics /\ PagerInv /\ UndisturbedFollow /\ ReportInv

-----------------------------------------------------------------------------
(* Orders                                                                  *)

\* A finite set has an element that no other comes before.
LEMMA Minimal ==
    ASSUME NEW S, IsFiniteSet(S), S # {}, NEW R,
           \A x \in S : <<x, x>> \notin R,
           \A x, y, z \in S : <<x, y>> \in R /\ <<y, z>> \in R => <<x, z>> \in R
    PROVE  \E x \in S : \A y \in S : <<y, x>> \notin R
<1> DEFINE Under(x) == {y \in S : <<y, x>> \in R}
           Unders == {Under(x) : x \in S}
<1>1. Unders \in SUBSET (SUBSET S) /\ Unders # {}
  <2>1. \A x \in S : Under(x) \in SUBSET S /\ Under(x) \in Unders
    OBVIOUS
  <2> HIDE DEF Under
  <2> QED BY <2>1
<1>2. PICK T \in Unders : \A U \in Unders : U \subseteq T => U = T
  <2> HIDE DEF Unders
  <2> QED BY <1>1, Least
<1>3. PICK x \in S : T = Under(x)
  BY <1>2
<1>4. ASSUME NEW y \in S, <<y, x>> \in R PROVE FALSE
  <2>1. Under(y) \subseteq Under(x)
    BY <1>3, <1>4
  <2>2. y \in Under(x) /\ y \notin Under(y)
    BY <1>4
  <2>3. Under(y) \in Unders
    OBVIOUS
  <2> QED BY <1>2, <1>3, <2>1, <2>2, <2>3
<1> QED BY <1>3, <1>4

Days == {e.day : e \in Entry}

LEMMA DayIsTriple ==
    \A d \in Days : /\ d[1] \in Int /\ d[2] \in Int /\ d[3] \in Int
                    /\ d = <<d[1], d[2], d[3]>>
<1> SUFFICES ASSUME NEW d \in Days
             PROVE  /\ d[1] \in Int /\ d[2] \in Int /\ d[3] \in Int
                    /\ d = <<d[1], d[2], d[3]>>
  OBVIOUS
<1>1. d \in Date
  BY EntryAssumption DEF Days, IsDay
<1>2. /\ d = <<d[1], d[2], d[3]>>
      /\ d[1] \in Int /\ d[2] \in Int /\ d[3] \in Int
  <2> DEFINE Y == 1 .. 9999  M == 1 .. 12  D == 1 .. 31
  <2>1. d \in Y \X M \X D
    BY <1>1 DEF Date
  <2> HIDE DEF Y, M, D
  <2>2. d = <<d[1], d[2], d[3]>> /\ d[1] \in Y /\ d[2] \in M /\ d[3] \in D
    BY <2>1
  <2>3. Y \subseteq Int /\ M \subseteq Int /\ D \subseteq Int
    BY DEF Y, M, D
  <2> QED BY <2>2, <2>3
<1> QED BY <1>2

LEMMA DaysAreOrdered ==
    ASSUME NEW d \in Days, NEW e \in Days, NEW f \in Days
    PROVE  /\ ~Earlier(d, d)
           /\ Earlier(d, e) /\ Earlier(e, f) => Earlier(d, f)
           /\ Earlier(d, e) \/ Earlier(e, d) \/ d = e
<1>1. /\ d[1] \in Int /\ d[2] \in Int /\ d[3] \in Int
      /\ e[1] \in Int /\ e[2] \in Int /\ e[3] \in Int
      /\ f[1] \in Int /\ f[2] \in Int /\ f[3] \in Int
  BY DayIsTriple
<1>2. ~Earlier(d, d) /\ (Earlier(d, e) /\ Earlier(e, f) => Earlier(d, f))
  BY <1>1 DEF Earlier
<1>3. ASSUME ~Earlier(d, e), ~Earlier(e, d) PROVE d = e
  <2>1. d[1] = e[1] /\ d[2] = e[2] /\ d[3] = e[3]
    BY <1>1, <1>3 DEF Earlier
  <2>2. d = <<d[1], d[2], d[3]>> /\ e = <<e[1], e[2], e[3]>>
    BY DayIsTriple
  <2> QED BY <2>1, <2>2
<1> QED BY <1>2, <1>3

\* What has a day and an id: rows, and the keys of cursors.
IsKeyed(t) == t.day \in Days /\ t.id \in Nat

LEMMA RowsAreKeyed == \A t \in Row : IsKeyed(t) /\ IsKeyed(Key(t))
BY IdAssumption DEF Row, IsKeyed, Key, Days

LEMMA ListIsOrdered ==
    ASSUME NEW s, NEW t, NEW u, IsKeyed(s), IsKeyed(t), IsKeyed(u)
    PROVE  /\ ~Precedes(s, s)
           /\ Precedes(s, t) /\ Precedes(t, u) => Precedes(s, u)
           /\ Precedes(s, t) \/ Precedes(t, s) \/ (s.day = t.day /\ s.id = t.id)
<1>1. /\ s.day \in Days /\ t.day \in Days /\ u.day \in Days
      /\ s.id \in Nat /\ t.id \in Nat /\ u.id \in Nat
  BY DEF IsKeyed
<1>2. ~Precedes(s, s)
  BY <1>1, DaysAreOrdered DEF Precedes
<1>3. ASSUME Precedes(s, t), Precedes(t, u) PROVE Precedes(s, u)
  <2>1. CASE Earlier(t.day, s.day)
    BY <1>1, <1>3, <2>1, DaysAreOrdered DEF Precedes
  <2>2. CASE t.day = s.day /\ t.id < s.id
    BY <1>1, <1>3, <2>2 DEF Precedes
  <2> QED BY <1>3, <2>1, <2>2 DEF Precedes
<1>4. ASSUME ~Precedes(s, t), ~Precedes(t, s) PROVE s.day = t.day /\ s.id = t.id
  <2>1. s.day = t.day
    BY <1>1, <1>4, DaysAreOrdered DEF Precedes
  <2> QED BY <1>1, <1>4, <2>1 DEF Precedes
<1> QED BY <1>2, <1>3, <1>4

\* The WHERE of a page is its ORDER BY, cut at the cursor.
LEMMA BeyondIsAfter ==
    ASSUME NEW s, NEW t
    PROVE  (Beyond(t, s) <=> Precedes(s, t)) /\ (Beyond(t, Key(s)) <=> Precedes(s, t))
<1>1. Key(s).day = s.day /\ Key(s).id = s.id
  BY DEF Key
<1> QED BY <1>1 DEF Beyond, Precedes

-----------------------------------------------------------------------------
(* The first rows of a set                                                 *)

LEMMA LedgerSubset == \A S : Ledger(S) => \A T \in SUBSET S : Ledger(T)
BY FS_Subset DEF Ledger

\* The rows of a ledger that come before one of them.
Preceding(S, t) == {s \in S : Precedes(s, t)}

LEMMA PrecedingIsFinite ==
    ASSUME NEW S, Ledger(S), NEW t
    PROVE  IsFiniteSet(Preceding(S, t)) /\ Cardinality(Preceding(S, t)) \in Nat
<1>1. Preceding(S, t) \in SUBSET S
  BY DEF Preceding
<1> QED BY <1>1, FS_Subset, FS_CardinalityType DEF Ledger

LEMMA InLedger ==
    ASSUME NEW S, Ledger(S), NEW s \in S, NEW t \in S
    PROVE  /\ ~Precedes(s, s)
           /\ s # t => Precedes(s, t) \/ Precedes(t, s)
           /\ \A u \in S : Precedes(s, t) /\ Precedes(t, u) => Precedes(s, u)
<1>1. \A u \in S : IsKeyed(u)
  BY RowsAreKeyed DEF Ledger
<1>2. s.id = t.id => s = t
  BY DEF Ledger
<1> QED BY <1>1, <1>2, ListIsOrdered

LEMMA FirstRow ==
    ASSUME NEW S, Ledger(S), S # {}
    PROVE  \E t \in S : \A s \in S : ~Precedes(s, t)
<1> DEFINE R == {p \in S \X S : Precedes(p[1], p[2])}
<1>1. \A s, t \in S : <<s, t>> \in R <=> Precedes(s, t)
  OBVIOUS
<1> HIDE DEF R
<1>2. /\ \A s \in S : <<s, s>> \notin R
      /\ \A s, t, u \in S : <<s, t>> \in R /\ <<t, u>> \in R => <<s, u>> \in R
  BY <1>1, InLedger
<1>3. \E t \in S : \A s \in S : <<s, t>> \notin R
  BY <1>2, Minimal DEF Ledger
<1> QED BY <1>1, <1>3

LEMMA LastRow ==
    ASSUME NEW S, Ledger(S), S # {}
    PROVE  \E t \in S : \A s \in S \ {t} : Precedes(s, t)
<1> DEFINE R == {p \in S \X S : Precedes(p[2], p[1])}
<1>1. \A s, t \in S : <<s, t>> \in R <=> Precedes(t, s)
  OBVIOUS
<1> HIDE DEF R
<1>2. /\ \A s \in S : <<s, s>> \notin R
      /\ \A s, t, u \in S : <<s, t>> \in R /\ <<t, u>> \in R => <<s, u>> \in R
  BY <1>1, InLedger
<1>3. PICK t \in S : \A s \in S : <<s, t>> \notin R
  BY <1>2, Minimal DEF Ledger
<1>4. \A s \in S \ {t} : Precedes(s, t)
  BY <1>1, <1>3, InLedger
<1> QED BY <1>4

LEMMA FirstOfRestated ==
    ASSUME NEW n, NEW S
    PROVE  FirstOf(n, S) = {t \in S : Cardinality(Preceding(S, t)) < n}
BY DEF FirstOf, Preceding

\* What comes before one of the first rows is one of them.
LEMMA FirstOfIsInitial ==
    ASSUME NEW S, Ledger(S), NEW n \in Nat, NEW t \in FirstOf(n, S), NEW s \in S, Precedes(s, t)
    PROVE  s \in FirstOf(n, S)
<1>1. t \in S /\ Cardinality(Preceding(S, t)) < n
  BY FirstOfRestated
<1>2. Preceding(S, s) \in SUBSET Preceding(S, t)
  BY <1>1, InLedger DEF Preceding
<1>3. Cardinality(Preceding(S, s)) <= Cardinality(Preceding(S, t))
  BY <1>2, PrecedingIsFinite, FS_Subset
<1>4. Cardinality(Preceding(S, s)) < n
  BY <1>1, <1>3, PrecedingIsFinite
<1> QED BY <1>4, FirstOfRestated

LEMMA FirstOfSome ==
    ASSUME NEW S, Ledger(S), S # {}, NEW n \in Nat \ {0}
    PROVE  FirstOf(n, S) # {}
<1>1. PICK t \in S : \A s \in S : ~Precedes(s, t)
  BY FirstRow
<1>2. Cardinality(Preceding(S, t)) = 0
  BY <1>1, FS_EmptySet DEF Preceding
<1> QED BY <1>2, FirstOfRestated

\* If there are less than n first rows, they are all: the first row not among
\* them would have less than n before it.
LEMMA FirstOfAll ==
    ASSUME NEW S, Ledger(S), NEW n \in Nat, Cardinality(FirstOf(n, S)) < n
    PROVE  FirstOf(n, S) = S
<1> DEFINE F == FirstOf(n, S)
           T == S \ F
<1>1. F \subseteq S /\ IsFiniteSet(F) /\ Cardinality(F) \in Nat
  <2>1. F \in SUBSET S
    BY FirstOfRestated
  <2> QED BY <2>1, FS_Subset, FS_CardinalityType DEF Ledger
<1> SUFFICES ASSUME T # {} PROVE FALSE
  BY <1>1
<1>2. PICK t \in T : \A s \in T : ~Precedes(s, t)
  <2>1. Ledger(T)
    BY LedgerSubset
  <2> HIDE DEF T
  <2> QED BY <2>1, FirstRow
<1>3. Preceding(S, t) \in SUBSET F
  BY <1>2 DEF Preceding
<1>4. Cardinality(Preceding(S, t)) <= Cardinality(F)
  BY <1>1, <1>3, FS_Subset
<1>5. Cardinality(Preceding(S, t)) < n
  BY <1>1, <1>4, PrecedingIsFinite
<1> QED BY <1>2, <1>5, FirstOfRestated

\* Of n rows or less, the first n are all.
LEMMA FirstOfFew ==
    ASSUME NEW S, Ledger(S), NEW n \in Nat, Cardinality(S) <= n
    PROVE  FirstOf(n, S) = S
<1> SUFFICES ASSUME NEW t \in S PROVE Cardinality(Preceding(S, t)) < n
  BY FirstOfRestated
<1>1. Preceding(S, t) \in SUBSET S /\ Preceding(S, t) # S
  BY InLedger DEF Preceding
<1>2. IsFiniteSet(S) /\ Cardinality(S) \in Nat
  BY FS_CardinalityType DEF Ledger
<1>3. /\ Cardinality(Preceding(S, t)) <= Cardinality(S)
      /\ Cardinality(Preceding(S, t)) # Cardinality(S)
  BY <1>1, <1>2, FS_Subset
<1> QED BY <1>2, <1>3, PrecedingIsFinite

\* Of n rows or more, the first n are n: all but the last of them precede it.
LEMMA FirstOfSize ==
    ASSUME NEW S, Ledger(S), NEW n \in Nat \ {0}, n <= Cardinality(S)
    PROVE  Cardinality(FirstOf(n, S)) = n
<1> DEFINE F == FirstOf(n, S)
<1>1. F \in SUBSET S /\ IsFiniteSet(S) /\ Ledger(F)
  <2>1. F \in SUBSET S
    BY FirstOfRestated
  <2> QED BY <2>1, LedgerSubset DEF Ledger
<1>2. IsFiniteSet(F) /\ Cardinality(F) \in Nat /\ Cardinality(S) \in Nat
  BY <1>1, FS_CardinalityType DEF Ledger
<1>3. F # {}
  <2>1. S # {}
    BY FS_EmptySet
  <2> QED BY <2>1, FirstOfSome
<1>4. ~(Cardinality(F) < n)
  <2>1. Cardinality(FirstOf(n, S)) < n => Cardinality(S) < n
    BY FirstOfAll
  <2> QED BY <1>2, <2>1
<1>5. PICK t \in F : \A s \in F \ {t} : Precedes(s, t)
  <2> HIDE DEF F
  <2> QED BY <1>1, <1>3, LastRow
<1>6. Cardinality(Preceding(S, t)) < n
  BY <1>5, FirstOfRestated
<1>7. Cardinality(F \ {t}) <= Cardinality(Preceding(S, t))
  <2>1. F \ {t} \in SUBSET Preceding(S, t)
    BY <1>1, <1>5 DEF Preceding
  <2> HIDE DEF F
  <2> QED BY <2>1, PrecedingIsFinite, FS_Subset
<1> HIDE DEF F
<1>8. Cardinality(F \ {t}) = Cardinality(F) - 1
  BY <1>2, <1>5, FS_RemoveElement
<1>9. Cardinality(F) = n
  BY <1>2, <1>4, <1>6, <1>7, <1>8, PrecedingIsFinite
<1> QED BY <1>9 DEF F

-----------------------------------------------------------------------------
(* Rules                                                                   *)

Matching(Q, text) == {q \in Q : <<text, q.pattern>> \in Contains}

LEMMA RulesAreOrdered ==
    ASSUME NEW p \in NewRule, NEW q \in NewRule, NEW r \in NewRule
    PROVE  /\ ~Before(p, p)
           /\ Before(p, q) /\ Before(q, r) => Before(p, r)
           /\ p # q => Before(p, q) \/ Before(q, p)
<1>1. /\ p.id \in Nat /\ q.id \in Nat /\ r.id \in Nat
      /\ p.priority \in Int /\ q.priority \in Int /\ r.priority \in Int
      /\ p.id = q.id => p = q
  BY RuleAssumption, UniqueRuleIds
<1> QED BY <1>1 DEF Before

\* Of the rules that match there is a first one, and its category is chosen.
LEMMA FirstRule ==
    ASSUME NEW Q, RuleSet(Q), NEW text, Matching(Q, text) # {}
    PROVE  \E q \in Matching(Q, text) :
              /\ \A p \in Matching(Q, text) \ {q} : Before(q, p)
              /\ MatchingCategory(Q, text) = q.category
<1> DEFINE S == Matching(Q, text)
           IsFirst(q) == \A p \in S \ {q} : Before(q, p)
           R == {p \in S \X S : Before(p[1], p[2])}
<1>1. S \in SUBSET NewRule /\ IsFiniteSet(S)
  <2>1. S \in SUBSET Q
    BY DEF Matching
  <2> QED BY <2>1, FS_Subset DEF RuleSet
<1>2. \A p, q \in S : <<p, q>> \in R <=> Before(p, q)
  OBVIOUS
<1> HIDE DEF R, S
<1>3. /\ \A q \in S : <<q, q>> \notin R
      /\ \A p, q, r \in S : <<p, q>> \in R /\ <<q, r>> \in R => <<p, r>> \in R
  BY <1>1, <1>2, RulesAreOrdered
<1>4. S # {}
  BY DEF S
<1>5. PICK q \in S : \A p \in S : <<p, q>> \notin R
  BY <1>1, <1>3, <1>4, Minimal
<1>6. IsFirst(q)
  BY <1>1, <1>2, <1>5, RulesAreOrdered
<1>7. MatchingCategory(Q, text) = (CHOOSE r \in S : IsFirst(r)).category
  BY <1>4 DEF MatchingCategory, S, Matching
<1>8. (CHOOSE r \in S : IsFirst(r)) \in S /\ IsFirst(CHOOSE r \in S : IsFirst(r))
  BY <1>5, <1>6
<1> QED BY <1>7, <1>8 DEF S

LEMMA MatchingType ==
    ASSUME NEW Q, RuleSet(Q), NEW text
    PROVE  MatchingCategory(Q, text) \in Categories
<1>1. CASE Matching(Q, text) = {}
  BY <1>1 DEF MatchingCategory, Matching, Categories
<1>2. CASE Matching(Q, text) # {}
  <2>1. PICK q \in Matching(Q, text) : MatchingCategory(Q, text) = q.category
    BY <1>2, FirstRule
  <2>2. q \in NewRule
    BY DEF Matching, RuleSet
  <2> QED BY <2>1, <2>2, RuleAssumption DEF Categories
<1> QED BY <1>1, <1>2

\* The category chosen by the order of rules is that of the least rule.
LEMMA MatchingFollows ==
    ASSUME RuleSet(rules), NEW text
    PROVE  ByRules(MatchingCategory(rules, text), text)
<1> DEFINE S == Matching(rules, text)
           least == {q \in S : \A p \in S : q.priority < p.priority
                                    \/ (q.priority = p.priority /\ q.id <= p.id)}
<1>1. CASE S = {}
  BY <1>1 DEF MatchingCategory, ByRules, Matching
<1>2. CASE S # {}
  <2>1. PICK q \in S : /\ \A p \in S \ {q} : Before(q, p)
                       /\ MatchingCategory(rules, text) = q.category
    BY <1>2, FirstRule
  <2>2. ASSUME NEW p \in S
        PROVE  q.priority < p.priority \/ (q.priority = p.priority /\ q.id <= p.id)
    <3>1. p \in NewRule /\ q \in NewRule
      BY DEF Matching, RuleSet
    <3>2. /\ p.id \in Nat /\ q.id \in Nat /\ p.priority \in Int /\ q.priority \in Int
      BY <3>1, RuleAssumption
    <3>3. p = q \/ Before(q, p)
      BY <2>1
    <3> QED BY <3>2, <3>3 DEF Before
  <2>3. q \in least
    BY <2>2
  <2>4. ByRules(q.category, text)
    BY <1>2, <2>3 DEF ByRules, Matching
  <2> QED BY <2>1, <2>4
<1> QED BY <1>1, <1>2

-----------------------------------------------------------------------------
(* Sums                                                                    *)

Amounts == [t \in Row |-> t.amount]

LEMMA AmountsAreNumbers ==
    \A t \in Row : t.amount \in Int /\ Amounts[t] = t.amount
<1>1. \A e \in Entry : e.amount \in Int
  BY EntryAssumption
<1> QED BY <1>1 DEF Row, Amounts

LEMMA SumIsTotal ==
    ASSUME NEW S \in SUBSET Row
    PROVE  Sum(S) = Total(Amounts, S)
<1> DEFINE F(g) == [s \in SUBSET S |-> IF s = {} THEN 0
                                       ELSE (Pick(s)).amount + g[s \ {Pick(s)}]]
<1>1. \A g : F(g) = Iter(Amounts, S, g)
  <2>1. \A s \in SUBSET S : s # {} => Pick(s) \in Row
    BY PickIsElement
  <2> QED BY <2>1 DEF Iter, Amounts
<1>2. Sum(S) = (CHOOSE g : g = F(g))[S]
  BY DEF Sum, Pick, MapThenSumSet, MapThenFoldSet
<1> HIDE DEF F
<1>3. (CHOOSE g : g = F(g)) = (CHOOSE g : g = Iter(Amounts, S, g))
  BY <1>1
<1> QED BY <1>2, <1>3, TotalIsIter

LEMMA IncomeType ==
    ASSUME NEW S \in SUBSET Row, IsFiniteSet(S)
    PROVE  Income(S) \in Nat
<1> DEFINE P == {t \in S : t.amount > 0}
<1>1. P \in SUBSET S /\ P \in SUBSET Row /\ \A t \in P : Amounts[t] \in Nat
  BY AmountsAreNumbers
<1>2. Income(S) = Sum(P)
  BY DEF Income
<1> HIDE DEF P
<1>3. IsFiniteSet(P)
  BY <1>1, FS_Subset
<1> QED BY <1>1, <1>2, <1>3, SumIsTotal, SumOfNaturals

Spending == [t \in Row |-> -t.amount]
Spent(S) == {t \in S : t.amount < 0}

LEMMA ExpensesAreTotal ==
    ASSUME NEW S \in SUBSET Row, IsFiniteSet(S)
    PROVE  Expenses(S) = Total(Spending, Spent(S))
<1> DEFINE P == Spent(S)
<1>1. P \in SUBSET S /\ P \in SUBSET Row
  BY DEF Spent
<1>2. Expenses(S) = -Sum(P)
  BY DEF Expenses, Spent
<1> HIDE DEF P
<1>3. IsFiniteSet(P)
  BY <1>1, FS_Subset
<1>4. \A t \in P : Amounts[t] \in Int /\ Spending[t] = -Amounts[t]
  BY <1>1, AmountsAreNumbers DEF Spending
<1>5. Total(Spending, P) = -Total(Amounts, P)
  BY <1>3, <1>4, SumOfOpposites
<1> QED BY <1>1, <1>2, <1>5, SumIsTotal DEF P

LEMMA ExpensesType ==
    ASSUME NEW S \in SUBSET Row, IsFiniteSet(S)
    PROVE  Expenses(S) \in Nat
<1>1. Spent(S) \in SUBSET S
  BY DEF Spent
<1>2. \A t \in Spent(S) : Spending[t] \in Nat
  BY AmountsAreNumbers DEF Spent, Spending
<1>3. IsFiniteSet(Spent(S))
  BY <1>1, FS_Subset
<1>4. Total(Spending, Spent(S)) \in Nat
  BY <1>2, <1>3, SumOfNaturals
<1> QED BY <1>4, ExpensesAreTotal

-----------------------------------------------------------------------------
(* Pages                                                                   *)

\* What the list has still to show, and the page of it that comes next.
Rest == {t \in Selected(rows, pager.account, pager.category) :
            \A c \in pager.cursor : Beyond(t, c)}
Items(limit) == FirstOf(limit, Fetched(limit))
More(limit) == Cardinality(Fetched(limit)) > limit

\* A page that is not the last one ends with a row that all the rest comes
\* after; the last page has all the rest.
LEMMA Page ==
    ASSUME Ledger(rows), NEW limit \in Limit
    PROVE  /\ Rest \in SUBSET rows /\ Items(limit) \in SUBSET Rest
           /\ ~More(limit) => Items(limit) = Rest
           /\ More(limit) =>
                \E t \in Items(limit) :
                    /\ CursorOf(Items(limit)) = Key(t)
                    /\ \A s \in Items(limit) : s = t \/ Precedes(s, t)
                    /\ \A s \in Rest \ Items(limit) : Precedes(t, s)
<1> DEFINE F == Fetched(limit)
           I == Items(limit)
<1>1. limit \in Nat \ {0} /\ limit + 1 \in Nat
  BY LimitAssumption
<1>2. Rest \in SUBSET rows /\ F = FirstOf(limit + 1, Rest) /\ I = FirstOf(limit, F)
  BY DEF Rest, Selected, Fetched, Items
<1>3. F \in SUBSET Rest /\ I \in SUBSET F
  BY <1>2, FirstOfRestated
<1>4. Ledger(Rest) /\ Ledger(F) /\ Ledger(I)
  BY <1>2, <1>3, LedgerSubset
<1>5. Cardinality(F) \in Nat
  BY <1>4, FS_CardinalityType DEF Ledger
<1> HIDE DEF F, I
<1>6. ASSUME ~(Cardinality(F) > limit) PROVE I = Rest
  <2>1. Cardinality(F) < limit + 1 /\ Cardinality(F) <= limit
    BY <1>1, <1>5, <1>6
  <2>2. F = Rest
    <3>1. Cardinality(FirstOf(limit + 1, Rest)) < limit + 1
      BY <1>2, <2>1
    <3> QED BY <1>1, <1>2, <1>4, <3>1, FirstOfAll
  <2>3. I = F
    BY <1>1, <1>2, <1>4, <2>1, FirstOfFew
  <2> QED BY <2>2, <2>3
<1>7. ASSUME Cardinality(F) > limit
      PROVE  \E t \in I : /\ CursorOf(I) = Key(t)
                          /\ \A s \in I : s = t \/ Precedes(s, t)
                          /\ \A s \in Rest \ I : Precedes(t, s)
  <2>1. F # {}
    BY <1>1, <1>7, FS_EmptySet
  <2>2. I # {}
    BY <1>1, <1>2, <1>4, <2>1, FirstOfSome
  <2> DEFINE IsLast(t) == \A s \in I \ {t} : Precedes(s, t)
             last == CHOOSE t \in I : IsLast(t)
  <2>3. \E t \in I : IsLast(t)
    BY <1>4, <2>2, LastRow
  <2>4. last \in I /\ IsLast(last)
    BY <2>3
  <2>5. CursorOf(I) = Key(last)
    BY DEF CursorOf
  <2> HIDE DEF last
  <2>6. ASSUME NEW s \in Rest, s \notin I PROVE Precedes(last, s)
    <3>1. last \in F /\ last \in Rest
      BY <1>3, <2>4
    <3>2. ASSUME Precedes(s, last) PROVE FALSE
      <4>1. s \in F
        BY <1>1, <1>2, <1>4, <3>1, <3>2, FirstOfIsInitial
      <4>2. s \in I
        BY <1>1, <1>2, <1>4, <2>4, <3>2, <4>1, FirstOfIsInitial
      <4> QED BY <2>6, <4>2
    <3>3. s # last
      BY <2>4, <2>6
    <3> QED BY <1>4, <3>1, <3>2, <3>3, InLedger
  <2> QED BY <2>4, <2>5, <2>6
<1> QED BY <1>2, <1>3, <1>6, <1>7 DEF F, I, More

-----------------------------------------------------------------------------
(* Types                                                                   *)

LEMMA BasicsType == Basics => TypeOK
BY DEF Basics, LedgerType, Ledger, RuleSet, WritersType, PagerType, ReportType, TypeOK, Changes

LEMMA InitBasics == Init => Basics
<1> SUFFICES ASSUME Init PROVE Basics
  OBVIOUS
<1>1. LedgerType
  BY FS_EmptySet DEF Init, LedgerType, Ledger, RuleSet
<1>2. WritersType
  BY FS_EmptySet DEF Init, WritersType, Categories
<1>3. PagerType
  BY DEF Init, NoPager, PagerType, Categories
<1>4. ReportType
  BY DEF Init, NoReport, ReportType
<1>5. NotedAreRows
  BY DEF Init, NoPager, NotedAreRows
<1> QED BY <1>1, <1>2, <1>3, <1>4, <1>5 DEF Basics

LEMMA NoPagerType == NoPager \in [at : {"closed", "open", "end"},
                  account : Account \cup {NoCategory},
                  category : Categories, cursor : SUBSET Keys,
                  seen : SUBSET Id, steady : SUBSET Id]
BY DEF NoPager, Categories

LEMMA CreateRuleBasics ==
    ASSUME Basics, NEW q \in NewRule, CreateRule(q)
    PROVE  Basics'
<1>1. /\ rules' = rules \cup {q}
      /\ overtaken' = [w \in Writer |-> pc[w] # "idle"]
      /\ UNCHANGED <<rows, pc, entry, chosen, known, changes, loaded, pager, report>>
  BY DEF CreateRule
<1>2. LedgerType'
  BY <1>1, FS_AddElement DEF Basics, LedgerType, Ledger, RuleSet
<1>3. WritersType'
  <2>1. overtaken' \in [Writer -> BOOLEAN]
    BY <1>1
  <2> QED BY <1>1, <2>1 DEF Basics, WritersType
<1>4. PagerType' /\ ReportType' /\ NotedAreRows'
  BY <1>1 DEF Basics, PagerType, ReportType, NotedAreRows
<1> QED BY <1>2, <1>3, <1>4 DEF Basics

LEMMA ChosenType ==
    ASSUME RuleSet(rules), NEW e \in Entry
    PROVE  ChosenCategory(e) \in Categories
BY MatchingType, EntryAssumption DEF ChosenCategory, Categories

LEMMA ChooseCategoryBasics ==
    ASSUME Basics, NEW w \in Writer, NEW e \in Entry, ChooseCategory(w, e)
    PROVE  Basics'
<1>1. /\ pc' = [pc EXCEPT ![w] = "entering"]
      /\ entry' = [entry EXCEPT ![w] = e]
      /\ chosen' = [chosen EXCEPT ![w] = ChosenCategory(e)]
      /\ pc[w] = "idle"
      /\ UNCHANGED <<rows, rules, known, changes, loaded, overtaken, pager, report>>
  BY DEF ChooseCategory
<1>2. ChosenCategory(e) \in Categories
  BY ChosenType DEF Basics, LedgerType
<1>3. WritersType'
  BY <1>1, <1>2 DEF Basics, WritersType
<1>4. LedgerType' /\ PagerType' /\ ReportType' /\ NotedAreRows'
  BY <1>1 DEF Basics, LedgerType, PagerType, ReportType, NotedAreRows
<1> QED BY <1>3, <1>4 DEF Basics

\* A request that ends leaves nothing behind.
LEMMA EndsType ==
    ASSUME WritersType, NEW w \in Writer, Ends(w), overtaken' \in [Writer -> BOOLEAN]
    PROVE  WritersType' /\ loaded'[w] = {} /\ \A v \in Writer : loaded'[v] \subseteq loaded[v]
<1>1. /\ pc' = [pc EXCEPT ![w] = "idle"]
      /\ entry' = [entry EXCEPT ![w] = NoCategory]
      /\ chosen' = [chosen EXCEPT ![w] = NoCategory]
      /\ known' = [known EXCEPT ![w] = {}]
      /\ changes' = [changes EXCEPT ![w] = {}]
      /\ loaded' = [loaded EXCEPT ![w] = {}]
  BY DEF Ends
<1>2. /\ pc' \in [Writer -> {"idle", "entering", "recategorizing", "loaded"}]
      /\ entry' \in [Writer -> Entry \cup {NoCategory}]
      /\ chosen' \in [Writer -> Categories]
      /\ known' \in [Writer -> SUBSET NewRule]
      /\ changes' \in [Writer -> SUBSET Changes]
      /\ loaded' \in [Writer -> SUBSET Id]
  BY <1>1 DEF WritersType, Categories
<1>3. ASSUME NEW v \in Writer
      PROVE  /\ pc'[v] = "entering" => entry'[v] \in Entry
             /\ IsFiniteSet(known'[v])
             /\ pc'[v] # "loaded" => loaded'[v] = {} /\ changes'[v] = {}
             /\ loaded'[v] \subseteq loaded[v]
  BY <1>1, FS_EmptySet DEF WritersType
<1>4. loaded'[w] = {}
  BY <1>1 DEF WritersType
<1> QED BY <1>2, <1>3, <1>4 DEF WritersType

RowOf(w, id) ==
    [id |-> id, account |-> entry[w].account, day |-> entry[w].day,
     amount |-> entry[w].amount, text |-> entry[w].text, category |-> chosen[w]]

LEMMA RowOfIsRow ==
    ASSUME WritersType, NEW w \in Writer, pc[w] = "entering", NEW id \in Id
    PROVE  RowOf(w, id) \in Row /\ RowOf(w, id).id = id
<1>1. entry[w] \in Entry /\ chosen[w] \in Categories
  BY DEF WritersType
<1>2. entry[w].account \in Account /\ entry[w].text \in Text
  BY <1>1, EntryAssumption
<1>3. entry[w].day \in {e.day : e \in Entry} /\ entry[w].amount \in {e.amount : e \in Entry}
  BY <1>1
<1> QED BY <1>1, <1>2, <1>3 DEF RowOf, Row

LEMMA CommitRowBasics ==
    ASSUME Basics, NEW w \in Writer, NEW id \in Id, CommitRow(w, id)
    PROVE  Basics'
<1> DEFINE row == RowOf(w, id)
<1>1. /\ pc[w] = "entering" /\ id \notin {t.id : t \in rows}
      /\ rows' = rows \cup {row}
      /\ report' = IF report.at = "totals"
                     THEN [report EXCEPT !.meanwhile = @ \cup {row}] ELSE report
      /\ Ends(w)
      /\ overtaken' = [overtaken EXCEPT ![w] = FALSE]
      /\ rules' = rules /\ pager' = pager
  BY DEF CommitRow, RowOf
<1>2. row \in Row /\ row.id = id
  BY <1>1, RowOfIsRow DEF Basics
<1> HIDE DEF row
<1>3. LedgerType'
  <2>1. rows \in SUBSET Row /\ IsFiniteSet(rows) /\ \A s, t \in rows : s.id = t.id => s = t
    BY DEF Basics, LedgerType, Ledger
  <2>2. IsFiniteSet(rows')
    BY <1>1, <2>1, FS_AddElement
  <2>3. \A s, t \in rows' : s.id = t.id => s = t
    BY <1>1, <1>2, <2>1
  <2> QED BY <1>1, <1>2, <2>1, <2>2, <2>3 DEF Basics, LedgerType, Ledger
<1>4. overtaken' \in [Writer -> BOOLEAN]
  BY <1>1 DEF Basics, WritersType
<1>5. WritersType' /\ \A v \in Writer : loaded'[v] \subseteq loaded[v]
  BY <1>1, <1>4, EndsType DEF Basics
<1>6. ReportType'
  BY <1>1, <1>2 DEF Basics, ReportType
<1>7. PagerType' /\ NotedAreRows'
  BY <1>1, <1>5 DEF Basics, PagerType, NotedAreRows, HasId
<1> QED BY <1>3, <1>5, <1>6, <1>7 DEF Basics

LEMMA ReadRulesBasics ==
    ASSUME Basics, NEW w \in Writer, ReadRules(w)
    PROVE  Basics'
<1>1. /\ pc[w] = "idle"
      /\ pc' = [pc EXCEPT ![w] = "recategorizing"]
      /\ known' = [known EXCEPT ![w] = rules]
      /\ UNCHANGED <<rows, rules, entry, chosen, changes, loaded, overtaken, pager, report>>
  BY DEF ReadRules
<1>2. WritersType'
  BY <1>1 DEF Basics, WritersType, LedgerType, RuleSet
<1>3. LedgerType' /\ PagerType' /\ ReportType' /\ NotedAreRows'
  BY <1>1 DEF Basics, LedgerType, PagerType, ReportType, NotedAreRows
<1> QED BY <1>2, <1>3 DEF Basics

LEMMA ChangedType ==
    ASSUME LedgerType, WritersType, NEW w \in Writer
    PROVE  Changed(w) \in SUBSET Changes
<1>1. RuleSet(known[w])
  BY DEF WritersType, RuleSet
<1>2. ASSUME NEW t \in rows
      PROVE  [id |-> t.id, category |-> MatchingCategory(known[w], t.text)] \in Changes
  <2>1. t.id \in Id
    BY DEF LedgerType, Ledger, Row
  <2>2. MatchingCategory(known[w], t.text) \in Categories
    BY <1>1, MatchingType
  <2> QED BY <2>1, <2>2 DEF Changes
<1> QED BY <1>2 DEF Changed

LEMMA ReadRowsBasics ==
    ASSUME Basics, NEW w \in Writer, ReadRows(w)
    PROVE  Basics'
<1>1. /\ pc' = [pc EXCEPT ![w] = "loaded"]
      /\ changes' = [changes EXCEPT ![w] = Changed(w)]
      /\ loaded' = [loaded EXCEPT ![w] = {t.id : t \in rows}]
      /\ known' = [known EXCEPT ![w] = {}]
      /\ UNCHANGED <<rows, rules, entry, chosen, overtaken, pager, report>>
  BY DEF ReadRows
<1>2. Changed(w) \in SUBSET Changes
  BY ChangedType DEF Basics
<1>3. {t.id : t \in rows} \in SUBSET Id
  BY DEF Basics, LedgerType, Ledger, Row
<1>4. WritersType'
  <2>1. /\ pc' \in [Writer -> {"idle", "entering", "recategorizing", "loaded"}]
        /\ known' \in [Writer -> SUBSET NewRule]
        /\ changes' \in [Writer -> SUBSET Changes]
        /\ loaded' \in [Writer -> SUBSET Id]
    BY <1>1, <1>2, <1>3 DEF Basics, WritersType
  <2>2. ASSUME NEW v \in Writer
        PROVE  /\ pc'[v] = "entering" => entry[v] \in Entry
               /\ IsFiniteSet(known'[v])
               /\ pc'[v] # "loaded" => loaded'[v] = {} /\ changes'[v] = {}
    BY <1>1, FS_EmptySet DEF Basics, WritersType
  <2> QED BY <1>1, <2>1, <2>2 DEF Basics, WritersType
<1>5. NotedAreRows'
  BY <1>1 DEF Basics, WritersType, NotedAreRows, HasId
<1>6. LedgerType' /\ PagerType' /\ ReportType'
  BY <1>1 DEF Basics, LedgerType, PagerType, ReportType
<1> QED BY <1>4, <1>5, <1>6 DEF Basics

\* A row after the changes noted, if there is one for it.
After(t, noted) ==
    IF \E c \in noted : c.id = t.id
      THEN [t EXCEPT !.category = (CHOOSE c \in noted : c.id = t.id).category]
      ELSE t

\* Re-categorising changes the category and nothing else.
LEMMA AfterIsSame ==
    ASSUME NEW t \in Row, NEW noted \in SUBSET Changes
    PROVE  /\ After(t, noted) \in Row
           /\ After(t, noted).id = t.id /\ After(t, noted).account = t.account
           /\ After(t, noted).day = t.day /\ After(t, noted).amount = t.amount
           /\ After(t, noted).text = t.text
<1>1. CASE \E c \in noted : c.id = t.id
  <2> DEFINE c == CHOOSE c \in noted : c.id = t.id
  <2>1. c \in Changes
    BY <1>1
  <2>2. c.category \in Categories
    BY <2>1 DEF Changes
  <2>3. After(t, noted) = [t EXCEPT !.category = c.category]
    BY <1>1 DEF After
  <2> HIDE DEF c
  <2> QED BY <2>2, <2>3 DEF Row
<1>2. CASE ~\E c \in noted : c.id = t.id
  BY <1>2 DEF After
<1> QED BY <1>1, <1>2

LEMMA RecategorizedLedger ==
    ASSUME LedgerType, NEW noted \in SUBSET Changes,
           rows' = {After(t, noted) : t \in rows}
    PROVE  Ledger(rows')
<1>1. rows \in SUBSET Row /\ IsFiniteSet(rows) /\ \A s, t \in rows : s.id = t.id => s = t
  BY DEF LedgerType, Ledger
<1>2. rows' \in SUBSET Row
  BY <1>1, AfterIsSame
<1>3. IsFiniteSet(rows')
  <2> DEFINE f == [t \in rows |-> After(t, noted)]
  <2>1. \A s \in rows' : \E t \in rows : s = f[t]
    OBVIOUS
  <2>2. IsFiniteSet(rows)
    BY <1>1
  <2> HIDE DEF f
  <2> QED BY ONLY <2>1, <2>2, FiniteImage
<1>4. ASSUME NEW s \in rows', NEW t \in rows', s.id = t.id PROVE s = t
  <2>1. PICK u \in rows : s = After(u, noted)
    OBVIOUS
  <2>2. PICK v \in rows : t = After(v, noted)
    OBVIOUS
  <2>3. u.id = v.id
    BY <1>1, <1>4, <2>1, <2>2, AfterIsSame
  <2> QED BY <1>1, <2>1, <2>2, <2>3
<1> QED BY <1>2, <1>3, <1>4 DEF Ledger

LEMMA RecategorizeBasics ==
    ASSUME Basics, NEW w \in Writer, Recategorize(w)
    PROVE  Basics'
<1>1. /\ rows' = {After(t, changes[w]) : t \in rows}
      /\ Ends(w)
      /\ overtaken' \in [Writer -> BOOLEAN]
      /\ pager' = [pager EXCEPT !.steady = @ \cap Shown(rows')]
      /\ rules' = rules /\ report' = report
  BY DEF Recategorize, After, StillShown
<1>2. changes[w] \in SUBSET Changes
  BY DEF Basics, WritersType
<1>3. LedgerType'
  BY <1>1, <1>2, RecategorizedLedger DEF Basics, LedgerType
<1>4. WritersType' /\ \A v \in Writer : loaded'[v] \subseteq loaded[v]
  BY <1>1, EndsType DEF Basics
<1>5. PagerType' /\ pager'.seen = pager.seen
  BY <1>1 DEF Basics, PagerType
<1>6. \A i : HasId(rows, i) => HasId(rows', i)
  <2> SUFFICES ASSUME NEW i, NEW t \in rows, t.id = i PROVE HasId(rows', i)
    BY DEF HasId
  <2>1. After(t, changes[w]).id = i /\ After(t, changes[w]) \in rows'
    BY <1>1, <1>2, AfterIsSame DEF Basics, LedgerType, Ledger
  <2> QED BY <2>1 DEF HasId
<1>7. NotedAreRows'
  BY <1>4, <1>5, <1>6 DEF Basics, NotedAreRows
<1>8. ReportType'
  BY <1>1 DEF Basics, ReportType
<1> QED BY <1>3, <1>4, <1>5, <1>7, <1>8 DEF Basics

\* A step of a reader leaves the ledger and the writers alone.
LEMMA ReaderBasics ==
    ASSUME Basics, UNCHANGED <<rows, rules, writers>>, PagerType', ReportType',
           \A i \in pager'.seen : HasId(rows, i)
    PROVE  Basics'
<1>1. LedgerType' /\ WritersType'
  BY DEF writers, Basics, LedgerType, WritersType
<1>2. NotedAreRows'
  BY DEF writers, Basics, NotedAreRows
<1> QED BY <1>1, <1>2 DEF Basics

LEMMA OpenListBasics ==
    ASSUME Basics, NEW f \in Filter, OpenList(f[1], f[2])
    PROVE  Basics'
<1> DEFINE shown == {t.id : t \in Selected(rows, f[1], f[2])}
<1>1. shown \in SUBSET Id
  BY DEF Basics, LedgerType, Ledger, Row, Selected
<1>2. f[1] \in Account /\ f[2] \in Categories
  BY FilterAssumption DEF Categories
<1>3. pager' = [NoPager EXCEPT !.at = "open", !.account = f[1], !.category = f[2],
                    !.steady = shown]
  BY DEF OpenList
<1>4. UNCHANGED <<rows, rules, writers, report>>
  BY DEF OpenList
<1> HIDE DEF shown
<1>5. PagerType' /\ pager'.seen = {}
  BY <1>1, <1>2, <1>3 DEF NoPager, PagerType
<1>6. ReportType'
  BY <1>4 DEF Basics, ReportType
<1> QED BY <1>4, <1>5, <1>6, ReaderBasics

LEMMA NextPageIs ==
    ASSUME Basics, NEW limit \in Limit, NextPage(limit)
    PROVE  /\ pager.at = "open"
           /\ pager' \in [at : {"closed", "open", "end"},
                          account : Account \cup {NoCategory},
                          category : Categories, cursor : SUBSET Keys,
                          seen : SUBSET Id, steady : SUBSET Id]
           /\ pager'.account = pager.account /\ pager'.category = pager.category
           /\ pager'.steady = pager.steady
           /\ pager'.seen = pager.seen \cup {t.id : t \in Items(limit)}
           /\ More(limit) => pager'.at = "open" /\ pager'.cursor = {CursorOf(Items(limit))}
           /\ ~More(limit) => pager'.at = "end" /\ pager'.cursor = pager.cursor
           /\ UNCHANGED <<rows, rules, writers, report>>
<1> DEFINE new == {t.id : t \in Items(limit)}
<1>1. pager' = [pager EXCEPT
                  !.seen = @ \cup new,
                  !.at = IF More(limit) THEN "open" ELSE "end",
                  !.cursor = IF More(limit) THEN {CursorOf(Items(limit))} ELSE @]
  BY DEF NextPage, Items, More
<1>2. /\ pager.at = "open"
      /\ UNCHANGED <<rows, rules, writers, report>>
  BY DEF NextPage
<1>3. Items(limit) \in SUBSET rows
  BY Page DEF Basics, LedgerType
<1>4. new \in SUBSET Id
  BY <1>3 DEF Basics, LedgerType, Ledger, Row
<1>5. More(limit) => CursorOf(Items(limit)) \in Keys
  <2> SUFFICES ASSUME More(limit) PROVE CursorOf(Items(limit)) \in Keys
    OBVIOUS
  <2>1. PICK t \in Items(limit) : CursorOf(Items(limit)) = Key(t)
    BY Page DEF Basics, LedgerType
  <2>2. t \in Row
    BY <1>3 DEF Basics, LedgerType, Ledger
  <2> QED BY <2>1, <2>2 DEF Key, Keys, Row
<1> HIDE DEF new
<1>6. /\ pager'.account = pager.account /\ pager'.category = pager.category
      /\ pager'.steady = pager.steady
      /\ pager'.seen = pager.seen \cup new
      /\ More(limit) => pager'.at = "open" /\ pager'.cursor = {CursorOf(Items(limit))}
      /\ ~More(limit) => pager'.at = "end" /\ pager'.cursor = pager.cursor
  BY <1>1 DEF Basics, PagerType
<1>7. pager' \in [at : {"closed", "open", "end"},
                  account : Account \cup {NoCategory},
                  category : Categories, cursor : SUBSET Keys,
                  seen : SUBSET Id, steady : SUBSET Id]
  BY <1>1, <1>4, <1>5 DEF Basics, PagerType
<1> QED BY <1>2, <1>6, <1>7 DEF new

LEMMA NextPageBasics ==
    ASSUME Basics, NEW limit \in Limit, NextPage(limit)
    PROVE  Basics'
<1>1. PagerType'
  BY NextPageIs DEF Basics, PagerType
<1>2. ASSUME NEW i \in pager'.seen PROVE HasId(rows, i)
  <2>1. i \in pager.seen \/ \E t \in Items(limit) : t.id = i
    BY NextPageIs
  <2>2. Items(limit) \in SUBSET rows
    BY Page DEF Basics, LedgerType
  <2> QED BY <2>1, <2>2 DEF Basics, NotedAreRows, HasId
<1>3. UNCHANGED <<rows, rules, writers, report>>
  BY NextPageIs
<1>4. ReportType'
  BY <1>3 DEF Basics, ReportType
<1> QED BY <1>1, <1>2, <1>3, <1>4, ReaderBasics

LEMMA MonthRowsAreRows ==
    ASSUME NEW S \in SUBSET Row, IsFiniteSet(S), NEW c, NEW m
    PROVE  MonthRows(S, c, m) \in SUBSET Row /\ IsFiniteSet(MonthRows(S, c, m))
<1>1. MonthRows(S, c, m) \in SUBSET S
  BY DEF MonthRows, InRange
<1> QED BY <1>1, FS_Subset

LEMMA ReportTotalsBasics ==
    ASSUME Basics, NEW m \in Month, NEW c \in {Currency[a] : a \in Account},
           ReportTotals(m, c)
    PROVE  Basics'
<1> DEFINE month == MonthRows(rows, c, m)
           i == Income(month)
           x == Expenses(month)
<1>1. i \in Nat /\ x \in Nat
  BY MonthRowsAreRows, IncomeType, ExpensesType DEF Basics, LedgerType, Ledger
<1>2. report' = [NoReport EXCEPT !.at = "totals", !.month = m, !.currency = c,
                        !.income = i, !.expenses = x]
  BY DEF ReportTotals
<1>3. UNCHANGED <<rows, rules, writers, pager>>
  BY DEF ReportTotals
<1> HIDE DEF i, x
<1>4. ReportType'
  BY <1>1, <1>2 DEF NoReport, ReportType
<1>5. PagerType' /\ \A n \in pager'.seen : HasId(rows, n)
  BY <1>3 DEF Basics, PagerType, NotedAreRows
<1> QED BY <1>3, <1>4, <1>5, ReaderBasics

LEMMA ByCategoryType ==
    ASSUME NEW S \in SUBSET Row, IsFiniteSet(S)
    PROVE  ByCategory(S) \in SUBSET Group
<1>1. ASSUME NEW c \in {t.category : t \in {u \in S : u.amount < 0}}
      PROVE  [category |-> c, spent |-> Expenses({t \in S : t.category = c})] \in Group
  <2>1. c \in Categories
    BY DEF Row
  <2> DEFINE P == {t \in S : t.category = c}
  <2>2. P \in SUBSET S /\ P \in SUBSET Row
    OBVIOUS
  <2> HIDE DEF P
  <2>3. Expenses(P) \in Nat
    BY <2>2, FS_Subset, ExpensesType
  <2> QED BY <2>1, <2>3 DEF P, Group
<1> QED BY <1>1 DEF ByCategory

LEMMA ReportCategoriesBasics ==
    ASSUME Basics, ReportCategories
    PROVE  Basics'
<1> DEFINE groups == ByCategory(MonthRows(rows, report.currency, report.month))
<1>1. groups \in SUBSET Group
  BY MonthRowsAreRows, ByCategoryType DEF Basics, LedgerType, Ledger
<1>2. report' = [report EXCEPT !.at = "made", !.by_category = groups]
  BY DEF ReportCategories
<1>3. UNCHANGED <<rows, rules, writers, pager>>
  BY DEF ReportCategories
<1> HIDE DEF groups
<1>4. ReportType'
  BY <1>1, <1>2 DEF Basics, ReportType
<1>5. PagerType' /\ \A n \in pager'.seen : HasId(rows, n)
  BY <1>3 DEF Basics, PagerType, NotedAreRows
<1> QED BY <1>3, <1>4, <1>5, ReaderBasics

LEMMA PutAwayBasics ==
    ASSUME Basics, PutAway
    PROVE  Basics'
<1>1. pager' = NoPager /\ report' = NoReport /\ UNCHANGED <<rows, rules, writers>>
  BY DEF PutAway
<1>2. PagerType' /\ pager'.seen = {}
  BY <1>1 DEF NoPager, PagerType, Categories
<1>3. ReportType'
  BY <1>1 DEF NoReport, ReportType
<1> QED BY <1>1, <1>2, <1>3, ReaderBasics

LEMMA NextBasics == Basics /\ [Next]_vars => Basics'
<1> SUFFICES ASSUME Basics, [Next]_vars PROVE Basics'
  OBVIOUS
<1>1. ASSUME NEW q \in NewRule, CreateRule(q) PROVE Basics'
  BY <1>1, CreateRuleBasics
<1>2. ASSUME NEW w \in Writer, NEW e \in Entry, ChooseCategory(w, e) PROVE Basics'
  BY <1>2, ChooseCategoryBasics
<1>3. ASSUME NEW w \in Writer, NEW id \in Id, CommitRow(w, id) PROVE Basics'
  BY <1>3, CommitRowBasics
<1>4. ASSUME NEW w \in Writer, ReadRules(w) \/ ReadRows(w) \/ Recategorize(w) PROVE Basics'
  BY <1>4, ReadRulesBasics, ReadRowsBasics, RecategorizeBasics
<1>5. ASSUME NEW f \in Filter, OpenList(f[1], f[2]) PROVE Basics'
  BY <1>5, OpenListBasics
<1>6. ASSUME NEW limit \in Limit, NextPage(limit) PROVE Basics'
  BY <1>6, NextPageBasics
<1>7. ASSUME NEW m \in Month, NEW c \in {Currency[a] : a \in Account}, ReportTotals(m, c)
      PROVE  Basics'
  BY <1>7, ReportTotalsBasics
<1>8. CASE ReportCategories \/ PutAway
  BY <1>8, ReportCategoriesBasics, PutAwayBasics
<1>9. CASE UNCHANGED vars
  BY <1>9 DEF vars, Basics, LedgerType, WritersType, PagerType, ReportType, NotedAreRows
<1> QED BY <1>1, <1>2, <1>3, <1>4, <1>5, <1>6, <1>7, <1>8, <1>9 DEF Next

\* The variables keep their types; in particular rows keep ids of their own, and
\* a report's sums are never negative (Transaction, Rule, MonthlyReport).
THEOREM TypeCorrect == Spec => []TypeOK
BY InitBasics, NextBasics, BasicsType, PTL DEF Spec

-----------------------------------------------------------------------------
(* Lists neither repeat rows nor hide them                                 *)

LEMMA ShownAreSelected ==
    ASSUME LedgerType
    PROVE  /\ \A t \in rows : t.id \in Shown(rows) => t \in Selected(rows, pager.account, pager.category)
           /\ \A i \in Shown(rows) : \E t \in rows : t.id = i
BY DEF LedgerType, Ledger, Shown, Selected

LEMMA CursorsAreKeyed ==
    ASSUME PagerType, NEW c \in pager.cursor
    PROVE  IsKeyed(c)
<1>1. c \in Keys
  BY DEF PagerType
<1> QED BY <1>1, IdAssumption DEF Keys, IsKeyed, Days

\* What is seen comes before all that is still to be shown.
LEMMA SeenPrecedeRest ==
    ASSUME Basics, SeenAreBehind, pager.at = "open",
           NEW s \in rows, s.id \in pager.seen, NEW t \in Rest
    PROVE  Precedes(s, t)
<1>1. t \in rows /\ \A c \in pager.cursor : Beyond(t, c)
  BY DEF Rest, Selected
<1>2. PICK c \in pager.cursor : ~Beyond(s, c)
  BY DEF SeenAreBehind
<1>3. ~Precedes(c, s) /\ Precedes(c, t)
  BY <1>1, <1>2, BeyondIsAfter
<1>4. IsKeyed(c) /\ IsKeyed(s) /\ IsKeyed(t)
  BY <1>1, CursorsAreKeyed, RowsAreKeyed DEF Basics, LedgerType, Ledger
<1>5. ~Precedes(t, s)
  BY <1>3, <1>4, ListIsOrdered
<1>6. s # t
  BY <1>3
<1> QED BY <1>1, <1>5, <1>6, InLedger DEF Basics, LedgerType

\* A page leaves unseen only what is not steady or lies beyond it.
LEMMA UnseenAreRest ==
    ASSUME Basics, SteadyAreShown, UnseenAreBeyond, pager.at = "open",
           NEW t \in rows, t.id \in pager.steady \ pager.seen
    PROVE  t \in Rest
<1>1. t \in Selected(rows, pager.account, pager.category)
  BY ShownAreSelected DEF Basics, SteadyAreShown
<1> QED BY <1>1 DEF UnseenAreBeyond, Rest

LEMMA NextPagePager ==
    ASSUME Basics, PagerInv, NEW limit \in Limit, NextPage(limit)
    PROVE  PagerInv'
<1>1. /\ pager.at = "open"
      /\ pager'.account = pager.account /\ pager'.category = pager.category
      /\ pager'.steady = pager.steady
      /\ pager'.seen = pager.seen \cup {t.id : t \in Items(limit)}
      /\ More(limit) => pager'.at = "open" /\ pager'.cursor = {CursorOf(Items(limit))}
      /\ ~More(limit) => pager'.at = "end" /\ pager'.cursor = pager.cursor
      /\ rows' = rows
  BY NextPageIs
<1>2. /\ Rest \in SUBSET rows /\ Items(limit) \in SUBSET Rest
      /\ ~More(limit) => Items(limit) = Rest
  BY Page DEF Basics, LedgerType
<1>3. SteadyAreShown'
  BY <1>1 DEF PagerInv, SteadyAreShown, Shown
<1>4. CASE ~More(limit)
  <2>1. ASSUME NEW i \in pager.steady PROVE i \in pager'.seen
    <3>1. PICK t \in rows : t.id = i
      BY <1>1, ShownAreSelected DEF PagerInv, SteadyAreShown, Basics
    <3>2. i \in pager.seen \/ t \in Rest
      BY <1>1, <3>1, UnseenAreRest DEF PagerInv
    <3> QED BY <1>1, <1>2, <1>4, <3>1, <3>2
  <2>2. pager'.at = "end" /\ PagesHideNothing'
    BY <1>1, <1>4, <2>1 DEF PagesHideNothing
  <2> QED BY <1>3, <2>2 DEF PagerInv, SeenAreBehind, UnseenAreBeyond
<1>5. CASE More(limit)
  <2>1. PICK last \in Items(limit) :
                    /\ CursorOf(Items(limit)) = Key(last)
                    /\ \A s \in Items(limit) : s = last \/ Precedes(s, last)
                    /\ \A s \in Rest \ Items(limit) : Precedes(last, s)
    BY <1>5, Page DEF Basics, LedgerType
  <2>2. pager'.at = "open" /\ pager'.cursor = {Key(last)}
    BY <1>1, <1>5, <2>1
  <2>3. last \in rows /\ last \in Rest
    BY <1>2
  <2>4. ASSUME NEW t \in rows, t.id \in pager'.seen PROVE ~Beyond(t, Key(last))
    <3>1. t = last \/ Precedes(t, last)
      <4>1. CASE t.id \in pager.seen
        BY <1>1, <2>3, <4>1, SeenPrecedeRest DEF PagerInv
      <4>2. CASE t.id \notin pager.seen
        <5>1. PICK s \in Items(limit) : s.id = t.id
          BY <1>1, <2>4, <4>2
        <5>2. s = t
          BY <1>2, <5>1 DEF Basics, LedgerType, Ledger
        <5> QED BY <2>1, <5>2
      <4> QED BY <4>1, <4>2
    <3>2. ~Precedes(last, t)
      BY <2>3, <3>1, InLedger DEF Basics, LedgerType
    <3> QED BY <3>2, BeyondIsAfter
  <2>5. ASSUME NEW t \in rows, t.id \in pager'.steady \ pager'.seen
        PROVE  Beyond(t, Key(last))
    <3>1. t \in Rest
      BY <1>1, <2>5, UnseenAreRest DEF PagerInv
    <3>2. t \notin Items(limit)
      BY <1>1, <2>5
    <3> QED BY <2>1, <3>1, <3>2, BeyondIsAfter
  <2>6. SeenAreBehind' /\ UnseenAreBeyond'
    BY <1>1, <2>2, <2>4, <2>5 DEF SeenAreBehind, UnseenAreBeyond
  <2>7. PagesHideNothing'
    BY <2>2 DEF PagesHideNothing
  <2> QED BY <1>3, <2>6, <2>7 DEF PagerInv
<1> QED BY <1>4, <1>5

\* A new row has an id no list knows.
LEMMA CommitRowPager ==
    ASSUME Basics, PagerInv, NEW w \in Writer, NEW id \in Id, CommitRow(w, id)
    PROVE  PagerInv'
<1> DEFINE row == RowOf(w, id)
<1>1. /\ id \notin {t.id : t \in rows}
      /\ rows' = rows \cup {row}
      /\ pager' = pager
      /\ row.id = id
  BY DEF CommitRow, RowOf
<1> HIDE DEF row
<1>2. id \notin pager.seen
  BY <1>1 DEF Basics, NotedAreRows, HasId
<1>3. pager.at # "closed" => id \notin pager.steady
  BY <1>1, ShownAreSelected DEF Basics, PagerInv, SteadyAreShown
<1>4. SteadyAreShown'
  BY <1>1 DEF PagerInv, SteadyAreShown, Shown, Selected
<1>5. SeenAreBehind'
  BY <1>1, <1>2 DEF PagerInv, SeenAreBehind
<1>6. UnseenAreBeyond'
  BY <1>1, <1>3 DEF PagerInv, UnseenAreBeyond
<1>7. PagesHideNothing'
  BY <1>1 DEF PagerInv, PagesHideNothing
<1> QED BY <1>4, <1>5, <1>6, <1>7 DEF PagerInv

\* A row that is re-categorised keeps its place; one that is no longer shown is
\* no longer steady.
LEMMA RecategorizePager ==
    ASSUME Basics, PagerInv, NEW w \in Writer, Recategorize(w)
    PROVE  PagerInv'
<1>1. /\ rows' = {After(t, changes[w]) : t \in rows}
      /\ pager' = [pager EXCEPT !.steady = @ \cap Shown(rows')]
  BY DEF Recategorize, After, StillShown
<1>2. /\ pager'.at = pager.at /\ pager'.account = pager.account
      /\ pager'.category = pager.category /\ pager'.cursor = pager.cursor
      /\ pager'.seen = pager.seen
      /\ pager'.steady = pager.steady \cap Shown(rows')
  BY <1>1 DEF Basics, PagerType
<1>3. ASSUME NEW u \in rows'
      PROVE  \E t \in rows : u.id = t.id /\ \A c : Beyond(u, c) <=> Beyond(t, c)
  <2>1. PICK t \in rows : u = After(t, changes[w])
    BY <1>1
  <2>2. u.id = t.id /\ u.day = t.day
    BY <2>1, AfterIsSame DEF Basics, LedgerType, Ledger, WritersType
  <2> QED BY <2>2 DEF Beyond
<1>4. SteadyAreShown'
  BY <1>2 DEF SteadyAreShown, Shown
<1>5. SeenAreBehind'
  BY <1>2, <1>3 DEF PagerInv, SeenAreBehind
<1>6. UnseenAreBeyond'
  BY <1>2, <1>3 DEF PagerInv, UnseenAreBeyond
<1>7. PagesHideNothing'
  BY <1>2 DEF PagerInv, PagesHideNothing
<1> QED BY <1>4, <1>5, <1>6, <1>7 DEF PagerInv

LEMMA OpenListPager ==
    ASSUME NEW f \in Filter, OpenList(f[1], f[2])
    PROVE  PagerInv'
<1> DEFINE shown == {t.id : t \in Selected(rows, f[1], f[2])}
<1>1. /\ pager' = [NoPager EXCEPT !.at = "open", !.account = f[1], !.category = f[2],
                      !.steady = shown]
      /\ rows' = rows
  BY DEF OpenList
<1> HIDE DEF shown
<1>2. /\ pager'.at = "open" /\ pager'.account = f[1] /\ pager'.category = f[2]
      /\ pager'.cursor = {} /\ pager'.seen = {} /\ pager'.steady = shown
  BY <1>1 DEF NoPager
<1>3. SteadyAreShown'
  BY <1>1, <1>2 DEF SteadyAreShown, Shown, shown
<1> QED BY <1>2, <1>3 DEF PagerInv, SeenAreBehind, UnseenAreBeyond, PagesHideNothing

LEMMA PutAwayPager == ASSUME PutAway PROVE PagerInv'
<1>1. pager'.at = "closed"
  BY DEF PutAway, NoPager
<1> QED BY <1>1 DEF PagerInv, SteadyAreShown, SeenAreBehind, UnseenAreBeyond, PagesHideNothing

LEMMA SamePager == ASSUME PagerInv, rows' = rows, pager' = pager PROVE PagerInv'
BY DEF PagerInv, SteadyAreShown, SeenAreBehind, UnseenAreBeyond, PagesHideNothing, Shown

LEMMA NextPager == Basics /\ PagerInv /\ [Next]_vars => PagerInv'
<1> SUFFICES ASSUME Basics, PagerInv, [Next]_vars PROVE PagerInv'
  OBVIOUS
<1>1. ASSUME NEW w \in Writer, NEW id \in Id, CommitRow(w, id) PROVE PagerInv'
  BY <1>1, CommitRowPager
<1>2. ASSUME NEW w \in Writer, Recategorize(w) PROVE PagerInv'
  BY <1>2, RecategorizePager
<1>3. ASSUME NEW f \in Filter, OpenList(f[1], f[2]) PROVE PagerInv'
  BY <1>3, OpenListPager
<1>4. ASSUME NEW limit \in Limit, NextPage(limit) PROVE PagerInv'
  BY <1>4, NextPagePager
<1>5. CASE PutAway
  BY <1>5, PutAwayPager
<1>6. CASE \/ \E q \in NewRule : CreateRule(q)
           \/ \E w \in Writer : \/ \E e \in Entry : ChooseCategory(w, e)
                                \/ ReadRules(w) \/ ReadRows(w)
           \/ \E m \in Month, c \in {Currency[a] : a \in Account} : ReportTotals(m, c)
           \/ ReportCategories
           \/ UNCHANGED vars
  <2>1. rows' = rows /\ pager' = pager
    BY <1>6 DEF CreateRule, ChooseCategory, ReadRules, ReadRows, ReportTotals,
                ReportCategories, vars
  <2> QED BY <2>1, SamePager
<1> QED BY <1>1, <1>2, <1>3, <1>4, <1>5, <1>6 DEF Next

LEMMA InitPager == Init => PagerInv
BY DEF Init, NoPager, PagerInv, SteadyAreShown, SeenAreBehind, UnseenAreBeyond, PagesHideNothing

\* A list read to its end has shown every row that matched its filter from the
\* first page to the last, whatever was inserted and re-categorised in between,
\* for every ledger, filter and page length (the cursor, and the one row more
\* of each page in get_transactions).
THEOREM NothingIsHidden == Spec => []PagesHideNothing
<1>1. PagerInv => PagesHideNothing
  BY DEF PagerInv
<1> QED BY <1>1, InitBasics, NextBasics, InitPager, NextPager, PTL DEF Spec

\* Each page comes after all that the pages before it have shown: no list
\* repeats a row (get_transactions).
THEOREM ListsGoOn == Spec => PagesGoOn
<1>1. ASSUME Basics, PagerInv, NEW limit \in Limit, NextPage(limit),
             NEW s \in rows, NEW t \in FirstOf(limit, Fetched(limit)), s.id \in pager.seen
      PROVE  Precedes(s, t)
  <2>1. t \in Rest
    BY <1>1, Page DEF Basics, LedgerType, Items
  <2>2. pager.at = "open"
    BY <1>1 DEF NextPage
  <2> QED BY <1>1, <2>1, <2>2, SeenPrecedeRest DEF PagerInv
<1>2. Basics /\ PagerInv =>
        \A limit \in Limit : NextPage(limit) =>
          \A s, t \in rows :
             (s.id \in pager.seen /\ t \in FirstOf(limit, Fetched(limit))) =>
                Precedes(s, t)
  BY <1>1
<1> QED BY <1>2, InitBasics, NextBasics, InitPager, NextPager, PTL DEF Spec, PagesGoOn

LEMMA FullPage ==
    ASSUME Basics, NEW limit \in Limit, More(limit)
    PROVE  IsFiniteSet(Items(limit)) /\ Cardinality(Items(limit)) = limit
<1> DEFINE F == Fetched(limit)
<1>1. limit \in Nat \ {0} /\ limit + 1 \in Nat
  BY LimitAssumption
<1>2. F = FirstOf(limit + 1, Rest) /\ Items(limit) = FirstOf(limit, F) /\ Cardinality(F) > limit
  BY DEF Rest, Selected, Fetched, Items, More
<1>3. Ledger(Rest)
  BY Page, LedgerSubset DEF Basics, LedgerType
<1> HIDE DEF F
<1>4. Ledger(F)
  <2>1. F \in SUBSET Rest
    BY <1>2, FirstOfRestated
  <2> QED BY <1>3, <2>1, LedgerSubset
<1>5. limit <= Cardinality(F)
  BY <1>1, <1>2, <1>4, FS_CardinalityType DEF Ledger
<1>6. Cardinality(FirstOf(limit, F)) = limit
  BY <1>1, <1>4, <1>5, FirstOfSize
<1>7. FirstOf(limit, F) \in SUBSET F
  BY FirstOfRestated
<1> QED BY <1>2, <1>4, <1>6, <1>7, FS_Subset DEF Ledger

\* Each page but the last shows as many rows as it was asked for that no page
\* before it has shown (get_transactions).
THEOREM PagesAreFull ==
    Spec => [][\A limit \in Limit :
                  NextPage(limit) /\ pager'.at = "open" =>
                      Cardinality(pager'.seen \ pager.seen) = limit]_vars
<1>1. ASSUME Basics, PagerInv, NEW limit \in Limit, NextPage(limit), pager'.at = "open"
      PROVE  Cardinality(pager'.seen \ pager.seen) = limit
  <2> DEFINE I == Items(limit)
             new == {t.id : t \in I}
             f == [t \in I |-> t.id]
  <2>1. pager.at = "open" /\ pager'.seen = pager.seen \cup new /\ More(limit)
    BY <1>1, NextPageIs
  <2>2. I \in SUBSET Rest /\ Rest \in SUBSET rows
    BY <1>1, Page DEF Basics, LedgerType
  <2>3. IsFiniteSet(I) /\ Cardinality(I) = limit
    BY <1>1, <2>1, FullPage
  <2>4. ASSUME NEW t \in I, t.id \in pager.seen PROVE FALSE
    <3>1. Precedes(t, t)
      BY <1>1, <2>1, <2>2, <2>4, SeenPrecedeRest DEF PagerInv
    <3> QED BY <1>1, <2>2, <3>1, InLedger DEF Basics, LedgerType
  <2>5. pager'.seen \ pager.seen = new
    BY <2>1, <2>4
  <2>6. \A s, t \in I : s.id = t.id => s = t
    BY <1>1, <2>2 DEF Basics, LedgerType, Ledger
  <2>7. f \in Bijection(I, new)
    BY <2>6 DEF Bijection, Injection, Surjection, IsInjective
  <2> HIDE DEF I, new, f
  <2>8. Cardinality(new) = Cardinality(I)
    BY <2>3, <2>7, FS_Bijection DEF ExistsBijection
  <2> QED BY <2>3, <2>5, <2>8
<1>2. Basics /\ PagerInv =>
        \A limit \in Limit :
           NextPage(limit) /\ pager'.at = "open" =>
              Cardinality(pager'.seen \ pager.seen) = limit
  BY <1>1
<1> QED BY <1>2, InitBasics, NextBasics, InitPager, NextPager, PTL DEF Spec

-----------------------------------------------------------------------------
(* Rows follow the rules                                                   *)

\* A writer that has not read anything yet follows them.
LEMMA IdleFollow ==
    ASSUME NEW w, pc'[w] = "idle", loaded'[w] = {}
    PROVE  HasReadRules(w)' /\ WillFollow(w)'
BY DEF HasReadRules, WillFollow

LEMMA SameRulesRead ==
    ASSUME NEW w, HasReadRules(w), pc'[w] = pc[w], entry'[w] = entry[w],
           chosen'[w] = chosen[w], known'[w] = known[w], rules' = rules
    PROVE  HasReadRules(w)'
BY DEF HasReadRules, ChosenCategory

LEMMA SameToFollow ==
    ASSUME NEW w, WillFollow(w), loaded'[w] = loaded[w], changes'[w] = changes[w],
           rules' = rules, \A t \in rows' \ rows : t.id \notin loaded[w]
    PROVE  WillFollow(w)'
BY DEF WillFollow

\* What a request that ends leaves of itself and of the others.
LEMMA EndsIs ==
    ASSUME WritersType, NEW w \in Writer, Ends(w)
    PROVE  /\ pc'[w] = "idle" /\ loaded'[w] = {}
           /\ \A v \in Writer \ {w} :
                /\ pc'[v] = pc[v] /\ entry'[v] = entry[v] /\ chosen'[v] = chosen[v]
                /\ known'[v] = known[v] /\ changes'[v] = changes[v]
                /\ loaded'[v] = loaded[v]
BY DEF Ends, WritersType

LEMMA CreateRuleFollow ==
    ASSUME Basics, NEW q \in NewRule, CreateRule(q)
    PROVE  UndisturbedFollow'
<1> SUFFICES ASSUME NEW w \in Writer
             PROVE  overtaken'[w] \/ (HasReadRules(w)' /\ WillFollow(w)')
  BY DEF UndisturbedFollow
<1>1. /\ overtaken' = [v \in Writer |-> pc[v] # "idle"]
      /\ pc' = pc /\ loaded' = loaded
  BY DEF CreateRule
<1>2. CASE pc[w] = "idle"
  <2>1. pc'[w] = "idle" /\ loaded'[w] = {}
    BY <1>1, <1>2 DEF Basics, WritersType
  <2> QED BY <2>1, IdleFollow
<1>3. CASE pc[w] # "idle"
  BY <1>1, <1>3
<1> QED BY <1>2, <1>3

LEMMA ChooseCategoryFollow ==
    ASSUME Basics, UndisturbedFollow, NEW w \in Writer, NEW e \in Entry, ChooseCategory(w, e)
    PROVE  UndisturbedFollow'
<1>1. /\ pc' = [pc EXCEPT ![w] = "entering"]
      /\ entry' = [entry EXCEPT ![w] = e]
      /\ chosen' = [chosen EXCEPT ![w] = ChosenCategory(e)]
      /\ pc[w] = "idle"
      /\ UNCHANGED <<rows, rules, known, changes, loaded, overtaken, pager, report>>
  BY DEF ChooseCategory
<1>2. ASSUME NEW v \in Writer, HasReadRules(v), WillFollow(v)
      PROVE  HasReadRules(v)' /\ WillFollow(v)'
  <2>1. WillFollow(v)'
    BY <1>1, <1>2, SameToFollow
  <2>2. CASE v = w
    <3>1. pc'[v] = "entering" /\ entry'[v] = e /\ chosen'[v] = ChosenCategory(e)
      BY <1>1, <2>2 DEF Basics, WritersType
    <3>2. ChosenCategory(e) = ChosenCategory(e)'
      BY <1>1 DEF ChosenCategory
    <3>3. HasReadRules(v)'
      BY <3>1, <3>2 DEF HasReadRules, ChosenCategory
    <3> QED BY <2>1, <3>3
  <2>3. CASE v # w
    <3>1. pc'[v] = pc[v] /\ entry'[v] = entry[v] /\ chosen'[v] = chosen[v] /\ known'[v] = known[v]
      BY <1>1, <2>3 DEF Basics, WritersType
    <3>2. HasReadRules(v)'
      BY <1>1, <1>2, <3>1, SameRulesRead
    <3> QED BY <2>1, <3>2
  <2> QED BY <2>2, <2>3
<1>3. overtaken' = overtaken
  BY <1>1
<1> QED BY <1>2, <1>3, Zenon DEF UndisturbedFollow

\* The new row is none of those that were read.
LEMMA CommitRowFollow ==
    ASSUME Basics, UndisturbedFollow, NEW w \in Writer, NEW id \in Id, CommitRow(w, id)
    PROVE  UndisturbedFollow'
<1> DEFINE row == RowOf(w, id)
<1>1. /\ id \notin {t.id : t \in rows}
      /\ rows' = rows \cup {row} /\ row.id = id
      /\ Ends(w)
      /\ overtaken' = [overtaken EXCEPT ![w] = FALSE]
      /\ rules' = rules
  BY DEF CommitRow, RowOf
<1> HIDE DEF row
<1>2. ASSUME NEW v \in Writer, v # w, HasReadRules(v), WillFollow(v)
      PROVE  HasReadRules(v)' /\ WillFollow(v)'
  <2>1. \A t \in rows' \ rows : t.id \notin loaded[v]
    BY <1>1 DEF Basics, NotedAreRows, HasId
  <2> QED BY <1>1, <1>2, <2>1, EndsIs, SameRulesRead, SameToFollow DEF Basics
<1>3. HasReadRules(w)' /\ WillFollow(w)'
  BY <1>1, EndsIs, IdleFollow DEF Basics
<1>4. \A v \in Writer \ {w} : overtaken'[v] = overtaken[v]
  BY <1>1 DEF Basics, WritersType
<1>5. ASSUME NEW v \in Writer PROVE overtaken'[v] \/ (HasReadRules(v)' /\ WillFollow(v)')
  <2>1. CASE v = w
    BY <1>3, <2>1, Zenon
  <2>2. CASE v # w
    <3>1. overtaken[v] \/ (HasReadRules(v) /\ WillFollow(v))
      BY Zenon DEF UndisturbedFollow
    <3>2. overtaken'[v] = overtaken[v]
      BY <1>4, <2>2
    <3> QED BY <1>2, <2>2, <3>1, <3>2, Zenon
  <2> QED BY <2>1, <2>2
<1> QED BY <1>5, Zenon DEF UndisturbedFollow

LEMMA ReadRulesFollow ==
    ASSUME Basics, UndisturbedFollow, NEW w \in Writer, ReadRules(w)
    PROVE  UndisturbedFollow'
<1>1. /\ pc' = [pc EXCEPT ![w] = "recategorizing"]
      /\ known' = [known EXCEPT ![w] = rules]
      /\ UNCHANGED <<rows, rules, entry, chosen, changes, loaded, overtaken, pager, report>>
  BY DEF ReadRules
<1>2. ASSUME NEW v \in Writer, HasReadRules(v), WillFollow(v)
      PROVE  HasReadRules(v)' /\ WillFollow(v)'
  <2>1. WillFollow(v)'
    BY <1>1, <1>2, SameToFollow
  <2>2. CASE v = w
    <3>1. pc'[v] = "recategorizing" /\ known'[v] = rules'
      BY <1>1, <2>2 DEF Basics, WritersType
    <3> QED BY <2>1, <3>1 DEF HasReadRules
  <2>3. CASE v # w
    <3>1. pc'[v] = pc[v] /\ known'[v] = known[v]
      BY <1>1, <2>3 DEF Basics, WritersType
    <3>2. HasReadRules(v)'
      BY <1>1, <1>2, <3>1, SameRulesRead
    <3> QED BY <2>1, <3>2
  <2> QED BY <2>2, <2>3
<1>3. overtaken' = overtaken
  BY <1>1
<1> QED BY <1>2, <1>3, Zenon DEF UndisturbedFollow

\* What a writer notes that knows the rules as they are.
LEMMA ChangedWillFollow ==
    ASSUME LedgerType, NEW w, known[w] = rules, NEW t \in rows
    PROVE  WillBe(t, Changed(w), MatchingCategory(rules, t.text))
<1> DEFINE M(u) == MatchingCategory(rules, u.text)
<1>1. \A c : c \in Changed(w) <=>
             \E u \in rows : u.category # M(u) /\ c = [id |-> u.id, category |-> M(u)]
  BY DEF Changed
<1>2. \A u \in rows : u.id = t.id => u = t
  BY DEF LedgerType, Ledger
<1> HIDE DEF M
<1>3. ASSUME NEW c \in Changed(w), c.id = t.id PROVE c.category = M(t)
  BY <1>1, <1>2, <1>3
<1>4. ASSUME t.category # M(t) PROVE \E c \in Changed(w) : c.id = t.id
  <2> DEFINE c == [id |-> t.id, category |-> M(t)]
  <2>1. c \in Changed(w) /\ c.id = t.id
    BY <1>1, <1>4
  <2> QED BY <2>1
<1> QED BY <1>3, <1>4 DEF WillBe, M

LEMMA ReadRowsFollow ==
    ASSUME Basics, UndisturbedFollow, NEW w \in Writer, ReadRows(w)
    PROVE  UndisturbedFollow'
<1>1. /\ pc[w] = "recategorizing"
      /\ pc' = [pc EXCEPT ![w] = "loaded"]
      /\ changes' = [changes EXCEPT ![w] = Changed(w)]
      /\ loaded' = [loaded EXCEPT ![w] = {t.id : t \in rows}]
      /\ known' = [known EXCEPT ![w] = {}]
      /\ UNCHANGED <<rows, rules, entry, chosen, overtaken, pager, report>>
  BY DEF ReadRows
<1>2. ASSUME NEW v \in Writer, HasReadRules(v), WillFollow(v)
      PROVE  HasReadRules(v)' /\ WillFollow(v)'
  <2>1. CASE v = w
    <3>1. pc'[v] = "loaded" /\ changes'[v] = Changed(v)
      BY <1>1, <2>1 DEF Basics, WritersType
    <3>2. HasReadRules(v)'
      BY <3>1 DEF HasReadRules
    <3>3. known[v] = rules
      BY <1>1, <1>2, <2>1 DEF HasReadRules
    <3>4. WillFollow(v)'
      BY <1>1, <3>1, <3>3, ChangedWillFollow DEF Basics, WillFollow
    <3> QED BY <3>2, <3>4
  <2>2. CASE v # w
    <3>1. /\ pc'[v] = pc[v] /\ known'[v] = known[v]
          /\ changes'[v] = changes[v] /\ loaded'[v] = loaded[v]
      BY <1>1, <2>2 DEF Basics, WritersType
    <3> QED BY <1>1, <1>2, <3>1, SameRulesRead, SameToFollow
  <2> QED BY <2>1, <2>2
<1>3. overtaken' = overtaken
  BY <1>1
<1> QED BY <1>2, <1>3, Zenon DEF UndisturbedFollow

\* Who changes no row disturbs nobody.
LEMMA NothingChanges == ASSUME rows' = {After(t, {}) : t \in rows} PROVE rows' = rows
<1>1. \A t : After(t, {}) = t
  BY DEF After
<1> QED BY <1>1

LEMMA RecategorizeFollow ==
    ASSUME Basics, UndisturbedFollow, NEW w \in Writer, Recategorize(w)
    PROVE  UndisturbedFollow'
<1>1. /\ rows' = {After(t, changes[w]) : t \in rows}
      /\ Ends(w)
      /\ overtaken' = [v \in Writer |-> v # w /\ pc[v] # "idle"
                                        /\ (overtaken[v] \/ changes[w] # {})]
      /\ rules' = rules
  BY DEF Recategorize, After
<1>2. HasReadRules(w)' /\ WillFollow(w)'
  BY <1>1, EndsIs, IdleFollow DEF Basics
<1>3. ASSUME NEW v \in Writer, v # w PROVE overtaken'[v] \/ (HasReadRules(v)' /\ WillFollow(v)')
  <2>1. CASE pc[v] = "idle"
    <3>1. pc'[v] = "idle" /\ loaded'[v] = {}
      BY <1>1, <1>3, <2>1, EndsIs DEF Basics, WritersType
    <3> QED BY <3>1, IdleFollow
  <2>2. CASE pc[v] # "idle" /\ changes[w] # {}
    <3>1. overtaken'[v] = TRUE
      BY <1>1, <1>3, <2>2
    <3> QED BY <3>1
  <2>3. CASE pc[v] # "idle" /\ changes[w] = {}
    <3>1. overtaken'[v] = overtaken[v]
      <4>1. overtaken[v] \in BOOLEAN
        BY DEF Basics, WritersType
      <4> QED BY <1>1, <1>3, <2>3, <4>1
    <3>2. rows' = rows
      BY <1>1, <2>3, NothingChanges
    <3>3. ASSUME HasReadRules(v), WillFollow(v) PROVE HasReadRules(v)' /\ WillFollow(v)'
      BY <1>1, <1>3, <3>2, <3>3, EndsIs, SameRulesRead, SameToFollow DEF Basics
    <3>4. overtaken[v] \/ (HasReadRules(v) /\ WillFollow(v))
      BY Zenon DEF UndisturbedFollow
    <3> QED BY <3>1, <3>3, <3>4, Zenon
  <2> QED BY <2>1, <2>2, <2>3
<1> QED BY <1>2, <1>3, Zenon DEF UndisturbedFollow

LEMMA SameFollow ==
    ASSUME UndisturbedFollow, UNCHANGED <<rows, rules, writers>>
    PROVE  UndisturbedFollow'
<1>1. ASSUME NEW w \in Writer, HasReadRules(w), WillFollow(w)
      PROVE  HasReadRules(w)' /\ WillFollow(w)'
  BY <1>1, SameRulesRead, SameToFollow DEF writers
<1>2. overtaken' = overtaken
  BY DEF writers
<1> QED BY <1>1, <1>2, Zenon DEF UndisturbedFollow

LEMMA NextFollow == Basics /\ UndisturbedFollow /\ [Next]_vars => UndisturbedFollow'
<1> SUFFICES ASSUME Basics, UndisturbedFollow, [Next]_vars PROVE UndisturbedFollow'
  OBVIOUS
<1>1. ASSUME NEW q \in NewRule, CreateRule(q) PROVE UndisturbedFollow'
  BY <1>1, CreateRuleFollow
<1>2. ASSUME NEW w \in Writer, NEW e \in Entry, ChooseCategory(w, e) PROVE UndisturbedFollow'
  BY <1>2, ChooseCategoryFollow
<1>3. ASSUME NEW w \in Writer, NEW id \in Id, CommitRow(w, id) PROVE UndisturbedFollow'
  BY <1>3, CommitRowFollow
<1>4. ASSUME NEW w \in Writer, ReadRules(w) \/ ReadRows(w) \/ Recategorize(w)
      PROVE  UndisturbedFollow'
  BY <1>4, ReadRulesFollow, ReadRowsFollow, RecategorizeFollow
<1>5. CASE \/ \E f \in Filter : OpenList(f[1], f[2])
           \/ \E limit \in Limit : NextPage(limit)
           \/ \E m \in Month, c \in {Currency[a] : a \in Account} : ReportTotals(m, c)
           \/ ReportCategories
           \/ PutAway
           \/ UNCHANGED vars
  <2>1. UNCHANGED <<rows, rules, writers>>
    BY <1>5 DEF OpenList, NextPage, ReportTotals, ReportCategories, PutAway, vars, writers
  <2> QED BY <2>1, SameFollow
<1> QED BY <1>1, <1>2, <1>3, <1>4, <1>5 DEF Next

LEMMA InitFollow == Init => UndisturbedFollow
<1> SUFFICES ASSUME Init, NEW w \in Writer PROVE HasReadRules(w) /\ WillFollow(w)
  BY Zenon DEF UndisturbedFollow
<1> QED BY DEF Init, HasReadRules, WillFollow

LEMMA CommitRowFollowsRules ==
    ASSUME Basics, NEW w \in Writer, HasReadRules(w), NEW id \in Id, CommitRow(w, id),
           NEW t \in rows' \ rows
    PROVE  IF entry[w].category # NoCategory
             THEN t.category = entry[w].category
             ELSE ByRules(t.category, t.text)
<1>1. pc[w] = "entering" /\ rows' = rows \cup {RowOf(w, id)}
  BY DEF CommitRow, RowOf
<1>2. t.category = chosen[w] /\ t.text = entry[w].text
  BY <1>1 DEF RowOf
<1>3. chosen[w] = ChosenCategory(entry[w])
  BY <1>1 DEF HasReadRules
<1>4. ByRules(MatchingCategory(rules, t.text), t.text)
  BY MatchingFollows DEF Basics, LedgerType
<1> QED BY <1>2, <1>3, <1>4 DEF ChosenCategory

LEMMA RecategorizeFollowsRules ==
    ASSUME Basics, NEW w \in Writer, WillFollow(w), Recategorize(w),
           NEW t \in rows', t.id \in loaded[w]
    PROVE  ByRules(t.category, t.text)
<1>1. rows' = {After(u, changes[w]) : u \in rows}
  BY DEF Recategorize, After
<1>2. PICK u \in rows : t = After(u, changes[w])
  BY <1>1
<1>3. u \in Row /\ changes[w] \in SUBSET Changes
  BY DEF Basics, LedgerType, Ledger, WritersType
<1>4. t.id = u.id /\ t.text = u.text
  BY <1>2, <1>3, AfterIsSame
<1>5. WillBe(u, changes[w], MatchingCategory(rules, u.text))
  BY <1>4 DEF WillFollow
<1>6. t.category = MatchingCategory(rules, u.text)
  <2>1. CASE \E c \in changes[w] : c.id = u.id
    <3> DEFINE c == CHOOSE c \in changes[w] : c.id = u.id
    <3>1. c \in changes[w] /\ c.id = u.id
      BY <2>1
    <3>2. t = [u EXCEPT !.category = c.category]
      BY <1>2, <2>1 DEF After
    <3> HIDE DEF c
    <3>3. t.category = c.category
      BY <1>3, <3>2 DEF Row
    <3> QED BY <1>5, <3>1, <3>3 DEF WillBe
  <2>2. CASE ~\E c \in changes[w] : c.id = u.id
    BY <1>2, <1>5, <2>2 DEF After, WillBe
  <2> QED BY <2>1, <2>2
<1> QED BY <1>4, <1>6, MatchingFollows DEF Basics, LedgerType

\* A request ends only by its own commit.
LEMMA WhoEnds ==
    ASSUME Basics, [Next]_vars, NEW w \in Writer, pc'[w] = "idle"
    PROVE  /\ pc[w] = "entering" => \E id \in Id : CommitRow(w, id)
           /\ pc[w] = "loaded" => Recategorize(w)
<1>1. ASSUME NEW v \in Writer, NEW id \in Id, CommitRow(v, id), v # w PROVE pc'[w] = pc[w]
  BY <1>1, EndsIs DEF CommitRow, Basics
<1>2. ASSUME NEW v \in Writer, Recategorize(v), v # w PROVE pc'[w] = pc[w]
  BY <1>2, EndsIs DEF Recategorize, Basics
<1>3. ASSUME NEW v \in Writer, NEW e \in Entry, ChooseCategory(v, e) PROVE pc'[w] = pc[w] \/ pc'[w] # "idle"
  BY <1>3 DEF ChooseCategory, Basics, WritersType
<1>4. ASSUME NEW v \in Writer, ReadRules(v) \/ ReadRows(v) PROVE pc'[w] = pc[w] \/ pc'[w] # "idle"
  BY <1>4 DEF ReadRules, ReadRows, Basics, WritersType
<1>5. CASE \/ \E q \in NewRule : CreateRule(q)
           \/ \E f \in Filter : OpenList(f[1], f[2])
           \/ \E limit \in Limit : NextPage(limit)
           \/ \E m \in Month, c \in {Currency[a] : a \in Account} : ReportTotals(m, c)
           \/ ReportCategories
           \/ PutAway
           \/ UNCHANGED vars
  <2>1. pc' = pc
    BY <1>5 DEF CreateRule, OpenList, NextPage, ReportTotals, ReportCategories, PutAway,
                vars, writers
  <2> QED BY <2>1
<1>6. ASSUME NEW v \in Writer, NEW id \in Id, CommitRow(v, id) PROVE pc[v] = "entering"
  BY <1>6 DEF CommitRow
<1>7. ASSUME NEW v \in Writer, Recategorize(v) PROVE pc[v] = "loaded"
  BY <1>7 DEF Recategorize
<1>8. CASE \E v \in Writer :
             \/ \E e \in Entry : ChooseCategory(v, e)
             \/ \E id \in Id : CommitRow(v, id)
             \/ ReadRules(v) \/ ReadRows(v) \/ Recategorize(v)
  BY <1>1, <1>2, <1>3, <1>4, <1>6, <1>7, <1>8
<1> QED BY <1>5, <1>8 DEF Next

\* A request no rule and no re-categorising overtakes leaves its rows with the
\* category the rules give them, for all rules and rows and any number of
\* requests at once (create_transaction, import_transaction and
\* recategorize_transactions).
THEOREM RowsFollowRules == Spec => FollowsRules
<1> DEFINE Follows(w) ==
        /\ pc[w] = "entering" =>
              \A t \in rows' \ rows :
                 IF entry[w].category # NoCategory
                   THEN t.category = entry[w].category
                   ELSE ByRules(t.category, t.text)
        /\ pc[w] = "loaded" =>
              \A t \in rows' : t.id \in loaded[w] => ByRules(t.category, t.text)
<1>1. ASSUME Basics, [Next]_vars, NEW w \in Writer, pc'[w] = "idle",
             HasReadRules(w), WillFollow(w)
      PROVE  Follows(w)
  BY <1>1, WhoEnds, CommitRowFollowsRules, RecategorizeFollowsRules
<1>2. Basics /\ UndisturbedFollow /\ [Next]_vars =>
        \A w \in Writer : (pc'[w] = "idle" /\ ~overtaken[w]) => Follows(w)
  BY <1>1, Zenon DEF UndisturbedFollow
<1> QED BY <1>2, InitBasics, NextBasics, InitFollow, NextFollow, PTL DEF Spec, FollowsRules

-----------------------------------------------------------------------------
(* Reports add up                                                          *)

LEMMA SpentInIsTotal ==
    ASSUME NEW G
    PROVE  SpentIn(G) = Total([g \in G |-> g.spent], G)
<1> DEFINE w == [g \in G |-> g.spent]
           F(h) == [s \in SUBSET G |-> IF s = {} THEN 0
                                       ELSE (Pick(s)).spent + h[s \ {Pick(s)}]]
<1>1. \A h : F(h) = Iter(w, G, h)
  <2>1. \A s \in SUBSET G : s # {} => Pick(s) \in G
    BY PickIsElement
  <2> QED BY <2>1 DEF Iter
<1>2. SpentIn(G) = (CHOOSE h : h = F(h))[G]
  BY DEF SpentIn, Pick, MapThenSumSet, MapThenFoldSet
<1> HIDE DEF F, w
<1>3. (CHOOSE h : h = F(h)) = (CHOOSE h : h = Iter(w, G, h))
  BY <1>1
<1>4. SpentIn(G) = Total(w, G)
  BY <1>2, <1>3, TotalIsIter
<1> QED BY <1>4 DEF w

\* The rows a month's expenses are summed up from.
IsCost(t, c, m) ==
    /\ Currency[t.account] = c /\ Within(t.day, FirstDay(m), FirstDay(next_month(m)))
    /\ t.amount < 0
Costs(S, c, m) == {t \in S : IsCost(t, c, m)}

LEMMA CostsAreSpent ==
    ASSUME NEW S \in SUBSET Row, IsFiniteSet(S), NEW c, NEW m
    PROVE  /\ Costs(S, c, m) \in SUBSET S /\ IsFiniteSet(Costs(S, c, m))
           /\ \A t \in Costs(S, c, m) : Spending[t] \in Int
           /\ Expenses(MonthRows(S, c, m)) = Total(Spending, Costs(S, c, m))
<1>1. Costs(S, c, m) \in SUBSET S
  BY DEF Costs
<1>2. Costs(S, c, m) = Spent(MonthRows(S, c, m))
  BY DEF Costs, IsCost, Spent, MonthRows, InRange
<1>3. Expenses(MonthRows(S, c, m)) = Total(Spending, Costs(S, c, m))
  BY <1>2, MonthRowsAreRows, ExpensesAreTotal
<1>4. \A t \in Costs(S, c, m) : Spending[t] \in Int
  BY <1>1, AmountsAreNumbers DEF Spending
<1> QED BY <1>1, <1>3, <1>4, FS_Subset

\* One row more adds the same to the expenses of every ledger.
LEMMA OneMoreCost ==
    ASSUME NEW S \in SUBSET Row, IsFiniteSet(S), NEW r \in Row \ S, NEW c, NEW m
    PROVE  Expenses(MonthRows(S \cup {r}, c, m))
             = Expenses(MonthRows(S, c, m)) + (IF IsCost(r, c, m) THEN Spending[r] ELSE 0)
<1> DEFINE T == S \cup {r}
           C == Costs(S, c, m)
           D == Costs(T, c, m)
<1>1. T \in SUBSET Row /\ IsFiniteSet(T)
  BY FS_AddElement
<1>2. /\ C \in SUBSET S /\ IsFiniteSet(C) /\ \A t \in C : Spending[t] \in Int
      /\ Expenses(MonthRows(S, c, m)) = Total(Spending, C)
  BY CostsAreSpent
<1> HIDE DEF C
<1>3. Expenses(MonthRows(T, c, m)) = Total(Spending, D)
  <2> HIDE DEF T
  <2> QED BY <1>1, CostsAreSpent
<1>4. Total(Spending, C) \in Int
  BY <1>2, SumType
<1>5. CASE IsCost(r, c, m)
  <2>1. D = C \cup {r}
    BY <1>5 DEF Costs, C
  <2>2. Spending[r] \in Int
    BY AmountsAreNumbers DEF Spending
  <2>3. Total(Spending, C \cup {r}) = Total(Spending, C) + Spending[r]
    BY <1>2, <2>2, SumOfOneMore
  <2> QED BY <1>2, <1>3, <1>5, <2>1, <2>3
<1>6. CASE ~IsCost(r, c, m)
  <2>1. D = C
    BY <1>6 DEF Costs, C
  <2> QED BY <1>2, <1>3, <1>4, <1>6, <2>1
<1> QED BY <1>5, <1>6

\* Re-categorising moves expenses, and loses and doubles none.
LEMMA CostsAfter ==
    ASSUME LedgerType, NEW noted \in SUBSET Changes,
           rows' = {After(t, noted) : t \in rows}, NEW c, NEW m
    PROVE  Expenses(MonthRows(rows', c, m)) = Expenses(MonthRows(rows, c, m))
<1> DEFINE C == Costs(rows, c, m)
           D == Costs(rows', c, m)
           f == [t \in C |-> After(t, noted)]
<1>1. rows \in SUBSET Row /\ IsFiniteSet(rows) /\ \A s, t \in rows : s.id = t.id => s = t
  BY DEF LedgerType, Ledger
<1>2. rows' \in SUBSET Row /\ IsFiniteSet(rows')
  BY RecategorizedLedger DEF Ledger
<1>3. /\ C \in SUBSET rows /\ IsFiniteSet(C) /\ \A t \in C : Spending[t] \in Int
      /\ Expenses(MonthRows(rows, c, m)) = Total(Spending, C)
  BY <1>1, CostsAreSpent
<1>4. Expenses(MonthRows(rows', c, m)) = Total(Spending, D)
  BY <1>2, CostsAreSpent
<1>5. \A t \in rows : IsCost(After(t, noted), c, m) <=> IsCost(t, c, m)
  BY <1>1, AfterIsSame DEF IsCost
<1>6. D = {f[t] : t \in C}
  BY <1>5 DEF Costs
<1>7. f \in [C -> Row] /\ \A s, t \in C : f[s] = f[t] => s = t
  BY <1>1, <1>3, AfterIsSame
<1>8. \A t \in C : Spending[f[t]] = Spending[t]
  BY <1>1, <1>3, AfterIsSame DEF Spending
<1> HIDE DEF C, D, f
<1>9. Total(Spending, {f[t] : t \in C}) = Total(Spending, C)
  BY <1>3, <1>7, <1>8, SumOfImage
<1> QED BY <1>3, <1>4, <1>6, <1>9

\* Every expense is in the group of its category and in no other.
LEMMA CategoriesAddUp ==
    ASSUME NEW S \in SUBSET Row, IsFiniteSet(S)
    PROVE  SpentIn(ByCategory(S)) = Expenses(S)
<1> DEFINE C == Spent(S)
           G == {t.category : t \in C}
           f == [t \in C |-> t.category]
           group == [c \in G |-> {t \in C : t.category = c}]
           v == [c \in G |-> Expenses({t \in S : t.category = c})]
           record == [c \in G |-> [category |-> c, spent |-> v[c]]]
           w == [g \in ByCategory(S) |-> g.spent]
<1>1. /\ C \in SUBSET Row /\ IsFiniteSet(C) /\ \A t \in C : Spending[t] \in Int
      /\ Expenses(S) = Total(Spending, C)
  <2>1. C \in SUBSET S
    BY DEF Spent
  <2>2. \A t \in C : Spending[t] \in Int
    BY <2>1, AmountsAreNumbers DEF Spending
  <2> HIDE DEF C
  <2> QED BY <2>1, <2>2, FS_Subset, ExpensesAreTotal DEF C
<1>2. IsFiniteSet(G)
  <2>1. \A c \in G : \E t \in C : c = f[t]
    OBVIOUS
  <2> HIDE DEF C, G, f
  <2> QED BY <1>1, <2>1, FiniteImage
<1>3. \A t \in C : f[t] \in G
  OBVIOUS
<1>4. \A c \in G : \A t : t \in group[c] <=> t \in C /\ f[t] = c
  OBVIOUS
<1>5. ASSUME NEW c \in G PROVE v[c] = Total(Spending, group[c])
  <2> DEFINE P == {t \in S : t.category = c}
  <2>1. P \in SUBSET Row /\ P \in SUBSET S
    OBVIOUS
  <2>2. Spent(P) = group[c]
    BY DEF Spent
  <2>3. v[c] = Expenses(P)
    OBVIOUS
  <2> HIDE DEF P
  <2>4. Expenses(P) = Total(Spending, Spent(P))
    BY <2>1, FS_Subset, ExpensesAreTotal
  <2> QED BY <2>2, <2>3, <2>4
<1>6. Total(v, G) = Total(Spending, C)
  <2> HIDE DEF C, G, f, group, v
  <2> QED BY <1>1, <1>2, <1>3, <1>4, <1>5, SumOfGroups
<1>7. ByCategory(S) = {record[c] : c \in G}
  BY DEF ByCategory, Spent
<1>8. record \in [G -> ByCategory(S)] /\ \A c, d \in G : record[c] = record[d] => c = d
  <2>1. \A c \in G : record[c] \in ByCategory(S) /\ record[c].category = c
    BY <1>7
  <2>2. record \in [G -> ByCategory(S)]
    BY <2>1
  <2> HIDE DEF record
  <2> QED BY <2>1, <2>2
<1>9. \A c \in G : v[c] \in Int /\ w[record[c]] = v[c]
  <2>1. ASSUME NEW c \in G PROVE v[c] \in Int
    <3>1. group[c] \in SUBSET C
      OBVIOUS
    <3> HIDE DEF group, C, v, G
    <3>2. IsFiniteSet(group[c])
      BY <1>1, <3>1, FS_Subset
    <3> QED BY <1>1, <1>5, <3>1, <3>2, SumType
  <2>2. ASSUME NEW c \in G PROVE w[record[c]] = v[c]
    <3>1. record[c] \in ByCategory(S) /\ record[c].spent = v[c]
      BY <1>7
    <3> QED BY <3>1
  <2> QED BY <2>1, <2>2
<1> HIDE DEF C, G, f, group, v, record, w
<1>10. Total(w, {record[c] : c \in G}) = Total(v, G)
  BY <1>2, <1>8, <1>9, SumOfImage
<1>11. SpentIn(ByCategory(S)) = Total(w, ByCategory(S))
  BY SpentInIsTotal DEF w
<1> QED BY <1>1, <1>6, <1>7, <1>10, <1>11

LEMMA MonthSpentType ==
    ASSUME NEW S \in SUBSET Row, IsFiniteSet(S), NEW c, NEW m
    PROVE  Expenses(MonthRows(S, c, m)) \in Nat
BY MonthRowsAreRows, ExpensesType

LEMMA InitReport == Init => ReportInv
BY DEF Init, NoReport, ReportInv, ReportFits, ReportAddsUp

LEMMA ReportTotalsReport ==
    ASSUME Basics, NEW m \in Month, NEW c \in {Currency[a] : a \in Account},
           ReportTotals(m, c)
    PROVE  ReportInv'
<1> DEFINE i == Income(MonthRows(rows, c, m))
           x == Expenses(MonthRows(rows, c, m))
<1>1. report' = [NoReport EXCEPT !.at = "totals", !.month = m, !.currency = c,
                        !.income = i, !.expenses = x]
  BY DEF ReportTotals
<1>2. rows' = rows
  BY DEF ReportTotals
<1>3. x \in Nat
  BY MonthSpentType DEF Basics, LedgerType, Ledger
<1> HIDE DEF i
<1>4. /\ report'.at = "totals" /\ report'.month = m /\ report'.currency = c
      /\ report'.expenses = x /\ report'.meanwhile = {}
  BY <1>1 DEF NoReport
<1>5. Expenses(MonthRows({}, c, m)) = 0
  <2>1. Costs({}, c, m) = {}
    BY DEF Costs
  <2> QED BY <2>1, CostsAreSpent, FS_EmptySet, SumOfNothing
<1> QED BY <1>2, <1>3, <1>4, <1>5, FS_EmptySet DEF ReportInv, ReportFits, ReportAddsUp

LEMMA ReportCategoriesReport ==
    ASSUME Basics, ReportInv, ReportCategories
    PROVE  ReportInv'
<1> DEFINE month == MonthRows(rows, report.currency, report.month)
           groups == ByCategory(month)
<1>1. report.at = "totals" /\ report' = [report EXCEPT !.at = "made", !.by_category = groups]
  BY DEF ReportCategories
<1>2. month \in SUBSET Row /\ IsFiniteSet(month)
  BY MonthRowsAreRows DEF Basics, LedgerType, Ledger
<1> HIDE DEF month
<1>3. SpentIn(groups) = Expenses(month)
  BY <1>2, CategoriesAddUp
<1>4. Expenses(month)
        = report.expenses + Expenses(MonthRows(report.meanwhile, report.currency, report.month))
  BY <1>1 DEF ReportInv, ReportFits, month
<1> HIDE DEF groups
<1>5. /\ report'.at = "made" /\ report'.by_category = groups
      /\ report'.expenses = report.expenses /\ report'.meanwhile = report.meanwhile
      /\ report'.currency = report.currency /\ report'.month = report.month
  BY <1>1 DEF Basics, ReportType
<1> QED BY <1>3, <1>4, <1>5 DEF ReportInv, ReportFits, ReportAddsUp

LEMMA CommitRowReport ==
    ASSUME Basics, ReportInv, NEW w \in Writer, NEW id \in Id, CommitRow(w, id)
    PROVE  ReportInv'
<1> DEFINE row == RowOf(w, id)
<1>1. /\ pc[w] = "entering" /\ id \notin {t.id : t \in rows}
      /\ rows' = rows \cup {row}
      /\ report' = IF report.at = "totals"
                     THEN [report EXCEPT !.meanwhile = @ \cup {row}] ELSE report
  BY DEF CommitRow, RowOf
<1>2. row \in Row /\ row.id = id
  BY <1>1, RowOfIsRow DEF Basics
<1> HIDE DEF row
<1>3. CASE report.at # "totals"
  BY <1>1, <1>3 DEF ReportInv, ReportFits, ReportAddsUp
<1>4. CASE report.at = "totals"
  <2> DEFINE c == report.currency  m == report.month
             old == report.meanwhile  new == old \cup {row}
             more == IF IsCost(row, c, m) THEN Spending[row] ELSE 0
  <2>1. /\ report'.at = "totals" /\ report'.meanwhile = new
        /\ report'.currency = c /\ report'.month = m
        /\ report'.expenses = report.expenses
    BY <1>1, <1>4 DEF Basics, ReportType
  <2>2. /\ old \in SUBSET Row /\ IsFiniteSet(old)
        /\ \A t \in old : HasId(rows, t.id)
        /\ Expenses(MonthRows(rows, c, m)) = report.expenses + Expenses(MonthRows(old, c, m))
        /\ report.expenses \in Nat
    BY <1>4 DEF Basics, ReportType, ReportInv, ReportFits
  <2>3. rows \in SUBSET Row /\ IsFiniteSet(rows)
    BY DEF Basics, LedgerType, Ledger
  <2>4. row \in Row \ rows /\ row \in Row \ old
    BY <1>1, <1>2, <2>2 DEF HasId
  <2> HIDE DEF old
  <2>5. Expenses(MonthRows(rows', c, m)) = Expenses(MonthRows(rows, c, m)) + more
    BY <1>1, <2>3, <2>4, OneMoreCost
  <2>6. Expenses(MonthRows(new, c, m)) = Expenses(MonthRows(old, c, m)) + more
    BY <2>2, <2>4, OneMoreCost
  <2>7. more \in Int /\ Expenses(MonthRows(old, c, m)) \in Nat
    BY <1>2, <2>2, AmountsAreNumbers, MonthSpentType DEF Spending
  <2>8. Expenses(MonthRows(rows', c, m)) = report.expenses + Expenses(MonthRows(new, c, m))
    <3> HIDE DEF more, new, c, m
    <3> QED BY <2>2, <2>5, <2>6, <2>7
  <2>9. IsFiniteSet(new) /\ \A t \in new : HasId(rows', t.id)
    BY <1>1, <2>2, FS_AddElement DEF HasId
  <2> HIDE DEF new, c, m
  <2> QED BY <2>1, <2>8, <2>9 DEF ReportInv, ReportFits, ReportAddsUp
<1> QED BY <1>3, <1>4

LEMMA RecategorizeReport ==
    ASSUME Basics, ReportInv, NEW w \in Writer, Recategorize(w)
    PROVE  ReportInv'
<1>1. rows' = {After(t, changes[w]) : t \in rows} /\ report' = report
  BY DEF Recategorize, After
<1>2. changes[w] \in SUBSET Changes
  BY DEF Basics, WritersType
<1>3. Expenses(MonthRows(rows', report.currency, report.month))
        = Expenses(MonthRows(rows, report.currency, report.month))
  BY <1>1, <1>2, CostsAfter DEF Basics
<1>4. \A i : HasId(rows, i) => HasId(rows', i)
  <2> SUFFICES ASSUME NEW i, NEW t \in rows, t.id = i PROVE HasId(rows', i)
    BY DEF HasId
  <2>1. After(t, changes[w]).id = i /\ After(t, changes[w]) \in rows'
    BY <1>1, <1>2, AfterIsSame DEF Basics, LedgerType, Ledger
  <2> QED BY <2>1 DEF HasId
<1> QED BY <1>1, <1>3, <1>4 DEF ReportInv, ReportFits, ReportAddsUp

LEMMA NextReport == Basics /\ ReportInv /\ [Next]_vars => ReportInv'
<1> SUFFICES ASSUME Basics, ReportInv, [Next]_vars PROVE ReportInv'
  OBVIOUS
<1>1. ASSUME NEW w \in Writer, NEW id \in Id, CommitRow(w, id) PROVE ReportInv'
  BY <1>1, CommitRowReport
<1>2. ASSUME NEW w \in Writer, Recategorize(w) PROVE ReportInv'
  BY <1>2, RecategorizeReport
<1>3. ASSUME NEW m \in Month, NEW c \in {Currency[a] : a \in Account}, ReportTotals(m, c)
      PROVE  ReportInv'
  BY <1>3, ReportTotalsReport
<1>4. CASE ReportCategories
  BY <1>4, ReportCategoriesReport
<1>5. CASE PutAway
  BY <1>5 DEF PutAway, NoReport, ReportInv, ReportFits, ReportAddsUp
<1>6. CASE \/ \E q \in NewRule : CreateRule(q)
           \/ \E w \in Writer : \/ \E e \in Entry : ChooseCategory(w, e)
                                \/ ReadRules(w) \/ ReadRows(w)
           \/ \E f \in Filter : OpenList(f[1], f[2])
           \/ \E limit \in Limit : NextPage(limit)
           \/ UNCHANGED vars
  <2>1. rows' = rows /\ report' = report
    BY <1>6 DEF CreateRule, ChooseCategory, ReadRules, ReadRows, OpenList, NextPage, vars
  <2> QED BY <2>1 DEF ReportInv, ReportFits, ReportAddsUp
<1> QED BY <1>1, <1>2, <1>3, <1>4, <1>5, <1>6 DEF Next

\* What the categories of a report spend is its expenses, and on top of them
\* only what was committed between its two statements, whatever was
\* re-categorised (get_monthly_report, monthly_totals, monthly_categories).
THEOREM ReportsAddUp == Spec => []ReportAddsUp
<1>1. ReportInv => ReportAddsUp
  BY DEF ReportInv
<1> QED BY <1>1, InitBasics, NextBasics, InitReport, NextReport, PTL DEF Spec

-----------------------------------------------------------------------------
(* Exports and budgets                                                     *)

Currencies == {Currency[a] : a \in Account}

LEMMA MonthIsPair ==
    \A m \in Month : /\ m[1] \in Int /\ m[2] \in 1 .. 12 /\ m = <<m[1], m[2]>>
<1> SUFFICES ASSUME NEW m \in Month
             PROVE  m[1] \in Int /\ m[2] \in 1 .. 12 /\ m = <<m[1], m[2]>>
  OBVIOUS
<1> DEFINE Y == 1 .. 9999  M == 1 .. 12
<1>1. m \in Y \X M
  BY MonthAssumption DEF IsMonth
<1> HIDE DEF Y, M
<1>2. m = <<m[1], m[2]>> /\ m[1] \in Y /\ m[2] \in M
  BY <1>1
<1>3. Y \subseteq Int /\ M = 1 .. 12
  BY DEF Y, M
<1> QED BY <1>2, <1>3

\* The days after the last of a month begin the next one.
LEMMA ExportBounds ==
    ASSUME NEW m \in Month
    PROVE  export_range(FirstDay(m), <<m[1], m[2], DaysIn(m)>>)
             = <<FirstDay(m), FirstDay(next_month(m))>>
<1> DEFINE last == <<m[1], m[2], DaysIn(m)>>
<1>1. MonthOf(last) = m /\ last[3] = DaysIn(m)
  BY MonthIsPair DEF MonthOf
<1>2. DaysIn(m) \in Int
  BY DEF DaysIn
<1>3. ~(DaysIn(m) < DaysIn(m))
  BY <1>2
<1> HIDE DEF last
<1>4. DayAfter(last) = FirstDay(next_month(m))
  BY <1>1, <1>3 DEF DayAfter
<1>5. export_range(FirstDay(m), last) = <<FirstDay(m), FirstDay(next_month(m))>>
  BY <1>4 DEF export_range
<1> QED BY <1>5 DEF last

LEMMA CurrencyOfRow == \A t \in Row : Currency[t.account] \in Currencies
BY DEF Row, Currencies

LEMMA ExportOfMonth ==
    ASSUME Basics, NEW m \in Month
    PROVE  Export(rows, FirstDay(m), <<m[1], m[2], DaysIn(m)>>)
             = UNION {MonthRows(rows, c, m) : c \in {Currency[a] : a \in Account}}
<1> DEFINE last == <<m[1], m[2], DaysIn(m)>>
           start == FirstDay(m)
           end == FirstDay(next_month(m))
<1>1. export_range(start, last) = <<start, end>>
  BY ExportBounds
<1> HIDE DEF last, start, end
<1>2. Export(rows, start, last) = {t \in rows : Within(t.day, start, end)}
  BY <1>1 DEF Export
<1>3. \A t \in rows : Currency[t.account] \in Currencies
  BY CurrencyOfRow DEF Basics, LedgerType, Ledger
<1>4. \A c : MonthRows(rows, c, m)
               = {t \in rows : Currency[t.account] = c /\ Within(t.day, start, end)}
  BY DEF MonthRows, InRange, start, end
<1>5. Export(rows, start, last) = UNION {MonthRows(rows, c, m) : c \in Currencies}
  BY <1>2, <1>3, <1>4
<1> QED BY <1>5 DEF last, start, Currencies

\* Exporting a month from its first to its last day gives the rows its reports
\* are of, in all currencies, for every ledger and month (export_range against
\* next_month).
THEOREM ExportsAreMonths == Spec => []ExportIsTheMonth
<1>1. Basics => ExportIsTheMonth
  BY ExportOfMonth DEF ExportIsTheMonth
<1> QED BY <1>1, InitBasics, NextBasics, PTL DEF Spec

LEMMA BudgetBounds ==
    ASSUME NEW m \in Month
    PROVE  month_bounds(m) = <<FirstDay(m), FirstDay(next_month(m))>>
BY MonthIsPair DEF month_bounds, FirstDay, next_month

\* What a budget counts, and the same of one currency.
BudgetCosts(category, m) ==
    {t \in rows : /\ t.category = category
                  /\ Within(t.day, FirstDay(m), FirstDay(next_month(m)))
                  /\ t.amount < 0}
BudgetCostsIn(u, category, m) ==
    {t \in BudgetCosts(category, m) : Currency[t.account] = u}

LEMMA BudgetCostsAre ==
    ASSUME Basics, NEW category, NEW m \in Month
    PROVE  /\ BudgetCosts(category, m) \in SUBSET Row
           /\ IsFiniteSet(BudgetCosts(category, m))
           /\ \A t \in BudgetCosts(category, m) : Spending[t] \in Int
           /\ BudgetSpent(rows, category, m) = Total(Spending, BudgetCosts(category, m))
<1> DEFINE B == {t \in rows : /\ t.category = category
                              /\ Within(t.day, FirstDay(m), FirstDay(next_month(m)))}
<1>1. rows \in SUBSET Row /\ IsFiniteSet(rows)
  BY DEF Basics, LedgerType, Ledger
<1>2. B \in SUBSET rows
  OBVIOUS
<1>3. BudgetCosts(category, m) = Spent(B)
  BY DEF BudgetCosts, Spent
<1>4. BudgetSpent(rows, category, m) = Expenses(B)
  <2> DEFINE start == FirstDay(m)
             end == FirstDay(next_month(m))
             bounds == month_bounds(m)
  <2>1. bounds = <<start, end>>
    BY BudgetBounds
  <2>2. BudgetSpent(rows, category, m)
          = Expenses({t \in rows : t.category = category /\ Within(t.day, bounds[1], bounds[2])})
    BY DEF BudgetSpent
  <2> HIDE DEF start, end, bounds
  <2>3. bounds[1] = start /\ bounds[2] = end
    BY <2>1
  <2> QED BY <2>2, <2>3 DEF start, end
<1> HIDE DEF B
<1>5. B \in SUBSET Row /\ IsFiniteSet(B) /\ Expenses(B) = Total(Spending, Spent(B))
  BY <1>1, <1>2, FS_Subset, ExpensesAreTotal
<1>6. Spent(B) \in SUBSET B /\ \A t \in Spent(B) : Spending[t] \in Int
  BY <1>5, AmountsAreNumbers DEF Spent, Spending
<1> QED BY <1>3, <1>4, <1>5, <1>6, FS_Subset

\* A report has one group of a category, or none if nothing is spent in it.
LEMMA GroupSpent ==
    ASSUME Basics, NEW category, NEW m \in Month, NEW u
    PROVE  SpentIn({g \in ByCategory(MonthRows(rows, u, m)) : g.category = category})
             = Total(Spending, BudgetCostsIn(u, category, m))
<1> DEFINE S == MonthRows(rows, u, m)
           P == {t \in S : t.category = category}
           g == [category |-> category, spent |-> Expenses(P)]
           G == {h \in ByCategory(S) : h.category = category}
           w == [h \in G |-> h.spent]
<1>1. S \in SUBSET Row /\ IsFiniteSet(S)
  BY MonthRowsAreRows DEF Basics, LedgerType, Ledger
<1>2. Spent(P) = BudgetCostsIn(u, category, m)
  BY DEF Spent, BudgetCostsIn, BudgetCosts, MonthRows, InRange
<1>3. P \in SUBSET S /\ P \in SUBSET Row
  BY <1>1
<1>4. G = IF Spent(P) = {} THEN {} ELSE {g}
  <2> DEFINE D == {t.category : t \in {x \in S : x.amount < 0}}
             Of(c) == [category |-> c, spent |-> Expenses({t \in S : t.category = c})]
  <2>1. ByCategory(S) = {Of(c) : c \in D}
    BY DEF ByCategory
  <2>2. category \in D <=> Spent(P) # {}
    BY DEF Spent
  <2>3. g = Of(category) /\ \A c : Of(c).category = c
    OBVIOUS
  <2> HIDE DEF D, Of, g, P, S
  <2> QED BY <2>1, <2>2, <2>3
<1>5. SpentIn(G) = Total(w, G)
  BY SpentInIsTotal
<1> HIDE DEF P, S
<1>6. Expenses(P) = Total(Spending, Spent(P)) /\ Expenses(P) \in Nat
  BY <1>1, <1>3, FS_Subset, ExpensesAreTotal, ExpensesType
<1>7. CASE Spent(P) = {}
  <2>1. G = {}
    BY <1>4, <1>7
  <2> HIDE DEF G, w
  <2> QED BY <1>2, <1>5, <1>7, <2>1, SumOfNothing DEF S, G
<1>8. CASE Spent(P) # {}
  <2>1. G = {} \cup {g}
    BY <1>4, <1>8
  <2>2. w[g] = Expenses(P)
    BY <2>1
  <2> HIDE DEF G, w, g
  <2>3. Total(w, {} \cup {g}) = Total(w, {}) + w[g]
    <3>1. IsFiniteSet({}) /\ g \notin {} /\ \A h \in {} \cup {g} : w[h] \in Int
      BY <1>6, <2>2, FS_EmptySet
    <3> QED BY <3>1, SumOfOneMore
  <2>4. Total(w, {}) = 0
    BY SumOfNothing
  <2>5. SpentIn(G) = Total(Spending, BudgetCostsIn(u, category, m))
    BY <1>2, <1>5, <1>6, <2>1, <2>2, <2>3, <2>4
  <2> QED BY <2>5 DEF G, S
<1> QED BY <1>7, <1>8

LEMMA ReportedIsTotal ==
    ASSUME NEW category, NEW m, NEW w,
           \A u \in Currencies :
              w[u] = SpentIn({g \in ByCategory(MonthRows(rows, u, m)) : g.category = category})
    PROVE  ReportedSpent(category, m) = Total(w, Currencies)
<1> DEFINE In(u) == SpentIn({g \in ByCategory(MonthRows(rows, u, m)) : g.category = category})
           F(h) == [s \in SUBSET Currencies |-> IF s = {} THEN 0
                                       ELSE In(Pick(s)) + h[s \ {Pick(s)}]]
<1>1. \A h : F(h) = Iter(w, Currencies, h)
  <2>1. \A s \in SUBSET Currencies : s # {} => Pick(s) \in Currencies
    BY PickIsElement
  <2>2. \A u \in Currencies : w[u] = In(u)
    OBVIOUS
  <2> HIDE DEF In
  <2> QED BY <2>1, <2>2 DEF Iter
<1>2. ReportedSpent(category, m) = (CHOOSE h : h = F(h))[Currencies]
  BY DEF ReportedSpent, Pick, MapThenSumSet, MapThenFoldSet, Currencies
<1> HIDE DEF F
<1>3. (CHOOSE h : h = F(h)) = (CHOOSE h : h = Iter(w, Currencies, h))
  BY <1>1
<1> QED BY <1>2, <1>3, TotalIsIter

LEMMA CurrenciesAreFinite == IsFiniteSet(Currencies)
<1> DEFINE R == Currencies
<1>1. IsFiniteSet(Account) /\ \A c \in R : \E a \in Account : c = Currency[a]
  BY CurrencyAssumption DEF Currencies
<1> HIDE DEF R
<1>2. IsFiniteSet(R)
  BY <1>1, FiniteImage
<1> QED BY <1>2 DEF R

LEMMA BudgetsMatch ==
    ASSUME Basics, NEW category, NEW m \in Month
    PROVE  BudgetSpent(rows, category, m) = ReportedSpent(category, m)
<1> DEFINE C == BudgetCosts(category, m)
           f == [t \in C |-> Currency[t.account]]
           group == [u \in Currencies |-> BudgetCostsIn(u, category, m)]
           v == [u \in Currencies |-> Total(Spending, group[u])]
<1>1. /\ C \in SUBSET Row /\ IsFiniteSet(C) /\ \A t \in C : Spending[t] \in Int
      /\ BudgetSpent(rows, category, m) = Total(Spending, C)
  BY BudgetCostsAre
<1>2. \A t \in C : f[t] \in Currencies
  BY <1>1, CurrencyOfRow
<1>3. \A u \in Currencies : \A t : t \in group[u] <=> t \in C /\ f[t] = u
  BY DEF BudgetCostsIn
<1>4. \A u \in Currencies : v[u] = Total(Spending, group[u])
  OBVIOUS
<1>5. \A u \in Currencies :
        v[u] = SpentIn({g \in ByCategory(MonthRows(rows, u, m)) : g.category = category})
  BY GroupSpent
<1>6. ReportedSpent(category, m) = Total(v, Currencies)
  <2> HIDE DEF v
  <2> QED BY <1>5, ReportedIsTotal
<1> HIDE DEF C, f, group, v
<1>7. Total(v, Currencies) = Total(Spending, C)
  BY <1>1, <1>2, <1>3, <1>4, CurrenciesAreFinite, SumOfGroups
<1> QED BY <1>1, <1>6, <1>7

\* What a budget counts as spent is what the month's reports say of its
\* category, all currencies together, for every ledger and month (month_bounds
\* and calculate_spent against next_month and monthly_categories).
THEOREM BudgetsAreReports == Spec => []BudgetsMatchReports
<1>1. Basics => BudgetsMatchReports
  BY BudgetsMatch DEF BudgetsMatchReports
<1> QED BY <1>1, InitBasics, NextBasics, PTL DEF Spec

-----------------------------------------------------------------------------
(* Trends                                                                  *)

\* Months of any year; a trend may begin before the calendar does.
AnyMonth == Int \X (1 .. 12)

\* The month of a number.
MonthNo(k) == <<(k - 1) \div 12, ((k - 1) % 12) + 1>>

LEMMA AnyMonthIsPair ==
    \A m \in AnyMonth : /\ m[1] \in Int /\ m[2] \in Int /\ 1 <= m[2] /\ m[2] <= 12
                        /\ m = <<m[1], m[2]>>
<1> SUFFICES ASSUME NEW m \in AnyMonth
             PROVE  /\ m[1] \in Int /\ m[2] \in Int /\ 1 <= m[2] /\ m[2] <= 12
                    /\ m = <<m[1], m[2]>>
  OBVIOUS
<1> DEFINE M == 1 .. 12
<1>1. m \in Int \X M
  BY DEF AnyMonth
<1> HIDE DEF M
<1>2. m = <<m[1], m[2]>> /\ m[1] \in Int /\ m[2] \in M
  BY <1>1
<1>3. \A i \in M : i \in Int /\ 1 <= i /\ i <= 12
  BY DEF M
<1> QED BY <1>2, <1>3

LEMMA MonthsAreAny == \A m \in Month : m \in AnyMonth
BY MonthIsPair DEF AnyMonth

LEMMA OrdinalsDiffer ==
    ASSUME NEW m \in AnyMonth, NEW n \in AnyMonth, Ordinal(m) = Ordinal(n)
    PROVE  m = n
<1>1. /\ m[1] \in Int /\ m[2] \in Int /\ 1 <= m[2] /\ m[2] <= 12 /\ m = <<m[1], m[2]>>
      /\ n[1] \in Int /\ n[2] \in Int /\ 1 <= n[2] /\ n[2] <= 12 /\ n = <<n[1], n[2]>>
  BY AnyMonthIsPair
<1>2. 12 * m[1] + m[2] = 12 * n[1] + n[2]
  BY DEF Ordinal
<1>3. m[1] = n[1] /\ m[2] = n[2]
  BY <1>1, <1>2
<1> QED BY <1>1, <1>3

LEMMA MonthSteps ==
    ASSUME NEW m \in AnyMonth
    PROVE  /\ Ordinal(m) \in Int
           /\ next_month(m) \in AnyMonth /\ Ordinal(next_month(m)) = Ordinal(m) + 1
           /\ previous_month(m) \in AnyMonth /\ Ordinal(previous_month(m)) = Ordinal(m) - 1
<1>1. m[1] \in Int /\ m[2] \in Int /\ 1 <= m[2] /\ m[2] <= 12
  BY AnyMonthIsPair
<1>2. next_month(m) \in AnyMonth /\ Ordinal(next_month(m)) = Ordinal(m) + 1
  BY <1>1 DEF next_month, AnyMonth, Ordinal
<1>3. previous_month(m) \in AnyMonth /\ Ordinal(previous_month(m)) = Ordinal(m) - 1
  BY <1>1 DEF previous_month, AnyMonth, Ordinal
<1> QED BY <1>1, <1>2, <1>3 DEF Ordinal

LEMMA MonthNumbers ==
    ASSUME NEW k \in Int
    PROVE  /\ MonthNo(k) \in AnyMonth /\ Ordinal(MonthNo(k)) = k
           /\ next_month(MonthNo(k)) = MonthNo(k + 1)
           /\ previous_month(MonthNo(k)) = MonthNo(k - 1)
<1>1. ASSUME NEW j \in Int PROVE MonthNo(j) \in AnyMonth /\ Ordinal(MonthNo(j)) = j
  <2> DEFINE i == j - 1
             q == i \div 12
             r == i % 12
  <2>1. i \in Int
    OBVIOUS
  <2> HIDE DEF i
  <2>2. q \in Int /\ r \in 0 .. 11 /\ r = i - 12 * q
    BY <2>1
  <2>3. MonthNo(j) = <<q, r + 1>>
    BY DEF MonthNo, i
  <2> HIDE DEF q, r
  <2>4. <<q, r + 1>> \in AnyMonth
    BY <2>2 DEF AnyMonth
  <2>5. 12 * q + (r + 1) = j
    BY <2>1, <2>2 DEF i
  <2> QED BY <2>3, <2>4, <2>5 DEF Ordinal
<1>2. MonthNo(k + 1) \in AnyMonth /\ Ordinal(MonthNo(k + 1)) = k + 1
  BY <1>1
<1>3. MonthNo(k - 1) \in AnyMonth /\ Ordinal(MonthNo(k - 1)) = k - 1
  BY <1>1
<1> QED BY <1>1, <1>2, <1>3, MonthSteps, OrdinalsDiffer

LEMMA MonthOfNumber == \A m \in AnyMonth : MonthNo(Ordinal(m)) = m
BY MonthSteps, MonthNumbers, OrdinalsDiffer

\* A day comes before a month if its own month does.
LEMMA DaysAndMonths ==
    ASSUME NEW d \in Days, NEW m \in AnyMonth
    PROVE  /\ MonthOf(d) \in AnyMonth
           /\ Earlier(d, FirstDay(m)) <=> Ordinal(MonthOf(d)) < Ordinal(m)
<1>1. d[1] \in Int /\ d[2] \in Int /\ 1 <= d[2] /\ d[2] <= 12 /\ d[3] \in Int /\ 1 <= d[3]
  <2> DEFINE Y == 1 .. 9999  M == 1 .. 12  D == 1 .. 31
  <2>1. d \in Y \X M \X D
    <3>1. d \in Date
      BY EntryAssumption DEF Days, IsDay
    <3> QED BY <3>1 DEF Date
  <2> HIDE DEF Y, M, D
  <2>2. d[1] \in Y /\ d[2] \in M /\ d[3] \in D
    BY <2>1
  <2>3. /\ \A i \in Y : i \in Int
        /\ \A i \in M : i \in Int /\ 1 <= i /\ i <= 12
        /\ \A i \in D : i \in Int /\ 1 <= i
    BY DEF Y, M, D
  <2> QED BY <2>2, <2>3
<1>2. m[1] \in Int /\ m[2] \in Int /\ 1 <= m[2] /\ m[2] <= 12
  BY AnyMonthIsPair
<1>3. MonthOf(d) \in AnyMonth
  BY <1>1 DEF MonthOf, AnyMonth
<1>4. Earlier(d, FirstDay(m)) <=> d[1] < m[1] \/ (d[1] = m[1] /\ d[2] < m[2])
  BY <1>1, <1>2 DEF Earlier, FirstDay
<1>5. Ordinal(MonthOf(d)) = 12 * d[1] + d[2] /\ Ordinal(m) = 12 * m[1] + m[2]
  BY DEF Ordinal, MonthOf
<1> QED BY <1>1, <1>2, <1>3, <1>4, <1>5

\* The rows of consecutive months.
RowsOf(c, p, q) == {t \in rows : /\ Currency[t.account] = c
                                 /\ Ordinal(MonthOf(t.day)) \in p .. q}

LEMMA RangeOfMonths ==
    ASSUME Basics, NEW c, NEW m \in AnyMonth, NEW n \in AnyMonth
    PROVE  InRange(rows, c, FirstDay(m), FirstDay(next_month(n)))
             = RowsOf(c, Ordinal(m), Ordinal(n))
<1>1. ASSUME NEW t \in rows
      PROVE  Within(t.day, FirstDay(m), FirstDay(next_month(n)))
               <=> Ordinal(MonthOf(t.day)) \in Ordinal(m) .. Ordinal(n)
  <2>1. t.day \in Days
    BY RowsAreKeyed DEF Basics, LedgerType, Ledger, IsKeyed
  <2>2. /\ Ordinal(MonthOf(t.day)) \in Int /\ Ordinal(m) \in Int /\ Ordinal(n) \in Int
        /\ next_month(n) \in AnyMonth /\ Ordinal(next_month(n)) = Ordinal(n) + 1
    BY <2>1, DaysAndMonths, MonthSteps
  <2>3. Earlier(t.day, FirstDay(m)) <=> Ordinal(MonthOf(t.day)) < Ordinal(m)
    BY <2>1, DaysAndMonths
  <2>4. Earlier(t.day, FirstDay(next_month(n))) <=> Ordinal(MonthOf(t.day)) < Ordinal(n) + 1
    BY <2>1, <2>2, DaysAndMonths
  <2> QED BY <2>2, <2>3, <2>4 DEF Within
<1> QED BY <1>1 DEF InRange, RowsOf

LEMMA RowsOfMonths ==
    ASSUME Basics, NEW c, NEW p, NEW q
    PROVE  RowsOf(c, p, q) \in SUBSET Row /\ IsFiniteSet(RowsOf(c, p, q))
<1>1. RowsOf(c, p, q) \in SUBSET rows
  BY DEF RowsOf
<1> QED BY <1>1, FS_Subset DEF Basics, LedgerType, Ledger

LEMMA SumsOfNothing == Sum({}) = 0 /\ Income({}) = 0 /\ Expenses({}) = 0
<1>1. Sum({}) = 0
  BY SumIsTotal, SumOfNothing
<1>2. /\ {t \in {} : t.amount > 0} = {}
      /\ {t \in {} : t.amount < 0} = {}
  OBVIOUS
<1>3. Income({}) = 0
  BY <1>1, <1>2 DEF Income
<1>4. Expenses({}) = -Sum({})
  BY <1>2 DEF Expenses
<1> QED BY <1>1, <1>3, <1>4

\* What comes in and what goes out is all there is.
LEMMA NetIsSum ==
    ASSUME NEW S \in SUBSET Row, IsFiniteSet(S)
    PROVE  Income(S) - Expenses(S) = Sum(S)
<1> DEFINE P == {t \in S : t.amount > 0}
           N == {t \in S : t.amount < 0}
           Z == {t \in S : t.amount = 0}
<1>1. P \in SUBSET S /\ N \in SUBSET S /\ Z \in SUBSET S
  OBVIOUS
<1>2. Income(S) = Sum(P) /\ Expenses(S) = -Sum(N)
  BY DEF Income, Expenses
<1>3. \A t \in S : t.amount \in Int /\ Amounts[t] = t.amount
  BY AmountsAreNumbers
<1>4. S = (P \cup N) \cup Z /\ P \cap N = {} /\ (P \cup N) \cap Z = {}
  BY <1>3
<1>5. \A t \in Z : Amounts[t] = 0
  BY <1>3
<1> HIDE DEF P, N, Z
<1>6. IsFiniteSet(P) /\ IsFiniteSet(N) /\ IsFiniteSet(Z) /\ IsFiniteSet(P \cup N)
  BY <1>1, FS_Subset, FS_Union
<1>7. Total(Amounts, P \cup N) = Total(Amounts, P) + Total(Amounts, N)
  BY <1>1, <1>3, <1>4, <1>6, SumOfUnion
<1>8. Total(Amounts, S) = Total(Amounts, P \cup N) + Total(Amounts, Z)
  BY <1>1, <1>3, <1>4, <1>6, SumOfUnion
<1>9. Total(Amounts, Z) = 0
  <2>1. \A t \in Z : Amounts[t] \in Int /\ Amounts[t] = -Amounts[t]
    BY <1>5
  <2>2. Total(Amounts, Z) = -Total(Amounts, Z)
    BY ONLY <1>6, <2>1, SumOfOpposites
  <2>3. Total(Amounts, Z) \in Int
    BY <1>6, <2>1, SumType
  <2> QED BY <2>2, <2>3
<1>10. /\ Sum(P) = Total(Amounts, P) /\ Sum(N) = Total(Amounts, N)
       /\ Sum(S) = Total(Amounts, S)
  BY <1>1, SumIsTotal
<1>11. Total(Amounts, P) \in Int /\ Total(Amounts, N) \in Int
  BY <1>1, <1>3, <1>6, SumType
<1> QED BY <1>2, <1>7, <1>8, <1>9, <1>10, <1>11

\* Of some indices, the first does not follow another one of them.
LEMMA FirstIndex ==
    ASSUME NEW n \in Nat, NEW Bad \in SUBSET (1 .. n), Bad # {}
    PROVE  \E i \in Bad : i - 1 \notin Bad
<1> DEFINE R == {p \in Bad \X Bad : p[1] < p[2]}
<1>1. IsFiniteSet(Bad)
  <2>1. IsFiniteSet(1 .. n)
    BY FS_Interval
  <2> QED BY <2>1, FS_Subset
<1>2. \A i, j \in Bad : <<i, j>> \in R <=> i < j
  OBVIOUS
<1>3. \A i \in Bad : i \in Int
  OBVIOUS
<1> HIDE DEF R
<1>4. /\ \A i \in Bad : <<i, i>> \notin R
      /\ \A i, j, k \in Bad : <<i, j>> \in R /\ <<j, k>> \in R => <<i, k>> \in R
  BY <1>2, <1>3
<1>5. PICK i \in Bad : \A j \in Bad : <<j, i>> \notin R
  BY <1>1, <1>4, Minimal
<1>6. i - 1 < i
  BY <1>3
<1> QED BY <1>2, <1>5, <1>6

\* Going back from the last month gets to the one that is as many months ago.
LEMMA TrendBegins ==
    ASSUME NEW until \in AnyMonth, NEW months \in Nat \ {0}
    PROVE  FirstOfTrend(until, months) = MonthNo(Ordinal(until) - months + 1)
<1> DEFINE last == Ordinal(until)
           G(f) == [i \in 1 .. months |-> IF i = 1 THEN until ELSE previous_month(f[i - 1])]
           back == [i \in 1 .. months |-> MonthNo(last - i + 1)]
           first == CHOOSE f : f = G(f)
<1>1. last \in Int
  BY MonthSteps
<1>2. ASSUME NEW i \in 1 .. months, NEW f, i # 1 => f[i - 1] = back[i - 1]
      PROVE  G(f)[i] = back[i]
  <2>1. CASE i = 1
    <3>1. MonthNo(last - 1 + 1) = until
      <4>1. last - 1 + 1 = last
        BY <1>1
      <4> QED BY <4>1, MonthOfNumber
    <3> QED BY <2>1, <3>1
  <2>2. CASE i # 1
    <3> DEFINE k == last - (i - 1) + 1
    <3>1. i - 1 \in 1 .. months /\ k \in Int /\ k - 1 = last - i + 1
      BY <1>1, <2>2
    <3>2. f[i - 1] = MonthNo(k)
      BY <1>2, <2>2, <3>1
    <3> HIDE DEF k
    <3>3. previous_month(MonthNo(k)) = MonthNo(k - 1)
      BY <3>1, MonthNumbers
    <3> QED BY <2>2, <3>1, <3>2, <3>3
  <2> QED BY <2>1, <2>2
<1>3. back = G(back)
  BY <1>2
<1>4. first = G(first)
  BY <1>3
<1>5. FirstOfTrend(until, months) = first[months]
  BY DEF FirstOfTrend
<1>6. ASSUME NEW f, f = G(f) PROVE f[months] = back[months]
  <2> DEFINE Bad == {i \in 1 .. months : f[i] # back[i]}
  <2>1. ASSUME Bad # {} PROVE FALSE
    <3>1. PICK i \in Bad : i - 1 \notin Bad
      <4>1. Bad \in SUBSET (1 .. months)
        OBVIOUS
      <4> HIDE DEF Bad
      <4> QED BY <2>1, <4>1, FirstIndex
    <3>2. i # 1 => i - 1 \in 1 .. months
      OBVIOUS
    <3>3. i # 1 => f[i - 1] = back[i - 1]
      BY <3>1, <3>2
    <3>4. G(f)[i] = back[i]
      BY <1>2, <3>3
    <3> QED BY <1>6, <3>4
  <2>2. months \in 1 .. months
    OBVIOUS
  <2> QED BY <2>1, <2>2
<1>7. back[months] = MonthNo(last - months + 1)
  OBVIOUS
<1> HIDE DEF G, back, first
<1> QED BY <1>4, <1>5, <1>6, <1>7

\* The point of a trend, worked out from all rows.
Point(c, since, i) ==
    [month |-> MonthNo(since + i),
     income |-> Income(RowsOf(c, since + i, since + i)),
     expenses |-> Expenses(RowsOf(c, since + i, since + i)),
     running_net |-> Sum(RowsOf(c, since + 1, since + i))]

LEMMA MonthOfRow ==
    ASSUME Basics, NEW t \in rows, NEW k \in Int
    PROVE  /\ t.day \in Days /\ Ordinal(MonthOf(t.day)) \in Int
           /\ MonthOf(t.day) = MonthNo(k) <=> Ordinal(MonthOf(t.day)) = k
           /\ Earlier(t.day, FirstDay(next_month(MonthNo(k)))) <=> Ordinal(MonthOf(t.day)) <= k
<1>1. t.day \in Days
  BY RowsAreKeyed DEF Basics, LedgerType, Ledger, IsKeyed
<1>2. MonthNo(k) \in AnyMonth /\ Ordinal(MonthNo(k)) = k
  BY MonthNumbers
<1>3. next_month(MonthNo(k)) \in AnyMonth /\ Ordinal(next_month(MonthNo(k))) = k + 1
  BY <1>2, MonthSteps
<1>4. MonthOf(t.day) \in AnyMonth
  BY <1>1, <1>2, DaysAndMonths
<1>5. Ordinal(MonthOf(t.day)) \in Int
  BY <1>4, MonthSteps
<1>6. MonthOf(t.day) = MonthNo(k) <=> Ordinal(MonthOf(t.day)) = k
  BY <1>2, <1>4, OrdinalsDiffer
<1>7. Earlier(t.day, FirstDay(next_month(MonthNo(k)))) <=> Ordinal(MonthOf(t.day)) < k + 1
  BY <1>1, <1>3, DaysAndMonths
<1> QED BY <1>1, <1>5, <1>6, <1>7

\* The months that have rows are points as they come from the database.
LEMMA ActivePoints ==
    ASSUME Basics, NEW c, NEW since \in Int, NEW n \in Nat \ {0}, NEW i \in 1 .. n, NEW a
    PROVE  (/\ a \in MonthlyTrend(rows, c, FirstDay(MonthNo(since + 1)),
                                  FirstDay(next_month(MonthNo(since + n))))
            /\ a.month = MonthNo(since + i))
             <=> (RowsOf(c, since + i, since + i) # {} /\ a = Point(c, since, i))
<1> DEFINE start == FirstDay(MonthNo(since + 1))
           end == FirstDay(next_month(MonthNo(since + n)))
           window == InRange(rows, c, start, end)
           Of(m) == {t \in window : MonthOf(t.day) = m}
           Until(m) == {t \in window : Earlier(t.day, FirstDay(next_month(m)))}
           Active(m) == [month |-> m, income |-> Income(Of(m)), expenses |-> Expenses(Of(m)),
                         running_net |-> Sum(Until(m))]
           M == {MonthOf(t.day) : t \in window}
           month == MonthNo(since + i)
<1>1. MonthlyTrend(rows, c, start, end) = {Active(m) : m \in M}
  BY DEF MonthlyTrend
<1>2. since + 1 \in Int /\ since + n \in Int /\ since + i \in Int
  OBVIOUS
<1>3. window = RowsOf(c, since + 1, since + n)
  BY <1>2, MonthNumbers, RangeOfMonths
<1>4. Of(month) = RowsOf(c, since + i, since + i)
  BY <1>2, <1>3, MonthOfRow DEF RowsOf
<1>5. Until(month) = RowsOf(c, since + 1, since + i)
  BY <1>2, <1>3, MonthOfRow DEF RowsOf
<1>6. month \in M <=> Of(month) # {}
  OBVIOUS
<1>7. Active(month) = Point(c, since, i)
  BY <1>4, <1>5 DEF Point
<1>8. \A m : Active(m).month = m
  OBVIOUS
<1> HIDE DEF Active, M, Of, month, start, end
<1>9. a \in MonthlyTrend(rows, c, start, end) /\ a.month = month
        <=> Of(month) # {} /\ a = Active(month)
  BY <1>1, <1>6, <1>8
<1> QED BY <1>4, <1>7, <1>9 DEF start, end, month

\* A month without rows carries the running total on.
LEMMA EmptyPoint ==
    ASSUME Basics, NEW c, NEW since \in Int, NEW i \in Nat \ {0},
           RowsOf(c, since + i, since + i) = {}
    PROVE  Point(c, since, i) =
             [month |-> MonthNo(since + i), income |-> 0, expenses |-> 0,
              running_net |-> IF i = 1 THEN 0 ELSE Point(c, since, i - 1).running_net]
<1>1. i # 1 => RowsOf(c, since + 1, since + i) = RowsOf(c, since + 1, since + (i - 1))
  <2> SUFFICES ASSUME i # 1, NEW t \in rows, Currency[t.account] = c
               PROVE  Ordinal(MonthOf(t.day)) \in (since + 1) .. (since + i)
                        <=> Ordinal(MonthOf(t.day)) \in (since + 1) .. (since + (i - 1))
    BY DEF RowsOf
  <2>1. Ordinal(MonthOf(t.day)) \in Int
    BY MonthOfRow
  <2>2. Ordinal(MonthOf(t.day)) # since + i
    <3>1. t \notin RowsOf(c, since + i, since + i)
      OBVIOUS
    <3> QED BY <2>1, <3>1 DEF RowsOf
  <2> QED BY <2>1, <2>2
<1>2. Point(c, since, i - 1).running_net = Sum(RowsOf(c, since + 1, since + (i - 1)))
  BY DEF Point
<1> DEFINE net == Sum(RowsOf(c, since + 1, since + i))
<1>3. net = IF i = 1 THEN 0 ELSE Point(c, since, i - 1).running_net
  <2>1. CASE i = 1
    <3>1. RowsOf(c, since + 1, since + i) = {}
      BY <2>1
    <3> QED BY <2>1, <3>1, SumsOfNothing
  <2>2. CASE i # 1
    BY <1>1, <1>2, <2>2
  <2> QED BY <2>1, <2>2
<1>4. Point(c, since, i) = [month |-> MonthNo(since + i), income |-> 0, expenses |-> 0,
                            running_net |-> net]
  BY SumsOfNothing DEF Point
<1> QED BY <1>3, <1>4

\* Filling in the months without rows gives every point as all rows do.
LEMMA TrendIsPoints ==
    ASSUME Basics, NEW c, NEW until \in AnyMonth, NEW months \in Nat \ {0}
    PROVE  Trend(rows, c, until, months)
             = [i \in 1 .. months |-> Point(c, Ordinal(until) - months, i)]
<1> DEFINE since == Ordinal(until) - months
           first == FirstOfTrend(until, months)
           active == MonthlyTrend(rows, c, FirstDay(first), FirstDay(next_month(until)))
           MonthAt(p, i) == IF i = 1 THEN first ELSE next_month(p[i - 1].month)
           Filled(p, i) ==
               IF \E a \in active : a.month = MonthAt(p, i)
                 THEN CHOOSE a \in active : a.month = MonthAt(p, i)
                 ELSE [month |-> MonthAt(p, i), income |-> 0, expenses |-> 0,
                       running_net |-> IF i = 1 THEN 0 ELSE p[i - 1].running_net]
           G(p) == [i \in 1 .. months |-> Filled(p, i)]
           point == CHOOSE p : p = G(p)
           points == [i \in 1 .. months |-> Point(c, since, i)]
<1>1. Trend(rows, c, until, months) = point
  BY DEF Trend, Carried
<1>2. since \in Int /\ since + 1 = Ordinal(until) - months + 1 /\ since + months = Ordinal(until)
  BY MonthSteps
<1> HIDE DEF since
<1>3. first = MonthNo(since + 1) /\ until = MonthNo(since + months)
  BY <1>2, TrendBegins, MonthOfNumber
<1> HIDE DEF first
<1>4. ASSUME NEW i \in 1 .. months
      PROVE  \A a : (a \in active /\ a.month = MonthNo(since + i))
                      <=> (RowsOf(c, since + i, since + i) # {} /\ a = Point(c, since, i))
  <2>1. active = MonthlyTrend(rows, c, FirstDay(MonthNo(since + 1)),
                              FirstDay(next_month(MonthNo(since + months))))
    BY <1>3
  <2> HIDE DEF active
  <2>2. months \in Nat \ {0} /\ since \in Int
    BY <1>2
  <2>3. ASSUME NEW a
        PROVE  (/\ a \in MonthlyTrend(rows, c, FirstDay(MonthNo(since + 1)),
                                      FirstDay(next_month(MonthNo(since + months))))
                /\ a.month = MonthNo(since + i))
                 <=> (RowsOf(c, since + i, since + i) # {} /\ a = Point(c, since, i))
    BY <2>2, ActivePoints
  <2> HIDE DEF active
  <2> QED BY <2>1, <2>3
<1> HIDE DEF active
<1>5. ASSUME NEW i \in 1 .. months, NEW p, i # 1 => p[i - 1] = points[i - 1]
      PROVE  Filled(p, i) = points[i]
  <2>1. i # 1 => p[i - 1] = Point(c, since, i - 1)
    BY <1>5
  <2>2. MonthAt(p, i) = MonthNo(since + i)
    <3>1. CASE i = 1
      BY <1>3, <3>1
    <3>2. CASE i # 1
      <4> DEFINE k == since + (i - 1)
      <4>1. k \in Int /\ k + 1 = since + i
        BY <1>2
      <4>2. p[i - 1].month = MonthNo(k)
        BY <2>1, <3>2 DEF Point
      <4> HIDE DEF k
      <4>3. next_month(MonthNo(k)) = MonthNo(k + 1)
        BY <4>1, MonthNumbers
      <4> QED BY <3>2, <4>1, <4>2, <4>3
    <3> QED BY <3>1, <3>2
  <2>3. CASE RowsOf(c, since + i, since + i) # {}
    <3>1. \A a : (a \in active /\ a.month = MonthAt(p, i)) <=> a = Point(c, since, i)
      BY <1>4, <2>2, <2>3
    <3> HIDE DEF MonthAt
    <3> QED BY <3>1
  <2>4. CASE RowsOf(c, since + i, since + i) = {}
    <3>1. ~\E a \in active : a.month = MonthAt(p, i)
      BY <1>4, <2>2, <2>4
    <3>2. Point(c, since, i) =
             [month |-> MonthNo(since + i), income |-> 0, expenses |-> 0,
              running_net |-> IF i = 1 THEN 0 ELSE Point(c, since, i - 1).running_net]
      BY <1>2, <2>4, EmptyPoint
    <3> HIDE DEF MonthAt
    <3> QED BY <2>1, <2>2, <3>1, <3>2
  <2> QED BY <2>3, <2>4
<1>6. points = G(points)
  BY <1>5
<1>7. point = G(point)
  BY <1>6
<1>8. ASSUME NEW p, p = G(p) PROVE p = points
  <2> DEFINE Bad == {i \in 1 .. months : p[i] # points[i]}
  <2>1. ASSUME Bad # {} PROVE FALSE
    <3>1. PICK i \in Bad : i - 1 \notin Bad
      <4>1. Bad \in SUBSET (1 .. months)
        OBVIOUS
      <4> HIDE DEF Bad
      <4> QED BY <2>1, <4>1, FirstIndex
    <3>2. i # 1 => i - 1 \in 1 .. months
      OBVIOUS
    <3>3. i # 1 => p[i - 1] = points[i - 1]
      BY <3>1, <3>2
    <3>4. Filled(p, i) = points[i]
      BY <1>5, <3>3
    <3>5. p[i] = Filled(p, i)
      <4> HIDE DEF Filled, points
      <4> QED BY <1>8
    <3> QED BY <3>4, <3>5
  <2>2. \A i \in 1 .. months : p[i] = points[i]
    BY <2>1
  <2>3. p = [i \in 1 .. months |-> p[i]]
    <3> HIDE DEF Filled
    <3> QED BY <1>8
  <2> HIDE DEF G
  <2> QED BY <2>2, <2>3
<1> HIDE DEF G, point
<1>9. point = points
  BY <1>7, <1>8
<1> QED BY <1>1, <1>9 DEF since

LEMMA TrendsMatch ==
    ASSUME Basics, NEW until \in Month, NEW months \in Nat \ {0}, NEW c, NEW i \in 1 .. months,
           NEW trend, trend = Trend(rows, c, until, months),
           NEW since, since = Ordinal(until) - months
    PROVE  /\ Ordinal(trend[i].month) = since + i
           /\ trend[i].income - trend[i].expenses = Sum(RowsOf(c, since + i, since + i))
           /\ trend[i].running_net = Sum(RowsOf(c, since + 1, since + i))
           /\ trend[i].income = Income(MonthRows(rows, c, trend[i].month))
           /\ trend[i].expenses = Expenses(MonthRows(rows, c, trend[i].month))
<1> DEFINE k == since + i
<1>1. until \in AnyMonth
  BY MonthsAreAny
<1>2. since \in Int /\ k \in Int
  BY <1>1, MonthSteps
<1>3. trend[i] = Point(c, since, i)
  BY <1>1, TrendIsPoints
<1>4. /\ trend[i].month = MonthNo(k)
      /\ trend[i].income = Income(RowsOf(c, k, k))
      /\ trend[i].expenses = Expenses(RowsOf(c, k, k))
      /\ trend[i].running_net = Sum(RowsOf(c, since + 1, k))
  BY <1>3 DEF Point
<1> HIDE DEF k
<1>5. MonthNo(k) \in AnyMonth /\ Ordinal(MonthNo(k)) = k
  BY <1>2, MonthNumbers
<1>6. MonthRows(rows, c, MonthNo(k)) = RowsOf(c, k, k)
  BY <1>5, RangeOfMonths DEF MonthRows
<1>7. Income(RowsOf(c, k, k)) - Expenses(RowsOf(c, k, k)) = Sum(RowsOf(c, k, k))
  BY RowsOfMonths, NetIsSum
<1>8. /\ Ordinal(trend[i].month) = k
      /\ trend[i].income - trend[i].expenses = Sum(RowsOf(c, k, k))
      /\ trend[i].running_net = Sum(RowsOf(c, since + 1, k))
      /\ trend[i].income = Income(MonthRows(rows, c, trend[i].month))
      /\ trend[i].expenses = Expenses(MonthRows(rows, c, trend[i].month))
  BY <1>4, <1>5, <1>6, <1>7
<1> QED BY <1>8 DEF k

\* Every point of a trend is its month's own report, and its running total is
\* the sum of all rows from the first month on, also across empty months and
\* the turn of the year, for every ledger (get_trend, monthly_trend).
THEOREM TrendsAddUp == Spec => []TrendAddsUp
<1>1. Basics => TrendAddsUp
  <2>1. ASSUME Basics, NEW until \in Month, NEW months \in 1 .. 4,
               NEW c \in {Currency[a] : a \in Account}, NEW i \in 1 .. months
        PROVE  LET trend == Trend(rows, c, until, months)
                   since == Ordinal(until) - months
                   Rows(p, q) == {t \in rows : /\ Currency[t.account] = c
                                               /\ Ordinal(MonthOf(t.day)) \in p .. q}
               IN /\ Ordinal(trend[i].month) = since + i
                  /\ trend[i].income - trend[i].expenses = Sum(Rows(since + i, since + i))
                  /\ trend[i].running_net = Sum(Rows(since + 1, since + i))
                  /\ LET month == MonthRows(rows, c, trend[i].month)
                     IN /\ trend[i].income = Income(month)
                        /\ trend[i].expenses = Expenses(month)
    <3>1. months \in Nat \ {0}
      OBVIOUS
    <3> DEFINE trend == Trend(rows, c, until, months)
               since == Ordinal(until) - months
    <3>2. /\ Ordinal(trend[i].month) = since + i
          /\ trend[i].income - trend[i].expenses = Sum(RowsOf(c, since + i, since + i))
          /\ trend[i].running_net = Sum(RowsOf(c, since + 1, since + i))
          /\ trend[i].income = Income(MonthRows(rows, c, trend[i].month))
          /\ trend[i].expenses = Expenses(MonthRows(rows, c, trend[i].month))
      <4>1. trend = Trend(rows, c, until, months) /\ since = Ordinal(until) - months
        OBVIOUS
      <4> HIDE DEF trend, since
      <4> QED BY <2>1, <3>1, <4>1, TrendsMatch
    <3> HIDE DEF trend, since
    <3> QED BY <3>2 DEF RowsOf, trend, since
  <2> QED BY <2>1, Zenon DEF TrendAddsUp
<1> QED BY <1>1, InitBasics, NextBasics, PTL DEF Spec

-----------------------------------------------------------------------------
\* The inductive invariant, as a whole: cursors, requests under way and reports
\* fit the ledger and the rules at all times.
THEOREM Invariant == Spec => []InductiveInv
<1>1. Init => InductiveInv
  BY InitBasics, InitPager, InitFollow, InitReport DEF InductiveInv
<1>2. InductiveInv /\ [Next]_vars => InductiveInv'
  BY NextBasics, NextPager, NextFollow, NextReport DEF InductiveInv
<1> QED BY <1>1, <1>2, PTL DEF Spec
=============================================================================
