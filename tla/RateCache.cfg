\* Two requests that race a publication, a silent bank and each other.
SPECIFICATION FairSpec
CONSTANTS
    usd = usd  eur = eur
    Request = {r1, r2}
    Currency = {usd, eur}
    Day = {3, 4, 7}
    Bulletin <- Bulletins
    Published = {1, 2}
    MAX_RETRIES = 2
    MAX_FALLBACK_DAYS = 3
INVARIANTS TypeOK SettledRatesAreLast AnswersAgree
PROPERTIES EveryRequestEnds RatesAreABook
CHECK_DEADLOCK FALSE
