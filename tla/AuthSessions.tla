---------------------------- MODULE AuthSessions ----------------------------
(***************************************************************************)
(* Accounts, sessions and the login limiter (api/auth.py, services/auth.py,*)
(* core/security.py, main.py, models/user.py).                             *)
(*                                                                         *)
(* Registration is a database transaction decided by the unique email.     *)
(* Sessions are two signed tokens nobody stores: an access token that is   *)
(* shown with requests and a refresh token that buys new access tokens.    *)
(* A login, and a refresh whose token was decoded, wait for the look-up of *)
(* the user before they sign anything, by the clock as it is then.         *)
(* The limiter is a queue of admitted attempts per client and email, in    *)
(* the memory of each process.  Time is in ticks, TICK of them a second;   *)
(* the clocks of tokens and limiter are taken to be one.                   *)
(***************************************************************************)
EXTENDS Naturals, Sequences, FiniteSets

CONSTANTS
    Registration,         \* requests to /auth/register
    Email, Client,
    Process,              \* the server processes
    Request,              \* logins and refreshes at one time
    LIMIT, WINDOW,        \* login_rate_limit: attempts per ticks
    TICK,
    ACCESS, REFRESH,      \* lifetimes of the two kinds of token, in ticks
    EndOfTime,            \* the clock stops here
    MaxRestarts,          \* how often a process is restarted
    MaxTokens             \* no more are issued while clients hold as many

ASSUME LimitAssumption == LIMIT \in Nat \ {0} /\ WINDOW \in Nat \ {0} /\ TICK \in Nat \ {0}
ASSUME ProcessAssumption == IsFiniteSet(Process)
ASSUME LifetimeAssumption == ACCESS \in Nat /\ REFRESH \in Nat
ASSUME BoundAssumption == EndOfTime \in Nat /\ MaxRestarts \in Nat /\ MaxTokens \in Nat

VARIABLES
    now,          \* the clock
    users,        \* committed emails
    pc,           \* pc[r]: how far registration r is
    email,        \* email[r]: the email of r, as far as its row is flushed
    provided,     \* KESE_JWT_SECRET is set, for all processes
    secret,       \* secret[p]: what process p signs with
    restarts,     \* restarts so far; numbers the secrets drawn
    attempts,     \* attempts[k]: login_attempts of a process, client and email
    logins,       \* logins that were admitted and look up their user
    refreshes,    \* refreshes whose token was decoded and that look up its user
    tokens,       \* tokens in the clients' hands
    admitted      \* admitted[k]: admitted attempts of the last WINDOW ticks;
                  \* nothing in the program reads it

account == <<users, pc, email>>
keys    == <<provided, secret, restarts>>
calls   == <<logins, refreshes>>
vars    == <<now, account, keys, attempts, calls, tokens, admitted>>

Key   == Process \X Client \X Email
Kind  == {"access", "refresh"}

\* Ghosts in a token: since is when the password was verified, checked when the
\* refresh token it was bought with was decoded, issued when it was signed.
Token == [user : Email, kind : Kind, secret : Nat, exp : Nat,
          since : Nat, checked : Nat, issued : Nat]

LoginCall   == [request : Request, process : Process, user : Email]
RefreshCall == [request : Request, process : Process, user : Email,
                since : Nat, checked : Nat]

TypeOK ==
    /\ now \in 0 .. EndOfTime
    /\ users \subseteq Email
    /\ pc \in [Registration -> {"new", "flushed", "created", "conflict", "failed"}]
    /\ email \in [Registration -> Email \cup {""}]
    /\ \A r \in Registration : pc[r] # "new" => email[r] \in Email
    /\ provided \in BOOLEAN
    /\ secret \in [Process -> Nat]
    /\ restarts \in 0 .. MaxRestarts
    /\ attempts \in [Key -> Seq(0 .. now)] /\ admitted \in [Key -> Seq(0 .. now)]
    /\ \A k \in Key : Len(attempts[k]) <= LIMIT
    /\ logins \subseteq LoginCall /\ refreshes \subseteq RefreshCall
    /\ tokens \subseteq Token

\* Without a secret in the settings each process draws one of its own.
Init ==
    /\ now = 0
    /\ users = {}
    /\ pc = [r \in Registration |-> "new"]
    /\ email = [r \in Registration |-> ""]
    /\ provided \in BOOLEAN
    /\ \/ provided /\ secret = [p \in Process |-> 0]
       \/ /\ ~provided
          /\ secret \in [Process -> 1 .. Cardinality(Process)]
          /\ \A p, q \in Process : secret[p] = secret[q] => p = q
    /\ restarts = 0
    /\ attempts = [k \in Key |-> <<>>]
    /\ admitted = [k \in Key |-> <<>>]
    /\ logins = {} /\ refreshes = {} /\ tokens = {}

-----------------------------------------------------------------------------
(* POST /auth/register                                                     *)

\* Faulty: emails are compared with committed ones only.
FlushUserAnyway(r, e) ==
    /\ pc[r] = "new"
    /\ e \notin users
    /\ pc' = [pc EXCEPT ![r] = "flushed"]
    /\ email' = [email EXCEPT ![r] = e]
    /\ UNCHANGED <<now, users, keys, attempts, calls, tokens, admitted>>

\* add_user: the flush waits while another open transaction has the email.
FlushUser(r, e) ==
    /\ pc[r] = "new"
    /\ e \notin users
    /\ \A q \in Registration : pc[q] = "flushed" => email[q] # e
    /\ pc' = [pc EXCEPT ![r] = "flushed"]
    /\ email' = [email EXCEPT ![r] = e]
    /\ UNCHANGED <<now, users, keys, attempts, calls, tokens, admitted>>

\* The unique constraint refuses the email of a committed user: 409.
RefuseUser(r, e) ==
    /\ pc[r] = "new"
    /\ e \in users
    /\ pc' = [pc EXCEPT ![r] = "conflict"]
    /\ email' = [email EXCEPT ![r] = e]
    /\ UNCHANGED <<now, users, keys, attempts, calls, tokens, admitted>>

CommitUser(r) ==
    /\ pc[r] = "flushed"
    /\ users' = users \cup {email[r]}
    /\ pc' = [pc EXCEPT ![r] = "created"]
    /\ UNCHANGED <<now, email, keys, attempts, calls, tokens, admitted>>

\* The request fails before its commit; the row is rolled back.
AbortUser(r) ==
    /\ pc[r] = "flushed"
    /\ pc' = [pc EXCEPT ![r] = "failed"]
    /\ UNCHANGED <<now, users, email, keys, attempts, calls, tokens, admitted>>

-----------------------------------------------------------------------------
(* Tokens                                                                  *)

Free(q) == \A c \in logins \cup refreshes : c.request # q

Lifetime(kind) == IF kind = "access" THEN ACCESS ELSE REFRESH

\* create_token.  The clock is read here; the expiry is in whole seconds.
NewToken(p, e, kind, since, checked) ==
    [user |-> e, kind |-> kind, secret |-> secret[p],
     exp |-> ((now + Lifetime(kind)) \div TICK) * TICK,
     since |-> since, checked |-> checked, issued |-> now]

\* Faulty: the kind of the token is not looked at.
DecodesAnyKind(p, t, kind) == t.secret = secret[p] /\ t.exp > now

\* decode_token: signature, expiry, kind.
Decodes(p, t, kind) == t.secret = secret[p] /\ t.exp > now /\ t.kind = kind

\* GET /auth/me, as far as the token is concerned.
Accepts(p, t, kind) == Decodes(p, t, kind) /\ t.user \in users

\* POST /auth/refresh: the token is decoded, and the look-up of its user begins.
CheckRefresh(q, p, t) ==
    /\ Free(q)
    /\ Decodes(p, t, "refresh")
    /\ refreshes' = refreshes \cup
          {[request |-> q, process |-> p, user |-> t.user,
            since |-> t.since, checked |-> now]}
    /\ UNCHANGED <<now, account, keys, attempts, logins, tokens, admitted>>

\* The user is found.  The refresh token may have expired meanwhile.
IssueAccess(c) ==
    /\ Cardinality(tokens) < MaxTokens
    /\ c.user \in users
    /\ tokens' = tokens \cup
          {NewToken(c.process, c.user, "access", c.since, c.checked)}
    /\ refreshes' = refreshes \ {c}
    /\ UNCHANGED <<now, account, keys, attempts, logins, admitted>>

\* The look-up fails: no connection, no database.
AbandonRefresh(c) ==
    /\ refreshes' = refreshes \ {c}
    /\ UNCHANGED <<now, account, keys, attempts, logins, tokens, admitted>>

-----------------------------------------------------------------------------
(* POST /auth/login                                                        *)

\* The attempts of the WINDOW before a time, of times in ascending order.
InWindow(times, at) ==
    SubSeq(times, 1 + Cardinality({i \in DOMAIN times : times[i] + WINDOW <= at}), Len(times))

\* Faulty: an attempt exactly WINDOW old still counts.
RecentOrOldest(times) ==
    LET old == {i \in DOMAIN times : \A j \in 1 .. i : times[j] + WINDOW < now}
    IN  SubSeq(times, 1 + Cardinality(old), Len(times))

\* What is left of a queue once old attempts are popped from its front, up to
\* the first one that is still in the window.
Recent(times) ==
    LET old == {i \in DOMAIN times : \A j \in 1 .. i : times[j] + WINDOW <= now}
    IN  SubSeq(times, 1 + Cardinality(old), Len(times))

\* Faulty: one attempt more than the limit is admitted.
IsRefusedLate(k) == Len(Recent(attempts[k])) > LIMIT

IsRefused(k) == Len(Recent(attempts[k])) >= LIMIT

\* Faulty: the client is told to come back at once.
RetryAtOnce(k) == 0

\* The header Retry-After: whole seconds, at least one.
RetryAfter(k) ==
    LET left == Head(Recent(attempts[k])) + WINDOW - now
    IN  IF left < TICK THEN 1 ELSE left \div TICK

\* 429: only the queue's old entries go.
RefuseLogin(k) ==
    /\ IsRefused(k)
    /\ attempts' = [attempts EXCEPT ![k] = Recent(@)]
    /\ UNCHANGED <<now, account, keys, calls, tokens, admitted>>

\* The attempt counts, whatever becomes of it.
Admit(q, k) ==
    /\ Free(q)
    /\ ~IsRefused(k)
    /\ attempts' = [attempts EXCEPT ![k] = Append(Recent(@), now)]
    /\ admitted' = [admitted EXCEPT ![k] = Append(@, now)]
    /\ logins' = logins \cup {[request |-> q, process |-> k[1], user |-> k[3]]}
    /\ UNCHANGED <<now, account, keys, refreshes, tokens>>

\* The user is found and the password is right: both tokens are signed.
IssueBoth(c) ==
    /\ Cardinality(tokens) < MaxTokens
    /\ c.user \in users
    /\ tokens' = tokens \cup
          {NewToken(c.process, c.user, kind, now, now) : kind \in Kind}
    /\ logins' = logins \ {c}
    /\ UNCHANGED <<now, account, keys, attempts, refreshes, admitted>>

\* No such user, another password, or the look-up fails.
AbandonLogin(c) ==
    /\ logins' = logins \ {c}
    /\ UNCHANGED <<now, account, keys, attempts, refreshes, tokens, admitted>>

-----------------------------------------------------------------------------

\* Faulty: a secret is drawn although the settings have one.
DrawSecret(p) == Cardinality(Process) + restarts + 1

\* resolve_jwt_secret, in a process that starts again.
ResolveSecret(p) == IF provided THEN secret[p] ELSE Cardinality(Process) + restarts + 1

\* A process is restarted: its attempts are forgotten, its requests cut off.
Restart(p) ==
    /\ restarts < MaxRestarts
    /\ restarts' = restarts + 1
    /\ secret' = [secret EXCEPT ![p] = ResolveSecret(p)]
    /\ attempts' = [k \in Key |-> IF k[1] = p THEN <<>> ELSE attempts[k]]
    /\ admitted' = [k \in Key |-> IF k[1] = p THEN <<>> ELSE admitted[k]]
    /\ logins' = {c \in logins : c.process # p}
    /\ refreshes' = {c \in refreshes : c.process # p}
    /\ UNCHANGED <<now, account, provided, tokens>>

\* Of no interest are attempts that leave the window, and tokens that were past
\* their lifetime for a tick.
Tick ==
    /\ now < EndOfTime
    /\ now' = now + 1
    /\ tokens' = {t \in tokens : now <= t.issued + Lifetime(t.kind)}
    /\ admitted' = [k \in Key |-> InWindow(admitted[k], now')]
    /\ UNCHANGED <<account, keys, attempts, calls>>

Next ==
    \/ \E r \in Registration :
        \/ \E e \in Email : FlushUser(r, e) \/ RefuseUser(r, e)
        \/ CommitUser(r) \/ AbortUser(r)
    \/ \E p \in Process : Restart(p)
    \/ \E k \in Key : RefuseLogin(k) \/ \E q \in Request : Admit(q, k)
    \/ \E c \in logins : IssueBoth(c) \/ AbandonLogin(c)
    \/ \E q \in Request, p \in Process, t \in tokens : CheckRefresh(q, p, t)
    \/ \E c \in refreshes : IssueAccess(c) \/ AbandonRefresh(c)
    \/ Tick

Spec == Init /\ [][Next]_vars

-----------------------------------------------------------------------------
(* What accounts, sessions and limiter promise                             *)

\* However registrations of an email overlap and fail, one of them at most is
\* told it created the user, and none is told 409 of an email nobody has.
RegisteredOnce ==
    \A r, q \in Registration :
        /\ pc[r] = "created" /\ pc[q] = "created" /\ email[r] = email[q] => r = q
        /\ pc[r] \in {"created", "conflict"} => email[r] \in users

\* How long the refresh that bought a token waited for the look-up of the user.
Waited(t) == t.issued - t.checked

\* A session ends: whoever holds a token that is accepted has given the right
\* password of a registered user, for a refresh token less than REFRESH ago.
\* For an access token ACCESS is added, and the wait of the one refresh that
\* issued it, which may outlive the refresh token it began with.  Nothing adds
\* up: no chain of refreshes, no mix of kinds and no restart makes it longer.
SessionsEnd ==
    \A p \in Process, t \in tokens :
        /\ Accepts(p, t, "refresh") => now < t.since + REFRESH
        /\ Accepts(p, t, "access") => now < t.since + REFRESH + ACCESS + Waited(t)

\* A session lasts: with a secret in the settings every process accepts a token
\* until the last second of its lifetime, whichever process signed it, whatever
\* was restarted since, and however its expiry was rounded.
SessionsLast ==
    \A p \in Process, t \in tokens :
        provided /\ now + TICK <= t.issued + Lifetime(t.kind) => Accepts(p, t, t.kind)

\* test_stage_10: the logins to one account are limited.  A process admits no
\* more than LIMIT attempts of a client and email in any WINDOW ticks, and
\* refuses an attempt only when that many were.
LimiterIsExact ==
    \A k \in Key :
        /\ Len(admitted[k]) <= LIMIT
        /\ IsRefused(k) => Len(admitted[k]) = LIMIT

\* A client that is refused and waits Retry-After and one second more, while
\* nobody else tries, is admitted.
RetryAfterSuffices ==
    \A k \in Key : IsRefused(k) =>
        Len(InWindow(admitted[k], now + (RetryAfter(k) + 1) * TICK)) < LIMIT
=============================================================================
