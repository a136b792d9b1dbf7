---------------------------- MODULE LoginThrottle ----------------------------
(***************************************************************************)
(* The login route of app.py behind its LoginRateLimiter                   *)
(* (auth/rate_limit.py): attempts that check the limiter, await the        *)
(* AuthService and only then record how it ended.                          *)
(*                                                                         *)
(* The methods of the limiter await nothing while they hold its lock, so   *)
(* that each is one step.  The limiter's dict is a table with the order in *)
(* which keys were inserted, for record_failure evicts the first of them.  *)
(* Credentials and what the AuthService does with them are one outcome.    *)
(***************************************************************************)
EXTENDS Naturals, Sequences, FiniteSets, SequencesExt

CONSTANTS
    Emails,         \* what visitors type in the email field
    AccountOf,      \* _account: the normalized account of each email
    Addresses,      \* client addresses
    Attempts,       \* login requests that may be in flight (a bound)
    AccountLimit,   \* account_limit
    AddressLimit,   \* ip_limit
    Window,         \* window
    MaxKeys,        \* MAX_TRACKED_KEYS
    MaxTime         \* bound on the clock

Accounts == {AccountOf[e] : e \in Emails}

ASSUME ThrottleAssumption ==
    /\ DOMAIN AccountOf = Emails /\ IsFiniteSet(Attempts)
    /\ AccountLimit \in Nat \ {0} /\ AddressLimit \in Nat \ {0}
    /\ Window \in Nat \ {0} /\ MaxTime \in Nat
    /\ MaxKeys \in Nat \ {0, 1}

VARIABLES
    order,      \* the tracked keys, in the order of the dict
    failures,   \* the deque of each key: times of failures, oldest first
    attempt,    \* the login requests in flight
    clock,      \* datetime.now(UTC)
    recent      \* history: failures of a key in the window that ends now

table == <<order, failures>>
vars == <<table, attempt, clock, recent>>

-----------------------------------------------------------------------------

AccountKey(e) == <<"account", AccountOf[e]>>
AddressKey(x) == <<"address", x>>
Keys == ({"account"} \X Accounts) \cup ({"address"} \X Addresses)

NoAttempt == [pc |-> "idle", account |-> <<>>, address |-> <<>>]

(* The table lists each key once and keeps failures only of listed keys,   *)
(* in the order of their times.                                            *)
TypeOK ==
    /\ order \in Seq(Keys)
    /\ \A i, j \in DOMAIN order : order[i] = order[j] => i = j
    /\ failures \in [Keys -> Seq(0..MaxTime)]
    /\ \A k \in Keys :
         /\ \A i, j \in DOMAIN failures[k] :
                i < j => failures[k][i] <= failures[k][j]
         /\ failures[k] # <<>> => \E i \in DOMAIN order : order[i] = k
    /\ attempt \in [Attempts -> {NoAttempt} \cup
                        [pc : {"login", "failed", "succeeded"},
                         account : {"account"} \X Accounts,
                         address : {"address"} \X Addresses]]
    /\ clock \in 0..MaxTime
    /\ recent \in [Keys -> Seq(0..MaxTime)]

Init ==
    /\ order = <<>> /\ failures = [k \in Keys |-> <<>>]
    /\ attempt = [a \in Attempts |-> NoAttempt]
    /\ clock = 0
    /\ recent = [k \in Keys |-> <<>>]

-----------------------------------------------------------------------------
(* LoginRateLimiter *)

Table == [order |-> order, failures |-> failures]

Without(keys, k) ==
    IF \E i \in DOMAIN keys : keys[i] = k
    THEN RemoveAt(keys, CHOOSE i \in DOMAIN keys : keys[i] = k)
    ELSE keys

(* Variant: a failure exactly one window old still counts. *)
WithinInclusive(time, now) == time + Window >= now

(* Not at or before the cutoff. *)
Within(time, now) == time + Window > now

(* The deque from its oldest failure within the window on. *)
FirstFresh(times, now) ==
    CHOOSE n \in 1..Len(times) + 1 :
        /\ \A i \in 1..n - 1 : ~Within(times[i], now)
        /\ n <= Len(times) => Within(times[n], now)

Fresh(times, now) == SubSeq(times, FirstFresh(times, now), Len(times))

(* Variant: the key is inserted again without being removed. *)
PrunedTwice(t, k, now) ==
    LET kept == Fresh(t.failures[k], now)
    IN  [order |-> IF kept = <<>> THEN Append(t.order, k) ELSE t.order,
         failures |-> [t.failures EXCEPT ![k] = kept]]

(* _pruned: expired failures go; a key left with none is inserted again,   *)
(* and so becomes the youngest.                                            *)
Pruned(t, k, now) ==
    LET kept == Fresh(t.failures[k], now)
    IN  [order |-> IF kept = <<>> THEN Append(Without(t.order, k), k)
                                  ELSE t.order,
         failures |-> [t.failures EXCEPT ![k] = kept]]

Recorded(t, k, now) ==
    LET p == Pruned(t, k, now)
    IN  [p EXCEPT !.failures[k] = Append(@, now)]

(* Variant: the table is full one key too late. *)
ExcessLate(t) ==
    IF Len(t.order) > MaxKeys + 1 THEN Len(t.order) - (MaxKeys + 1) ELSE 0

(* The first keys of the dict go until MaxKeys are left. *)
Excess(t) == IF Len(t.order) > MaxKeys THEN Len(t.order) - MaxKeys ELSE 0

Gone(t) == {t.order[i] : i \in 1..Excess(t)}

Evicted(t) ==
    [order |-> SubSeq(t.order, Excess(t) + 1, Len(t.order)),
     failures |-> [k \in Keys |-> IF k \in Gone(t) THEN <<>>
                                                   ELSE t.failures[k]]]

(* Variant: the address is forgiven with the account. *)
ForgivenBoth(t, account, address) ==
    [order |-> Without(Without(t.order, account), address),
     failures |-> [t.failures EXCEPT ![account] = <<>>, ![address] = <<>>]]

Forgiven(t, account, address) ==
    [order |-> Without(t.order, account),
     failures |-> [t.failures EXCEPT ![account] = <<>>]]

Becomes(t) == order' = t.order /\ failures' = t.failures

(* Variant: the limit itself is still allowed. *)
BelowOrAt(t, account, address) ==
    /\ Len(t.failures[account]) <= AccountLimit
    /\ Len(t.failures[address]) <= AddressLimit

BelowLimits(t, account, address) ==
    /\ Len(t.failures[account]) < AccountLimit
    /\ Len(t.failures[address]) < AddressLimit

-----------------------------------------------------------------------------
(* POST /login *)

(* is_allowed prunes, and so inserts, both keys; a refused attempt is      *)
(* answered 429 and records nothing.                                       *)
Check(a, e, x) ==
    LET account == AccountKey(e)
        address == AddressKey(x)
        t == Pruned(Pruned(Table, account, clock), address, clock)
    IN  /\ attempt[a].pc = "idle"
        /\ Becomes(t)
        /\ attempt' = IF BelowLimits(t, account, address)
                      THEN [attempt EXCEPT ![a] =
                               [pc |-> "login", account |-> account,
                                address |-> address]]
                      ELSE attempt
        /\ UNCHANGED <<clock, recent>>

(* The awaited auth.login: Argon2 and two transactions later. *)
Login(a) ==
    /\ attempt[a].pc = "login"
    /\ \E outcome \in {"failed", "succeeded"} :
           attempt' = [attempt EXCEPT ![a].pc = outcome]
    /\ UNCHANGED <<table, clock, recent>>

(* record_failure, then the answer 401. *)
RecordFailure(a) ==
    LET account == attempt[a].account
        address == attempt[a].address
        t == Recorded(Recorded(Table, account, clock), address, clock)
    IN  /\ attempt[a].pc = "failed"
        /\ Becomes(Evicted(t))
        /\ recent' = [k \in Keys |->
               IF k \in Gone(t) THEN <<>>
               ELSE IF k \in {account, address} THEN Append(recent[k], clock)
               ELSE recent[k]]
        /\ attempt' = [attempt EXCEPT ![a] = NoAttempt]
        /\ UNCHANGED clock

(* record_success, then the cookies, or 401 after a logout when            *)
(* current_user already refuses the new session.                           *)
RecordSuccess(a) ==
    /\ attempt[a].pc = "succeeded"
    /\ Becomes(Forgiven(Table, attempt[a].account, attempt[a].address))
    /\ recent' = [recent EXCEPT ![attempt[a].account] = <<>>]
    /\ attempt' = [attempt EXCEPT ![a] = NoAttempt]
    /\ UNCHANGED clock

(* auth.login raises or the request is cancelled: nothing is recorded. *)
Abandon(a) ==
    /\ attempt[a].pc = "login"
    /\ attempt' = [attempt EXCEPT ![a] = NoAttempt]
    /\ UNCHANGED <<table, clock, recent>>

(* The failures of k that are a window old; they are its oldest. *)
Expired(k, now) == {i \in DOMAIN recent[k] : now - recent[k][i] >= Window}

Tick ==
    /\ clock < MaxTime
    /\ clock' = clock + 1
    /\ recent' = [k \in Keys |->
           SubSeq(recent[k], Cardinality(Expired(k, clock')) + 1,
                  Len(recent[k]))]
    /\ UNCHANGED <<table, attempt>>

Next ==
    \/ \E a \in Attempts :
         \/ \E e \in Emails, x \in Addresses : Check(a, e, x)
         \/ Login(a) \/ RecordFailure(a) \/ RecordSuccess(a) \/ Abandon(a)
    \/ Tick

Spec == Init /\ [][Next]_vars

-----------------------------------------------------------------------------
(* Properties *)

(* The reference: how often k has failed in the window that ends now,      *)
(* since its last success or eviction.                                     *)
RecentFailures(k) == Len(recent[k])

(* Throttled attempts are exactly those the docstring means, whatever was  *)
(* pruned lazily, re-inserted or evicted before: with a limit reached in   *)
(* the last window no attempt gets to the AuthService, and below both      *)
(* limits none is refused.                                                 *)
VerdictIsRight ==
    [][\A a \in Attempts, e \in Emails, x \in Addresses :
         Check(a, e, x) =>
           (attempt'[a].pc = "login" <=>
               /\ RecentFailures(AccountKey(e)) < AccountLimit
               /\ RecentFailures(AddressKey(x)) < AddressLimit)]_vars

Awaiting(k) ==
    {a \in Attempts : /\ attempt[a].pc \in {"login", "failed"}
                      /\ k \in {attempt[a].account, attempt[a].address}}

(* The check and the record are apart: attempts that all check before one  *)
(* of them has recorded exceed the limit, but never by more than fit in    *)
(* flight together.                                                        *)
OverrunBounded ==
    \A k \in Keys :
        RecentFailures(k) + Cardinality(Awaiting(k)) <=
            (IF k[1] = "account" THEN AccountLimit ELSE AddressLimit)
                + Cardinality(Attempts) - 1

Forgets(k) ==
    \E i \in DOMAIN failures[k] :
        /\ Within(failures[k][i], clock')
        /\ \A j \in DOMAIN failures'[k] : failures'[k][j] # failures[k][i]

(* "Clear the successful account while retaining address-wide abuse        *)
(* pressure": no step takes a failure that still counts off an address or  *)
(* off an account that has not logged in, unless the table is full.        *)
FailuresKept ==
    [][\A k \in Keys : Forgets(k) =>
         \/ \E a \in Attempts : RecordSuccess(a) /\ attempt[a].account = k
         \/ Len(order') = MaxKeys]_vars

(* "Throttle with bounded state": no more than MaxKeys keys have failures. *)
(* The keys beyond them, which refused attempts insert and nothing evicts  *)
(* before the next failure, are empty.                                     *)
FailuresBounded == Cardinality({k \in Keys : failures[k] # <<>>}) <= MaxKeys

=============================================================================
