--------------------------------- MODULE Throttle --------------------------------
(***************************************************************************)
(* PasswordThrottle (throttle.cc): two maps in memory, one of a client's   *)
(* latest failures, one of how often and when a target last failed.  An    *)
(* attempt asks retryAfter, then verifies the password, which takes long,  *)
(* then reports failed or succeeded: attempts overlap, and only the single *)
(* calls are under the mutex.  Time is in units of the first delay (1 s).  *)
(* An address that tells no client apart gives NoClient; a key is a model  *)
(* value.                                                                  *)
(***************************************************************************)
EXTENDS Naturals, Sequences, FiniteSets

CONSTANTS
    Slot,             \* attempts that may be under way at once
    Client, NoClient, \* keyFor(address), and no meaningful one
    Target,           \* accounts and shares
    Window,           \* kWindowMs
    ClientFailures,   \* kClientFailures
    FreeFailures,     \* kTargetFreeFailures
    MaxDelay,         \* kTargetMaxDelayMs
    MaxEntries,       \* kMaxEntries
    MaxClock,         \* bound: nowMs()
    MaxTries          \* bound: failures remembered of one key

ASSUME ThrottleBounds ==
    /\ {Window, FreeFailures, MaxDelay, MaxClock, MaxTries} \subseteq Nat
    /\ ClientFailures \in Nat \ {0} /\ MaxEntries \in Nat \ {0}
    /\ NoClient \notin Client \union Target /\ IsFiniteSet(Slot) /\ Slot # {}

VARIABLES
    clock,
    clients,     \* clients_: a client's latest failures, oldest first
    targets,     \* targets_: failures and lastFailure
    attempt,     \* what each slot is verifying
    clientTries, \* history: when a client failed, since its entry was made
    targetTries  \* history: when a target failed, since its count began

throttleVars == <<clock, clients, targets, attempt, clientTries, targetTries>>

NoAttempt == [client |-> NoClient, target |-> NoClient]

ThrottleInit ==
    /\ clock = 0 /\ clients = <<>> /\ targets = <<>>
    /\ attempt = [w \in Slot |-> NoAttempt]
    /\ clientTries = [c \in Client |-> <<>>] /\ targetTries = [t \in Target |-> <<>>]

Less(a, b) == IF a < b THEN a ELSE b
More(a, b) == IF a < b THEN b ELSE a
Latest(s)  == s[Len(s)]

\* A map without the entries of ks, a map with one entry set.
WithoutKeys(m, ks)  == [k \in DOMAIN m \ ks |-> m[k]]
WithKey(m, k, v)   == [x \in DOMAIN m \union {k} |-> IF x = k THEN v ELSE m[x]]
Forgotten(h, m)    == [k \in DOMAIN h |-> IF k \in DOMAIN m THEN h[k] ELSE <<>>]

\* targetDelayMs: the first delay, shifted left.
Shifted[n \in 0..16] == IF n = 0 THEN 1 ELSE 2 * Shifted[n - 1]
Delay(failures) ==
    IF failures < FreeFailures THEN 0
    ELSE Less(MaxDelay, Shifted[Less(failures - FreeFailures, 16)])

\* s without the failures at its front that are older than the window.
Recent(s) ==
    LET n == CHOOSE n \in 0..Len(s) :
                /\ \A k \in 1..n : s[k] + Window <= clock
                /\ n < Len(s) => s[n + 1] + Window > clock
    IN  SubSeq(s, n + 1, Len(s))
Quiet(r)  == clock > r.last + Window

-----------------------------------------------------------------------------
\* Mutant: a client is held back from its limit's second failure on.
ClientWaitLate(s) ==
    IF Len(s) > ClientFailures /\ s[1] + Window > clock THEN s[1] + Window - clock ELSE 0

\* The wait of a client with these failures, all recent, and of a target.
ClientWait(s) == IF Len(s) >= ClientFailures THEN s[1] + Window - clock ELSE 0
TargetWait(r) == IF r.last + Delay(r.failures) > clock
                 THEN r.last + Delay(r.failures) - clock ELSE 0

\* retryAfter, and requireNotThrottled's 429.  It drops what is too old.
Check(w, c, t) ==
    LET late == IF c \in DOMAIN clients THEN WithKey(clients, c, Recent(clients[c])) ELSE clients
        left == IF t \in DOMAIN targets /\ Quiet(targets[t]) THEN WithoutKeys(targets, {t}) ELSE targets
        wait == More(IF c \in DOMAIN late THEN ClientWait(late[c]) ELSE 0,
                     IF t \in DOMAIN left THEN TargetWait(left[t]) ELSE 0) IN
    /\ attempt[w] = NoAttempt
    /\ clients' = late /\ targets' = left
    /\ attempt' = IF wait > 0 THEN attempt ELSE [attempt EXCEPT ![w] = [client |-> c, target |-> t]]
    /\ targetTries' = Forgotten(targetTries, left)
    /\ UNCHANGED <<clock, clientTries>>

\* prune: a full map loses its outdated entries, and if that does not help, one
\* of the least recently active.
\* Mutant: a map that is full is not.
FullLate(m) == Cardinality(DOMAIN m) > MaxEntries
Full(m)     == Cardinality(DOMAIN m) >= MaxEntries

Pruned(m, Outdated(_), LastActive(_)) ==
    LET kept == WithoutKeys(m, {k \in DOMAIN m : Outdated(m[k])}) IN
    IF ~Full(m) THEN {m}
    ELSE IF ~Full(kept) THEN {kept}
    ELSE {WithoutKeys(kept, {k}) : k \in {k \in DOMAIN kept :
             \A x \in DOMAIN kept : LastActive(kept[k]) <= LastActive(kept[x])}}

PrunedClients == Pruned(clients, LAMBDA s : s = <<>> \/ Latest(s) + Window <= clock, Latest)
PrunedTargets == Pruned(targets, Quiet, LAMBDA r : r.last)

\* push_back, and all but the latest kClientFailures dropped.
Pushed(s) ==
    LET long == Append(s, clock) IN
    SubSeq(long, Len(long) - Less(Len(long), ClientFailures) + 1, Len(long))

\* Mutant: the time of the failure is not noted.
CountedUntimed(r) == [failures |-> IF Quiet(r) THEN 1 ELSE r.failures + 1, last |-> r.last]

\* A record whose last failure is outside the window starts over.
Counted(r) == [failures |-> IF Quiet(r) THEN 1 ELSE r.failures + 1, last |-> clock]

FailedClient(c, kept) ==
    IF c = NoClient
    THEN clients' = kept /\ clientTries' = Forgotten(clientTries, kept)
    ELSE /\ clients' = WithKey(kept, c, Pushed(IF c \in DOMAIN kept THEN kept[c] ELSE <<>>))
         /\ clientTries' = [Forgotten(clientTries, kept) EXCEPT ![c] = Append(@, clock)]

FailedTarget(t, kept) ==
    LET old == t \in DOMAIN kept IN
    /\ targets' = WithKey(kept, t, IF old THEN Counted(kept[t]) ELSE [failures |-> 1, last |-> clock])
    /\ targetTries' = [Forgotten(targetTries, kept) EXCEPT
                          ![t] = IF old /\ Quiet(kept[t]) THEN <<clock>> ELSE Append(@, clock)]

\* The password was wrong.
Failed(w) ==
    LET a == attempt[w] IN
    /\ a # NoAttempt
    /\ Len(targetTries[a.target]) < MaxTries
    /\ a.client # NoClient => Len(clientTries[a.client]) < MaxTries
    /\ \E kept \in PrunedClients : FailedClient(a.client, kept)
    /\ \E kept \in PrunedTargets : FailedTarget(a.target, kept)
    /\ attempt' = [attempt EXCEPT ![w] = NoAttempt]
    /\ UNCHANGED clock

\* It was right: the target's slowdown is spent, the client's count is not.
Succeeded(w) ==
    LET a == attempt[w]
        left == WithoutKeys(targets, {a.target}) IN
    /\ a # NoAttempt
    /\ targets' = left /\ targetTries' = Forgotten(targetTries, left)
    /\ attempt' = [attempt EXCEPT ![w] = NoAttempt]
    /\ UNCHANGED <<clock, clients, clientTries>>

Pass == clock < MaxClock /\ clock' = clock + 1 /\ UNCHANGED <<clients, targets, attempt, clientTries, targetTries>>

ThrottleNext ==
    \/ Pass
    \/ \E w \in Slot : Failed(w) \/ Succeeded(w)
    \/ \E w \in Slot, c \in Client \union {NoClient}, t \in Target : Check(w, c, t)

ThrottleSpec == ThrottleInit /\ [][ThrottleNext]_throttleVars

-----------------------------------------------------------------------------
\* "Both maps are bounded": neither outgrows kMaxEntries, and no entry of
\* clients_ holds more than kClientFailures.
MapsBounded ==
    /\ Cardinality(DOMAIN clients) <= MaxEntries /\ Cardinality(DOMAIN targets) <= MaxEntries
    /\ \A c \in DOMAIN clients : Len(clients[c]) <= ClientFailures

\* The n-th failure after one comes no sooner than d later.
Spaced(tries, n, d(_)) ==
    \A k \in 1..Len(tries) : k + n <= Len(tries) => tries[k + n] >= tries[k] + d(k)

\* "10 failures in 15 minutes, then refused until the oldest ages out": a
\* client that is remembered fails at most that often in a window, but for the
\* attempts that were already being verified.
ClientHeld ==
    \A c \in Client : Spaced(clientTries[c], ClientFailures - 1 + Cardinality(Slot), LAMBDA k : Window)

\* "The first 5 failures are free, then each further attempt must wait": after
\* the k-th failure only attempts already being verified fail within its delay.
TargetSlowed ==
    \A t \in Target : Spaced(targetTries[t], Cardinality(Slot), Delay)

=============================================================================
