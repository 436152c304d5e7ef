----------------------------- MODULE SignupPool -----------------------------
(***************************************************************************)
(* POST /auth/signup on the shared connection pool: the transaction with    *)
(* its global advisory lock, the two limits, the audit row of every         *)
(* outcome, and the second connection that the duplicate path takes while  *)
(* it still has the first.                                                 *)
(*                                                                         *)
(* Time is Postgres time: now() is the time of BEGIN, which is before the   *)
(* wait for the lock.  A statement outside the transaction has its own.     *)
(***************************************************************************)
EXTENDS Integers, FiniteSets

CONSTANTS
    Attempt,       \* sign-ups, each of them posted at most once
    IpOf,          \* the client address of each
    EmailOf,       \* the address each asks an account for
    Other,         \* requests of other routes: one connection, given back
    PoolSize,      \* max_size, 10 in the code
    PerIpLimit,    \* PER_IP_LIMIT, 1 in the code
    PerIpWindow,   \* PER_IP_WINDOW_SECONDS
    GlobalLimit,   \* GLOBAL_LIMIT, 25 in the code
    GlobalWindow,  \* GLOBAL_WINDOW_SECONDS
    MaxClock,      \* bound on time
    Nobody         \* no holder of the advisory lock

ASSUME SignupAssumption ==
    /\ IsFiniteSet(Attempt) /\ IsFiniteSet(Other)
    /\ DOMAIN IpOf = Attempt /\ DOMAIN EmailOf = Attempt
    /\ {PoolSize, PerIpLimit, GlobalLimit} \subseteq Nat \ {0}
    /\ {PerIpWindow, GlobalWindow} \subseteq Nat \ {0}
    /\ MaxClock \in Nat
    /\ Nobody \notin Attempt

VARIABLES
    clock,    \* the server's time
    pc,       \* where each sign-up is
    now,      \* now() in its transaction
    lock,     \* who holds the advisory lock
    row,      \* signup_attempts: the committed outcome of each sign-up
    at,       \* ... and its created_at
    account,  \* sign-ups whose row of users is committed
    busy      \* other requests that have a connection

vars == <<clock, pc, now, lock, row, at, account, busy>>

Outcome == {"accepted", "duplicate", "ip_limited", "global_limited"}
Answered == {"created", "conflict", "limited", "failed"}
Locked == {"locked", "checked", "inserted", "duplicate", "rollback"}
InTransaction == {"begun"} \cup Locked
Label == {"new", "verify"} \cup InTransaction \cup Answered

TypeOK ==
    /\ clock \in Nat
    /\ pc \in [Attempt -> Label]
    /\ now \in [Attempt -> Nat]
    /\ lock \in Attempt \cup {Nobody}
    /\ row \in [Attempt -> Outcome \cup {"none"}]
    /\ at \in [Attempt -> Nat]
    /\ account \subseteq Attempt
    /\ busy \subseteq Other

-----------------------------------------------------------------------------
(* The pool and the queries                                                *)

Connected == {a \in Attempt : pc[a] \in InTransaction}
ConnectionFree == Cardinality(Connected) + Cardinality(busy) < PoolSize

\* created_at > now() - interval: no upper end.
AcceptedFrom(ip, t) ==
    {q \in Attempt : IpOf[q] = ip /\ row[q] = "accepted" /\ t < at[q] + PerIpWindow}

CountedGlobally(t) == {q \in Attempt : row[q] # "none" /\ t < at[q] + GlobalWindow}

IpCount(a) == Cardinality(AcceptedFrom(IpOf[a], now[a]))
GlobalCount(a) == Cardinality(CountedGlobally(now[a]))

Goto(a, l) == pc' = [pc EXCEPT ![a] = l]

Audit(a, outcome, t) ==
    /\ row' = [row EXCEPT ![a] = outcome]
    /\ at' = [at EXCEPT ![a] = t]

Taken(a) == \E q \in account : EmailOf[q] = EmailOf[a]

-----------------------------------------------------------------------------
(* signup                                                                  *)

\* A connection and BEGIN.
Begin(a) ==
    /\ pc[a] = "new"
    /\ ConnectionFree
    /\ now' = [now EXCEPT ![a] = clock]
    /\ Goto(a, "begun")
    /\ UNCHANGED <<clock, lock, row, at, account, busy>>

\* Mutant of Lock: no advisory lock.
LockNothing(a) ==
    /\ pc[a] = "begun"
    /\ Goto(a, "locked")
    /\ UNCHANGED <<clock, now, lock, row, at, account, busy>>

Lock(a) ==
    /\ pc[a] = "begun"
    /\ lock = Nobody
    /\ lock' = a
    /\ Goto(a, "locked")
    /\ UNCHANGED <<clock, now, row, at, account, busy>>

Within(a) == IpCount(a) < PerIpLimit /\ GlobalCount(a) < GlobalLimit

CheckPasses(a) ==
    /\ pc[a] = "locked"
    /\ Within(a)
    /\ Goto(a, "checked")
    /\ UNCHANGED <<clock, now, lock, row, at, account, busy>>

\* Mutant of CheckRefuses: the refusal keeps its transaction open.
RefuseInside(a) ==
    /\ pc[a] = "locked"
    /\ ~ Within(a)
    /\ Audit(a, IF IpCount(a) >= PerIpLimit THEN "ip_limited"
                ELSE "global_limited", now[a])
    /\ Goto(a, "limited")
    /\ UNCHANGED <<clock, now, lock, account, busy>>

\* The refusal is recorded and committed with the transaction that found it.
CheckRefuses(a) ==
    /\ pc[a] = "locked"
    /\ ~ Within(a)
    /\ Audit(a, IF IpCount(a) >= PerIpLimit THEN "ip_limited"
                ELSE "global_limited", now[a])
    /\ lock' = Nobody
    /\ Goto(a, "limited")
    /\ UNCHANGED <<clock, now, account, busy>>

CreateUser(a) ==
    /\ pc[a] = "checked"
    /\ Goto(a, IF Taken(a) THEN "duplicate" ELSE "inserted")
    /\ UNCHANGED <<clock, now, lock, row, at, account, busy>>

\* Mutant of RecordDuplicate: the row is written in the transaction that the
\* violation has already aborted.
RecordInAborted(a) ==
    /\ pc[a] = "duplicate"
    /\ Goto(a, "rollback")
    /\ UNCHANGED <<clock, now, lock, row, at, account, busy>>

\* The second connection: taken, used for one statement with a now() of its
\* own, and given back, while the first and the lock are still held.
RecordDuplicate(a) ==
    /\ pc[a] = "duplicate"
    /\ ConnectionFree
    /\ Audit(a, "duplicate", clock)
    /\ Goto(a, "rollback")
    /\ UNCHANGED <<clock, now, lock, account, busy>>

Rollback(a) ==
    /\ pc[a] = "rollback"
    /\ lock' = Nobody
    /\ Goto(a, "conflict")
    /\ UNCHANGED <<clock, now, row, at, account, busy>>

\* The account and its audit row are committed together.
Accept(a) ==
    /\ pc[a] = "inserted"
    /\ account' = account \cup {a}
    /\ Audit(a, "accepted", now[a])
    /\ lock' = Nobody
    /\ Goto(a, "verify")
    /\ UNCHANGED <<clock, now, busy>>

\* Circle has answered; set_member_status takes a connection for one update.
SetMemberStatus(a) ==
    /\ pc[a] = "verify"
    /\ ConnectionFree
    /\ Goto(a, "created")
    /\ UNCHANGED <<clock, now, lock, row, at, account, busy>>

\* The connection is lost or the process stops: Postgres rolls back, and an
\* account that was committed stays.
Abort(a) ==
    /\ pc[a] \in InTransaction \cup {"verify"}
    /\ lock' = IF lock = a THEN Nobody ELSE lock
    /\ Goto(a, "failed")
    /\ UNCHANGED <<clock, now, row, at, account, busy>>

-----------------------------------------------------------------------------
OtherBegins(o) ==
    /\ o \notin busy
    /\ ConnectionFree
    /\ busy' = busy \cup {o}
    /\ UNCHANGED <<clock, pc, now, lock, row, at, account>>

OtherEnds(o) ==
    /\ o \in busy
    /\ busy' = busy \ {o}
    /\ UNCHANGED <<clock, pc, now, lock, row, at, account>>

Tick ==
    /\ clock < MaxClock
    /\ clock' = clock + 1
    /\ UNCHANGED <<pc, now, lock, row, at, account, busy>>

Init ==
    /\ clock = 0
    /\ pc = [a \in Attempt |-> "new"]
    /\ now = [a \in Attempt |-> 0]
    /\ lock = Nobody
    /\ row = [a \in Attempt |-> "none"]
    /\ at = [a \in Attempt |-> 0]
    /\ account = {}
    /\ busy = {}

signup(a) ==
    \/ Lock(a) \/ CheckPasses(a) \/ CheckRefuses(a) \/ CreateUser(a)
    \/ RecordDuplicate(a) \/ Rollback(a) \/ Accept(a) \/ SetMemberStatus(a)

Next ==
    \/ Tick
    \/ \E a \in Attempt : Begin(a) \/ signup(a) \/ Abort(a)
    \/ \E o \in Other : OtherBegins(o) \/ OtherEnds(o)

Spec == Init /\ [][Next]_vars

\* Whoever can go on does.  The pool serves its waiters and the lock its queue
\* (strong fairness: a connection or the lock may be taken by somebody else
\* first, but not for ever); nothing is aborted by itself.
FairSpec ==
    /\ Spec
    /\ \A a \in Attempt : SF_vars(signup(a))
    /\ \A o \in Other : WF_vars(OtherEnds(o))

-----------------------------------------------------------------------------
(* Properties                                                              *)

Accepted(t, w) == {q \in Attempt : row[q] = "accepted" /\ at[q] <= t /\ t < at[q] + w}

\* At most PerIpLimit accounts from one address in any window, however sign-ups
\* interleave and however long one waited for the lock
\* (signup_rate_limit.py:38-41).
IpLimitHolds ==
    \A a \in Attempt : \A t \in 0 .. clock :
        Cardinality({q \in Accepted(t, PerIpWindow) : IpOf[q] = IpOf[a]}) <= PerIpLimit

\* At most GlobalLimit accounts in any window.
GlobalLimitHolds ==
    \A t \in 0 .. clock : Cardinality(Accepted(t, GlobalWindow)) <= GlobalLimit

\* Neither limit is exceeded in any window, though the rows that count are
\* dated by transactions that may have waited for the lock
\* (signup_rate_limit.py:85-101).
LimitsHold == IpLimitHolds /\ GlobalLimitHolds

\* One account per address, and an account exactly for the sign-ups that are
\* audited as accepted, whatever was aborted in between (users_repo.py:26-28:
\* the user insert and the audit row commit together).
AccountsAreAudited ==
    /\ account = {a \in Attempt : row[a] = "accepted"}
    /\ \A a, q \in account : EmailOf[a] = EmailOf[q] => a = q

\* The answer agrees with the audit row: every attempt is audited with its
\* final outcome (auth.py:138).
AnswerIsAudited ==
    \A a \in Attempt :
        /\ pc[a] \in {"verify", "created"} => row[a] = "accepted"
        /\ pc[a] = "conflict" => row[a] = "duplicate"
        /\ pc[a] = "limited" => row[a] \in {"ip_limited", "global_limited"}

\* Accounts, answers and audit rows agree, whichever statement a connection is
\* lost at (auth.py:146-180).
Audited == AccountsAreAudited /\ AnswerIsAudited

\* The audit row of a duplicate still lands (auth.py:167-170), unless its
\* connection is lost.
DuplicateLands ==
    \A a \in Attempt : pc[a] = "duplicate" ~> pc[a] \in {"rollback", "failed"}

\* Every sign-up that has a connection is answered.
EverySignupAnswered ==
    \A a \in Attempt : pc[a] = "begun" ~> pc[a] \in Answered
=============================================================================
