----------------------------- MODULE MessageCap -----------------------------
(***************************************************************************)
(* The cap of DAILY_MESSAGE_CAP messages per user in WINDOW_HOURS: the      *)
(* transaction of check_and_record, statement by statement, against other  *)
(* sends of the same user.                                                 *)
(*                                                                         *)
(* Time is Postgres time.  now() is the time at which a transaction BEGAN, *)
(* so a send that waited for the advisory lock counts, and is recorded,    *)
(* with a time older than rows that were committed while it waited.        *)
(***************************************************************************)
EXTENDS Integers, FiniteSets

CONSTANTS
    Request,    \* sends, each of them posted at most once
    Sender,     \* users
    Owner,      \* the one who posts each send
    Cap,        \* DAILY_MESSAGE_CAP, 25 in the code
    Hours,      \* WINDOW_HOURS, 24 in the code
    MaxClock,   \* bound on time
    Nobody      \* no holder of a user's advisory lock

ASSUME CapAssumption ==
    /\ IsFiniteSet(Request)
    /\ Owner \in [Request -> Sender]
    /\ Cap \in Nat \ {0}
    /\ Hours \in Nat \ {0}
    /\ MaxClock \in Nat
    /\ Nobody \notin Request

VARIABLES
    clock,      \* the server's time
    pc,         \* where each send is
    now,        \* now() in the transaction of each send
    seen,       \* what its count returned
    reset,      \* the reset_at that a refused send was told
    holder,     \* who holds each user's advisory lock
    recorded    \* sends with a committed row in user_messages

capVars == <<clock, pc, now, seen, reset, holder, recorded>>

Answered == {"accepted", "refused", "failed"}
Holding == {"locked", "counted", "inserted"}

CapTypeOK ==
    /\ clock \in Nat
    /\ pc \in [Request -> {"new", "begun"} \cup Holding \cup Answered]
    /\ now \in [Request -> Nat]
    /\ seen \in [Request -> Nat]
    /\ reset \in [Request -> Nat]
    /\ holder \in [Sender -> Request \cup {Nobody}]
    /\ recorded \subseteq Request

-----------------------------------------------------------------------------
(* Queries on user_messages; the row of a send has created_at = now[r]      *)

\* created_at > at - interval: no upper end.
Newer(u, at) == {q \in recorded : Owner[q] = u /\ at < now[q] + Hours}

count_messages_in_window(u, at) == Cardinality(Newer(u, at))

IsOldest(u, at, t) ==
    /\ \E q \in Newer(u, at) : now[q] = t
    /\ \A q \in Newer(u, at) : t <= now[q]

-----------------------------------------------------------------------------
(* check_and_record                                                        *)

Goto(r, l) == pc' = [pc EXCEPT ![r] = l]
Release(r) == holder' = [holder EXCEPT ![Owner[r]] = Nobody]

Begin(r) ==
    /\ pc[r] = "new"
    /\ now' = [now EXCEPT ![r] = clock]
    /\ Goto(r, "begun")
    /\ UNCHANGED <<clock, seen, reset, holder, recorded>>

\* Mutant of Lock: no advisory lock.
LockNothing(r) ==
    /\ pc[r] = "begun"
    /\ Goto(r, "locked")
    /\ UNCHANGED <<clock, now, seen, reset, holder, recorded>>

Lock(r) ==
    /\ pc[r] = "begun"
    /\ holder[Owner[r]] = Nobody
    /\ holder' = [holder EXCEPT ![Owner[r]] = r]
    /\ Goto(r, "locked")
    /\ UNCHANGED <<clock, now, seen, reset, recorded>>

Count(r) ==
    /\ pc[r] = "locked"
    /\ seen' = [seen EXCEPT ![r] = count_messages_in_window(Owner[r], now[r])]
    /\ Goto(r, "counted")
    /\ UNCHANGED <<clock, now, reset, holder, recorded>>

\* Mutants of Refuse: reset_at is counted from the newest row; the lock is not
\* given back with the exception.
RefuseUntilNewest(r) ==
    /\ pc[r] = "counted"
    /\ seen[r] >= Cap
    /\ \E q \in Newer(Owner[r], now[r]) :
          /\ \A p \in Newer(Owner[r], now[r]) : now[p] <= now[q]
          /\ reset' = [reset EXCEPT ![r] = now[q] + Hours]
    /\ Release(r)
    /\ Goto(r, "refused")
    /\ UNCHANGED <<clock, now, seen, recorded>>

RefuseAndKeepLock(r) ==
    /\ pc[r] = "counted"
    /\ seen[r] >= Cap
    /\ \E q \in Newer(Owner[r], now[r]) :
          /\ IsOldest(Owner[r], now[r], now[q])
          /\ reset' = [reset EXCEPT ![r] = now[q] + Hours]
    /\ Goto(r, "refused")
    /\ UNCHANGED <<clock, now, seen, holder, recorded>>

\* The second query and the exception, which rolls the transaction back.
Refuse(r) ==
    /\ pc[r] = "counted"
    /\ seen[r] >= Cap
    /\ \E q \in Newer(Owner[r], now[r]) :
          /\ IsOldest(Owner[r], now[r], now[q])
          /\ reset' = [reset EXCEPT ![r] = now[q] + Hours]
    /\ Release(r)
    /\ Goto(r, "refused")
    /\ UNCHANGED <<clock, now, seen, recorded>>

Insert(r) ==
    /\ pc[r] = "counted"
    /\ seen[r] < Cap
    /\ Goto(r, "inserted")
    /\ UNCHANGED <<clock, now, seen, reset, holder, recorded>>

\* The row becomes visible as the lock is given back.
Commit(r) ==
    /\ pc[r] = "inserted"
    /\ recorded' = recorded \cup {r}
    /\ Release(r)
    /\ Goto(r, "accepted")
    /\ UNCHANGED <<clock, now, seen, reset>>

\* The request is cancelled or its connection lost: Postgres rolls back.
Abort(r) ==
    /\ pc[r] \in {"begun"} \cup Holding
    /\ IF pc[r] \in Holding THEN Release(r) ELSE UNCHANGED holder
    /\ Goto(r, "failed")
    /\ UNCHANGED <<clock, now, seen, reset, recorded>>

-----------------------------------------------------------------------------
Tick ==
    /\ clock < MaxClock
    /\ clock' = clock + 1
    /\ UNCHANGED <<pc, now, seen, reset, holder, recorded>>

-----------------------------------------------------------------------------
CapInit ==
    /\ clock = 0
    /\ pc = [r \in Request |-> "new"]
    /\ now = [r \in Request |-> 0]
    /\ seen = [r \in Request |-> 0]
    /\ reset = [r \in Request |-> 0]
    /\ holder = [u \in Sender |-> Nobody]
    /\ recorded = {}

Send(r) == Lock(r) \/ Count(r) \/ Refuse(r) \/ Insert(r) \/ Commit(r)

CapNext ==
    \/ Tick
    \/ \E r \in Request : Begin(r) \/ Send(r) \/ Abort(r)

CapSpec == CapInit /\ [][CapNext]_capVars

\* A request that has begun is driven on by the server; the lock's queue is
\* served.  A request need not be sent.
CapFairSpec == CapSpec /\ \A r \in Request : WF_capVars(Send(r))

-----------------------------------------------------------------------------
(* Properties                                                              *)

\* At most Cap messages of one user in any window of Hours, however sends
\* interleave and however old the now() of a transaction is
\* (rate_limit.py:15-20, MISSION.md invariant 1).  Windows that end later
\* than the clock hold no more than the one that ends now.
CapHolds ==
    \A u \in Sender : \A t \in 0 .. clock :
        Cardinality({q \in recorded :
                        Owner[q] = u /\ now[q] <= t /\ t < now[q] + Hours}) <= Cap

\* A refusal stands until the time it named: once it is given, no send whose
\* transaction began before reset_at is accepted, not even one that is older
\* than the refused one and was waiting (rate_limit.py:82-91).
RefusalStands ==
    [][\A r, q \in Request :
          /\ pc[r] = "refused" /\ Owner[q] = Owner[r]
          /\ pc[q] = "inserted" /\ pc'[q] = "accepted"
          => reset[r] <= now[q]]_capVars

\* ... and it is worth waiting for: of the messages that were sent before the
\* refused one, fewer than Cap still count at reset_at (rate_limit.py:84-90).
ResetFreesASlot ==
    \A r \in Request : pc[r] = "refused" =>
        Cardinality({q \in recorded : /\ Owner[q] = Owner[r]
                                      /\ now[q] <= now[r]
                                      /\ reset[r] < now[q] + Hours}) < Cap

\* A refused user is told neither too early nor too late a time
\* (rate_limit.py:82-95).
RefusalsAreRight == []ResetFreesASlot /\ RefusalStands

\* Every send that has begun is answered: nobody keeps a user's lock for ever.
EverySendAnswered ==
    \A r \in Request : pc[r] = "begun" ~> pc[r] \in Answered
=============================================================================
