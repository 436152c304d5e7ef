-------------------------- MODULE SignupPoolProofs --------------------------
(***************************************************************************)
(* The limits of sign-up and its audit, for any number of sign-ups,         *)
(* addresses, connections and hours.                                       *)
(*                                                                         *)
(* That a count is still right when the account is committed takes the     *)
(* lock (Mutex, Fresh); that the new row enters no window but those its     *)
(* count saw takes the shape of the query, which has no upper end.          *)
(***************************************************************************)
EXTENDS SignupPool, FiniteSetTheorems, TLAPS

\* Whoever has passed the lock has it.
Mutex == \A a \in Attempt : pc[a] \in Locked => lock = a

\* Rows are no younger than the clock, and are written where the code says.
Past ==
    \A a \in Attempt :
        /\ now[a] <= clock /\ at[a] <= clock
        /\ row[a] # "none" => pc[a] \in Answered \cup {"verify", "rollback"}
        /\ pc[a] = "rollback" => row[a] = "duplicate"

\* What a sign-up has checked is true until its transaction ends.
Fresh ==
    \A a \in Attempt :
        /\ pc[a] \in {"checked", "inserted"} => Within(a)
        /\ pc[a] = "inserted" => ~ Taken(a)

Limits == IpLimitHolds /\ GlobalLimitHolds

Inv == TypeOK /\ Mutex /\ Past /\ Fresh /\ AccountsAreAudited /\ AnswerIsAudited
       /\ Limits

-----------------------------------------------------------------------------
(* Windows                                                                 *)

\* The accepted sign-ups of a group in the window of length w that ends at t.
InWindow(G, t, w) ==
    {q \in G : row[q] = "accepted" /\ at[q] <= t /\ t < at[q] + w}

Same(ip) == {q \in Attempt : IpOf[q] = ip}

WithinLimits ==
    \A t \in 0 .. clock :
        /\ \A a \in Attempt :
              Cardinality(InWindow(Same(IpOf[a]), t, PerIpWindow)) <= PerIpLimit
        /\ Cardinality(InWindow(Attempt, t, GlobalWindow)) <= GlobalLimit

LEMMA LimitsAreWindows == Limits <=> WithinLimits
  <1>1. \A a \in Attempt, t \in 0 .. clock :
           {q \in Accepted(t, PerIpWindow) : IpOf[q] = IpOf[a]}
              = InWindow(Same(IpOf[a]), t, PerIpWindow)
    BY DEF Accepted, InWindow, Same
  <1>2. \A t \in 0 .. clock :
           Accepted(t, GlobalWindow) = InWindow(Attempt, t, GlobalWindow)
    BY DEF Accepted, InWindow
  <1> QED BY <1>1, <1>2 DEF Limits, IpLimitHolds, GlobalLimitHolds, WithinLimits

LEMMA Finite ==
    ASSUME NEW S \in SUBSET Attempt
    PROVE  IsFiniteSet(S) /\ Cardinality(S) \in Nat
  BY SignupAssumption, FS_Subset, FS_CardinalityType DEF SignupAssumption

LEMMA SmallerCount ==
    ASSUME NEW S \in SUBSET Attempt, NEW R \in SUBSET S
    PROVE  /\ Cardinality(R) \in Nat /\ Cardinality(S) \in Nat
           /\ Cardinality(R) <= Cardinality(S)
  <1>1. R \in SUBSET Attempt
    OBVIOUS
  <1> QED BY <1>1, Finite, FS_Subset

\* One more row in the window, when fewer than the limit were counted from a
\* time inside it.
LEMMA OneMoreInWindow ==
    ASSUME TypeOK, NEW G \in SUBSET Attempt, NEW C \in SUBSET Attempt,
           NEW w \in Nat, NEW limit \in Nat, NEW t \in Nat, NEW a \in Attempt,
           row[a] # "accepted", now[a] <= t,
           \A q \in G : row[q] # "none" /\ now[a] < at[q] + w
                           /\ row[q] = "accepted" => q \in C,
           Cardinality(C) < limit
    PROVE  Cardinality(InWindow(G, t, w) \cup {a}) <= limit
  <1> DEFINE S == InWindow(G, t, w)
  <1>1. S \in SUBSET C
    BY DEF InWindow, TypeOK
  <1>2. /\ Cardinality(S) \in Nat /\ Cardinality(C) \in Nat
        /\ Cardinality(S) <= Cardinality(C)
    BY <1>1, SmallerCount
  <1>3. S \in SUBSET Attempt /\ a \notin S /\ IsFiniteSet(S)
    BY Finite DEF InWindow
  <1>4. Cardinality(S \cup {a}) = Cardinality(S) + 1
    BY <1>3, FS_AddElement
  <1> QED BY <1>2, <1>4

-----------------------------------------------------------------------------
LEMMA TypeStep == TypeOK /\ [Next]_vars => TypeOK'
  <1> SUFFICES ASSUME TypeOK, [Next]_vars PROVE TypeOK'
    OBVIOUS
  <1> USE DEF TypeOK, Goto, Audit, Label, Locked, InTransaction, Answered, Outcome
  <1>1. CASE UNCHANGED vars
    BY <1>1 DEF vars
  <1>2. CASE Tick
    BY <1>2 DEF Tick
  <1>3. ASSUME NEW a \in Attempt, Begin(a) PROVE TypeOK'
    BY <1>3 DEF Begin
  <1>4. ASSUME NEW a \in Attempt, Lock(a) PROVE TypeOK'
    BY <1>4 DEF Lock
  <1>5. ASSUME NEW a \in Attempt, CheckPasses(a) PROVE TypeOK'
    BY <1>5 DEF CheckPasses
  <1>6. ASSUME NEW a \in Attempt, CheckRefuses(a) PROVE TypeOK'
    BY <1>6 DEF CheckRefuses
  <1>7. ASSUME NEW a \in Attempt, CreateUser(a) PROVE TypeOK'
    BY <1>7 DEF CreateUser
  <1>8. ASSUME NEW a \in Attempt, RecordDuplicate(a) PROVE TypeOK'
    BY <1>8 DEF RecordDuplicate
  <1>9. ASSUME NEW a \in Attempt, Rollback(a) PROVE TypeOK'
    BY <1>9 DEF Rollback
  <1>10. ASSUME NEW a \in Attempt, Accept(a) PROVE TypeOK'
    BY <1>10 DEF Accept
  <1>11. ASSUME NEW a \in Attempt, SetMemberStatus(a) PROVE TypeOK'
    BY <1>11 DEF SetMemberStatus
  <1>12. ASSUME NEW a \in Attempt, Abort(a) PROVE TypeOK'
    BY <1>12 DEF Abort
  <1>13. ASSUME NEW o \in Other, OtherBegins(o) \/ OtherEnds(o) PROVE TypeOK'
    BY <1>13 DEF OtherBegins, OtherEnds
  <1> QED BY <1>1, <1>2, <1>3, <1>4, <1>5, <1>6, <1>7, <1>8, <1>9, <1>10, <1>11,
             <1>12, <1>13 DEF Next, signup

-----------------------------------------------------------------------------
(* Steps that write no row                                                 *)

Still == UNCHANGED <<clock, row, at, account>>

LEMMA CountsStill ==
    ASSUME UNCHANGED <<row, at>>, NEW a \in Attempt, now'[a] = now[a]
    PROVE  Within(a)' = Within(a)
  <1>1. AcceptedFrom(IpOf[a], now[a])' = AcceptedFrom(IpOf[a], now[a])
    BY DEF AcceptedFrom
  <1>2. CountedGlobally(now[a])' = CountedGlobally(now[a])
    BY DEF CountedGlobally
  <1> QED BY <1>1, <1>2 DEF Within, IpCount, GlobalCount

LEMMA LimitsStill ==
    ASSUME Limits, UNCHANGED <<clock, row, at>> PROVE Limits'
  <1>1. \A G, t, w : InWindow(G, t, w)' = InWindow(G, t, w)
    BY DEF InWindow
  <1>2. WithinLimits
    BY LimitsAreWindows
  <1>3. \A t \in 0 .. clock, a \in Attempt :
           Cardinality({q \in Accepted(t, PerIpWindow) : IpOf[q] = IpOf[a]}') <= PerIpLimit
    BY DEF Limits, IpLimitHolds, Accepted
  <1>4. \A t \in 0 .. clock : Cardinality(Accepted(t, GlobalWindow)') <= GlobalLimit
    BY DEF Limits, GlobalLimitHolds, Accepted
  <1> QED BY <1>3, <1>4 DEF Limits, IpLimitHolds, GlobalLimitHolds

\* A step of one sign-up that writes no row.
LEMMA QuietStep ==
    ASSUME Inv, TypeOK', Still, NEW a \in Attempt,
           \A q \in Attempt \ {a} : pc'[q] = pc[q] /\ now'[q] = now[q],
           \A q \in Attempt \ {a} : pc[q] \in Locked => lock' = lock,
           pc'[a] \in Locked => lock' = a,
           now'[a] <= clock, pc'[a] # "rollback",
           row[a] # "none" => pc'[a] \in Answered \cup {"verify"},
           pc'[a] \in {"checked", "inserted"} => Within(a) /\ now'[a] = now[a],
           pc'[a] = "inserted" => ~ Taken(a),
           pc'[a] \in {"verify", "created"} => row[a] = "accepted",
           pc'[a] = "conflict" => row[a] = "duplicate",
           pc'[a] = "limited" => row[a] \in {"ip_limited", "global_limited"}
    PROVE  Inv'
  <1>1. Mutex'
    BY DEF Inv, Mutex
  <1>2. Past'
    BY DEF Inv, Past, Still, TypeOK, Answered
  <1>3. Fresh'
    <2> SUFFICES ASSUME NEW q \in Attempt, pc'[q] \in {"checked", "inserted"}
                 PROVE  Within(q)' /\ (pc'[q] = "inserted" => ~ Taken(q)')
      BY DEF Fresh
    <2>1. now'[q] = now[q]
      OBVIOUS
    <2>2. Within(q) /\ (pc'[q] = "inserted" => ~ Taken(q))
      BY DEF Inv, Fresh
    <2>3. Within(q)' = Within(q)
      BY <2>1, CountsStill DEF Still
    <2>4. Taken(q)' = Taken(q)
      BY DEF Taken, Still
    <2> QED BY <2>2, <2>3, <2>4
  <1>4. AccountsAreAudited'
    BY DEF Inv, AccountsAreAudited, Still
  <1>5. AnswerIsAudited'
    BY DEF Inv, AnswerIsAudited, Still
  <1>6. Limits'
    BY LimitsStill DEF Inv, Still
  <1> QED BY <1>1, <1>2, <1>3, <1>4, <1>5, <1>6 DEF Inv

LEMMA SignupQuiet ==
    ASSUME Inv, TypeOK', NEW a \in Attempt,
           \/ Begin(a) \/ Lock(a) \/ CheckPasses(a) \/ CreateUser(a)
           \/ Rollback(a) \/ SetMemberStatus(a) \/ Abort(a)
    PROVE  Inv'
  <1> USE DEF Goto, Inv, TypeOK, Still, Past, Mutex
  <1>1. CASE Begin(a)
    BY <1>1, QuietStep DEF Begin, Locked, Answered
  <1>2. CASE Lock(a)
    BY <1>2, SignupAssumption, QuietStep DEF Lock, Locked, Answered, SignupAssumption
  <1>3. CASE CheckPasses(a)
    BY <1>3, QuietStep DEF CheckPasses, Locked, Answered
  <1>4. CASE CreateUser(a)
    <2>1. row[a] = "none" /\ Within(a) /\ lock = a
      BY <1>4 DEF CreateUser, Locked, Answered, Fresh
    <2>2. Still /\ now' = now /\ lock' = lock
      BY <1>4 DEF CreateUser
    <2>3. /\ pc'[a] \in {"duplicate", "inserted"}
          /\ pc'[a] = "inserted" => ~ Taken(a)
          /\ \A q \in Attempt \ {a} : pc'[q] = pc[q]
      BY <1>4 DEF CreateUser
    <2> QED BY <2>1, <2>2, <2>3, QuietStep DEF Locked
  <1>5. CASE Rollback(a)
    BY <1>5, QuietStep DEF Rollback, Locked, Answered
  <1>6. CASE SetMemberStatus(a)
    BY <1>6, QuietStep DEF SetMemberStatus, Locked, Answered, AnswerIsAudited
  <1>7. CASE Abort(a)
    BY <1>7, QuietStep DEF Abort, Locked, Answered, InTransaction
  <1> QED BY <1>1, <1>2, <1>3, <1>4, <1>5, <1>6, <1>7

-----------------------------------------------------------------------------
(* Steps that write a row                                                  *)

\* Nobody else has counted anything: the writer has the lock.
LEMMA RecordStep ==
    ASSUME Inv, TypeOK', NEW a \in Attempt, NEW o \in Outcome \ {"accepted"},
           NEW t \in 0 .. clock,
           pc[a] \in Locked, row[a] = "none", Audit(a, o, t),
           UNCHANGED <<clock, now, account>>, lock' \in {a, Nobody},
           \/ pc' = [pc EXCEPT ![a] = "limited"] /\ o # "duplicate"
           \/ /\ pc' = [pc EXCEPT ![a] = "rollback"] /\ o = "duplicate"
              /\ lock' = a
    PROVE  Inv'
  <1>1. lock = a /\ \A q \in Attempt \ {a} : pc[q] \notin Locked
    BY DEF Inv, Mutex
  <1>2. /\ \A q \in Attempt \ {a} : /\ pc'[q] = pc[q] /\ row'[q] = row[q]
                                    /\ at'[q] = at[q]
        /\ row'[a] = o /\ at'[a] = t
        /\ \/ pc'[a] = "limited" /\ o \in {"ip_limited", "global_limited"}
           \/ pc'[a] = "rollback" /\ o = "duplicate"
    BY DEF Inv, TypeOK, Audit, Outcome
  <1>3. Mutex'
    BY <1>1, <1>2 DEF Mutex, Locked
  <1>4. Past'
    BY <1>2 DEF Inv, Past, Answered, TypeOK
  <1>5. Fresh'
    BY <1>1, <1>2 DEF Fresh, Locked
  <1>6. AccountsAreAudited'
    BY <1>2 DEF Inv, AccountsAreAudited
  <1>7. AnswerIsAudited'
    BY <1>2 DEF Inv, AnswerIsAudited, Outcome
  <1>8. Limits'
    <2>1. \A p, w : Accepted(p, w)' = Accepted(p, w)
      BY <1>2 DEF Accepted
    <2> QED BY <2>1 DEF Inv, Limits, IpLimitHolds, GlobalLimitHolds
  <1> QED BY <1>3, <1>4, <1>5, <1>6, <1>7, <1>8 DEF Inv

LEMMA RefuseStep ==
    ASSUME Inv, TypeOK', NEW a \in Attempt, CheckRefuses(a) PROVE Inv'
  <1>1. pc[a] \in Locked /\ row[a] = "none" /\ now[a] \in 0 .. clock
    BY DEF Inv, TypeOK, Past, CheckRefuses, Locked, Answered
  <1>2. PICK o \in {"ip_limited", "global_limited"} : Audit(a, o, now[a])
    BY DEF CheckRefuses
  <1>3. UNCHANGED <<clock, now, account>> /\ lock' = Nobody
        /\ pc' = [pc EXCEPT ![a] = "limited"]
    BY DEF CheckRefuses, Goto
  <1> QED BY <1>1, <1>2, <1>3, RecordStep DEF Outcome

LEMMA DuplicateStep ==
    ASSUME Inv, TypeOK', NEW a \in Attempt, RecordDuplicate(a) PROVE Inv'
  <1>1. pc[a] \in Locked /\ row[a] = "none" /\ clock \in 0 .. clock
    BY DEF Inv, TypeOK, Past, RecordDuplicate, Locked, Answered
  <1>2. Audit(a, "duplicate", clock) /\ UNCHANGED <<clock, now, account, lock>>
        /\ pc' = [pc EXCEPT ![a] = "rollback"] /\ lock = a
    BY <1>1 DEF RecordDuplicate, Goto, Inv, Mutex
  <1> QED BY <1>1, <1>2, RecordStep DEF Outcome

\* The row of a enters only windows whose rows its counts have seen.
LEMMA AcceptStep ==
    ASSUME Inv, TypeOK', NEW a \in Attempt, Accept(a) PROVE Inv'
  <1>1. /\ pc[a] = "inserted" /\ row[a] = "none" /\ lock = a
        /\ Within(a) /\ ~ Taken(a) /\ now[a] <= clock
        /\ \A q \in Attempt \ {a} : pc[q] \notin Locked
    BY DEF Accept, Inv, TypeOK, Past, Mutex, Fresh, Locked, Answered
  <1>2. /\ \A q \in Attempt \ {a} : /\ pc'[q] = pc[q] /\ row'[q] = row[q]
                                    /\ at'[q] = at[q]
        /\ row'[a] = "accepted" /\ at'[a] = now[a] /\ pc'[a] = "verify"
        /\ UNCHANGED <<clock, now>> /\ account' = account \cup {a}
    BY DEF Accept, Goto, Audit, Inv, TypeOK
  <1>3. Mutex'
    BY <1>1, <1>2 DEF Mutex, Locked
  <1>4. Past'
    BY <1>1, <1>2 DEF Inv, Past
  <1>5. Fresh'
    BY <1>1, <1>2 DEF Fresh, Locked
  <1>6. AccountsAreAudited'
    <2>1. account' = {q \in Attempt : row'[q] = "accepted"}
      BY <1>1, <1>2 DEF Inv, AccountsAreAudited
    <2>2. \A p, q \in account' : EmailOf[p] = EmailOf[q] => p = q
      BY <1>1, <1>2 DEF Inv, AccountsAreAudited, Taken
    <2> QED BY <2>1, <2>2 DEF AccountsAreAudited
  <1>7. AnswerIsAudited'
    BY <1>2 DEF Inv, AnswerIsAudited
  <1>8. ASSUME NEW t \in 0 .. clock, NEW G \in SUBSET Attempt, NEW w \in Nat
        PROVE  \/ InWindow(G, t, w)' = InWindow(G, t, w)
               \/ /\ InWindow(G, t, w)' = InWindow(G, t, w) \cup {a}
                  /\ a \in G /\ now[a] <= t
    BY <1>1, <1>2 DEF InWindow
  <1>9. /\ PerIpWindow \in Nat /\ GlobalWindow \in Nat
        /\ PerIpLimit \in Nat /\ GlobalLimit \in Nat /\ clock \in Nat
    BY SignupAssumption DEF SignupAssumption, Inv, TypeOK
  <1>10. ASSUME NEW t \in 0 .. clock, NEW b \in Attempt
         PROVE  Cardinality(InWindow(Same(IpOf[b]), t, PerIpWindow)') <= PerIpLimit
    <2> DEFINE G == Same(IpOf[b])
               C == AcceptedFrom(IpOf[a], now[a])
    <2>1. Cardinality(InWindow(G, t, PerIpWindow)) <= PerIpLimit
      BY LimitsAreWindows DEF Inv, WithinLimits
    <2>2. CASE a \in G /\ now[a] <= t
      <3>1. G \in SUBSET Attempt /\ C \in SUBSET Attempt /\ Cardinality(C) < PerIpLimit
        BY <1>1 DEF Same, AcceptedFrom, Within, IpCount
      <3>2. \A q \in G : now[a] < at[q] + PerIpWindow /\ row[q] = "accepted" => q \in C
        BY <2>2 DEF Same, AcceptedFrom
      <3>3. t \in Nat
        BY <1>9
      <3> HIDE DEF G, C
      <3>4. Cardinality(InWindow(G, t, PerIpWindow) \cup {a}) <= PerIpLimit
        BY <1>1, <1>9, <2>2, <3>1, <3>2, <3>3, OneMoreInWindow DEF Inv
      <3> QED BY <1>8, <1>9, <2>1, <3>1, <3>4 DEF G
    <2> QED BY <1>8, <1>9, <2>1, <2>2 DEF Same
  <1>11. ASSUME NEW t \in 0 .. clock
         PROVE  Cardinality(InWindow(Attempt, t, GlobalWindow)') <= GlobalLimit
    <2> DEFINE C == CountedGlobally(now[a])
    <2>1. Cardinality(InWindow(Attempt, t, GlobalWindow)) <= GlobalLimit
      BY LimitsAreWindows DEF Inv, WithinLimits
    <2>2. CASE now[a] <= t
      <3>1. C \in SUBSET Attempt /\ Cardinality(C) < GlobalLimit
        BY <1>1 DEF CountedGlobally, Within, GlobalCount
      <3>2. \A q \in Attempt : row[q] # "none" /\ now[a] < at[q] + GlobalWindow
                                  => q \in C
        BY DEF CountedGlobally
      <3>3. t \in Nat
        BY <1>9
      <3> HIDE DEF C
      <3>4. Cardinality(InWindow(Attempt, t, GlobalWindow) \cup {a}) <= GlobalLimit
        BY <1>1, <1>9, <2>2, <3>1, <3>2, <3>3, OneMoreInWindow DEF Inv
      <3> QED BY <1>8, <1>9, <2>1, <3>4
    <2> QED BY <1>8, <1>9, <2>1, <2>2
  <1>12. Limits'
    <2>1. \A t \in 0 .. clock, b \in Attempt :
             {q \in Accepted(t, PerIpWindow) : IpOf[q] = IpOf[b]}'
                = InWindow(Same(IpOf[b]), t, PerIpWindow)'
      BY DEF Accepted, InWindow, Same
    <2>2. \A t \in 0 .. clock :
             Accepted(t, GlobalWindow)' = InWindow(Attempt, t, GlobalWindow)'
      BY DEF Accepted, InWindow
    <2> QED BY <1>2, <1>10, <1>11, <2>1, <2>2
            DEF Limits, IpLimitHolds, GlobalLimitHolds
  <1> QED BY <1>3, <1>4, <1>5, <1>6, <1>7, <1>12 DEF Inv

\* A window that ends after the last row is one that ends at it.
LEMMA TickStep ==
    ASSUME Inv, TypeOK', Tick PROVE Inv'
  <1>1. clock' = clock + 1 /\ UNCHANGED <<pc, now, lock, row, at, account>>
    BY DEF Tick
  <1>2. Mutex' /\ AccountsAreAudited' /\ AnswerIsAudited'
    BY <1>1 DEF Inv, Mutex, AccountsAreAudited, AnswerIsAudited
  <1>3. Past'
    BY <1>1 DEF Inv, Past, TypeOK
  <1>4. Fresh'
    <2> SUFFICES ASSUME NEW q \in Attempt
                 PROVE  Within(q)' = Within(q) /\ Taken(q)' = Taken(q)
      BY <1>1 DEF Inv, Fresh
    <2> QED BY <1>1, CountsStill DEF Taken
  <1>5. Limits'
    <2> SUFFICES ASSUME NEW t \in 0 .. clock'
                 PROVE  /\ \A a \in Attempt : Cardinality(
                             InWindow(Same(IpOf[a]), t, PerIpWindow)') <= PerIpLimit
                        /\ Cardinality(InWindow(Attempt, t, GlobalWindow)') <= GlobalLimit
      <3>1. \A p \in 0 .. clock', a \in Attempt :
               {q \in Accepted(p, PerIpWindow) : IpOf[q] = IpOf[a]}'
                  = InWindow(Same(IpOf[a]), p, PerIpWindow)'
        BY DEF Accepted, InWindow, Same
      <3>2. \A p \in 0 .. clock' :
               Accepted(p, GlobalWindow)' = InWindow(Attempt, p, GlobalWindow)'
        BY DEF Accepted, InWindow
      <3> QED BY <3>1, <3>2 DEF Limits, IpLimitHolds, GlobalLimitHolds
    <2> DEFINE s == IF t <= clock THEN t ELSE clock
    <2>1. s \in 0 .. clock
      BY <1>1 DEF Inv, TypeOK
    <2>2. \A G \in SUBSET Attempt, w \in Nat :
             InWindow(G, t, w)' \in SUBSET InWindow(G, s, w)
      BY <1>1 DEF InWindow, Inv, TypeOK, Past
    <2>3. /\ \A a \in Attempt :
                Cardinality(InWindow(Same(IpOf[a]), s, PerIpWindow)) <= PerIpLimit
          /\ Cardinality(InWindow(Attempt, s, GlobalWindow)) <= GlobalLimit
      BY <2>1, LimitsAreWindows DEF Inv, WithinLimits
    <2>4. ASSUME NEW G \in SUBSET Attempt, NEW w \in Nat
          PROVE  /\ Cardinality(InWindow(G, t, w)') <= Cardinality(InWindow(G, s, w))
                 /\ Cardinality(InWindow(G, t, w)') \in Nat
                 /\ Cardinality(InWindow(G, s, w)) \in Nat
      <3> DEFINE S == InWindow(G, s, w)
                 R == InWindow(G, t, w)'
      <3>1. S \in SUBSET Attempt /\ R \in SUBSET S
        BY <2>2 DEF InWindow
      <3> HIDE DEF S, R
      <3>2. /\ Cardinality(R) \in Nat /\ Cardinality(S) \in Nat
            /\ Cardinality(R) <= Cardinality(S)
        BY <3>1, SmallerCount
      <3> QED BY <3>2 DEF S, R
    <2>5. \A a \in Attempt : Same(IpOf[a]) \in SUBSET Attempt
      BY DEF Same
    <2>6. /\ PerIpWindow \in Nat /\ GlobalWindow \in Nat
          /\ PerIpLimit \in Nat /\ GlobalLimit \in Nat
      BY SignupAssumption DEF SignupAssumption
    <2> HIDE DEF s
    <2> QED BY <2>3, <2>4, <2>5, <2>6
  <1> QED BY <1>2, <1>3, <1>4, <1>5 DEF Inv

LEMMA StillStep ==
    ASSUME Inv, TypeOK', UNCHANGED <<clock, pc, now, lock, row, at, account>>
    PROVE  Inv'
  <1>1. Mutex' /\ Past' /\ AccountsAreAudited' /\ AnswerIsAudited'
    BY DEF Inv, Mutex, Past, AccountsAreAudited, AnswerIsAudited
  <1>2. Fresh'
    <2> SUFFICES ASSUME NEW q \in Attempt
                 PROVE  Within(q)' = Within(q) /\ Taken(q)' = Taken(q)
      BY DEF Inv, Fresh
    <2> QED BY CountsStill DEF Taken
  <1>3. Limits'
    BY LimitsStill DEF Inv
  <1> QED BY <1>1, <1>2, <1>3 DEF Inv

-----------------------------------------------------------------------------
LEMMA InvInit == Init => Inv
  <1> SUFFICES ASSUME Init PROVE Inv
    OBVIOUS
  <1>1. TypeOK
    BY DEF Init, TypeOK, Label
  <1>2. Mutex /\ Past /\ Fresh /\ AccountsAreAudited /\ AnswerIsAudited
    BY DEF Init, Mutex, Past, Fresh, AccountsAreAudited, AnswerIsAudited, Locked
  <1>3. \A S, t, w : InWindow(S, t, w) = {} \/ ~ (S \subseteq Attempt)
    BY DEF Init, InWindow
  <1>4. WithinLimits
    <2>1. \A a \in Attempt : Same(IpOf[a]) \subseteq Attempt
      BY DEF Same
    <2> QED BY <1>3, <2>1, FS_EmptySet, SignupAssumption
            DEF WithinLimits, SignupAssumption
  <1> QED BY <1>1, <1>2, <1>4, LimitsAreWindows DEF Inv

LEMMA InvNext == Inv /\ [Next]_vars => Inv'
  <1> SUFFICES ASSUME Inv, [Next]_vars PROVE Inv'
    OBVIOUS
  <1>1. TypeOK'
    BY TypeStep DEF Inv
  <1>2. CASE UNCHANGED vars
    BY <1>1, <1>2, StillStep DEF vars
  <1>3. CASE Tick
    BY <1>1, <1>3, TickStep
  <1>4. ASSUME NEW a \in Attempt, Begin(a) \/ signup(a) \/ Abort(a) PROVE Inv'
    BY <1>1, <1>4, SignupQuiet, RefuseStep, DuplicateStep, AcceptStep DEF signup
  <1>5. ASSUME NEW o \in Other, OtherBegins(o) \/ OtherEnds(o) PROVE Inv'
    BY <1>1, <1>5, StillStep DEF OtherBegins, OtherEnds
  <1> QED BY <1>2, <1>3, <1>4, <1>5 DEF Next

LEMMA Invariance == Spec => []Inv
  BY InvInit, InvNext, PTL DEF Spec

\* Every reachable state is well typed.
THEOREM SignupTypes == Spec => []TypeOK
  <1>1. Inv => TypeOK
    BY DEF Inv
  <1> QED BY <1>1, Invariance, PTL

\* The limit of accounts per address holds in every window
\* (signup_rate_limit.py:38-41).
THEOREM IpLimitNeverExceeded == Spec => []IpLimitHolds
  <1>1. Inv => IpLimitHolds
    BY DEF Inv, Limits
  <1> QED BY <1>1, Invariance, PTL

\* So does the global one.
THEOREM GlobalLimitNeverExceeded == Spec => []GlobalLimitHolds
  <1>1. Inv => GlobalLimitHolds
    BY DEF Inv, Limits
  <1> QED BY <1>1, Invariance, PTL

\* An account and its audit row come together, once per e-mail address.
THEOREM AccountsMatchAudit == Spec => []AccountsAreAudited
  <1>1. Inv => AccountsAreAudited
    BY DEF Inv
  <1> QED BY <1>1, Invariance, PTL

\* Every answer is the audited outcome.
THEOREM AnswersMatchAudit == Spec => []AnswerIsAudited
  <1>1. Inv => AnswerIsAudited
    BY DEF Inv
  <1> QED BY <1>1, Invariance, PTL

\* Neither limit of sign-ups is ever exceeded, for any number of attempts.
THEOREM LimitsNeverExceeded == Spec => []LimitsHold
  <1>1. Inv => LimitsHold
    BY DEF Inv, Limits, LimitsHold
  <1> QED BY <1>1, Invariance, PTL

\* Accounts, answers and audit rows agree in every state.
THEOREM AlwaysAudited == Spec => []Audited
  <1>1. Inv => Audited
    BY DEF Inv, Audited
  <1> QED BY <1>1, Invariance, PTL
=============================================================================
