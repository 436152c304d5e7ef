----------------------------- MODULE Membership -----------------------------
(***************************************************************************)
(* Who may see the paid lessons: users.is_member, the copy of Circle's      *)
(* answer that sign-up, login and /me keep, call by call and statement by   *)
(* statement.  Circle itself is external.                                   *)
(***************************************************************************)
EXTENDS Naturals

CONSTANTS
    User,
    Request,     \* sign-ups, logins and /me in progress at one time
    MaxChanges,  \* bound on what happens to memberships in Circle
    MaxOutages   \* bound on Circle calls that time out or answer badly, and on
                 \* requests that break off

ASSUME MembershipAssumption == {MaxChanges, MaxOutages} \subseteq Nat

\* The answers of community_members/search and .../access_groups.
Standing == {"none", "inactive", "member", "paid"}

VARIABLES
    circle,    \* what Circle knows of each user
    row,       \* users.is_member, and the age of member_verified_at
    request,   \* the requests that verify a membership
    everPaid,  \* users that paid at some time
    changes, outages

memberVars == <<circle, row, request, everPaid, changes, outages>>

NoRow == [is_member |-> FALSE, verified |-> "no row"]
\* "fresh": no older than MEMBERSHIP_REFRESH_SECONDS
Row == [is_member : BOOLEAN, verified : {"no row", "never", "fresh", "stale"}]
Idle(u) == [pc |-> "idle", user |-> u, answer |-> FALSE]
RequestRecord ==
    [pc : {"idle", "search", "groups", "store"}, user : User, answer : BOOLEAN]

MembershipTypeOK ==
    /\ circle \in [User -> Standing]
    /\ row \in [User -> Row]
    /\ request \in [Request -> RequestRecord]
    /\ everPaid \subseteq User
    /\ changes \in 0..MaxChanges /\ outages \in 0..MaxOutages

MembershipInit ==
    /\ circle = [u \in User |-> "none"]
    /\ row = [u \in User |-> NoRow]
    /\ request \in [Request -> {Idle(u) : u \in User}]
    /\ everPaid = {}
    /\ changes = 0 /\ outages = 0

-----------------------------------------------------------------------------
(* routes/auth.py                                                          *)

get_user_by_id(u) == IF row[u].verified = "no row" THEN {} ELSE {row[u]}

\* The session cookie names the user; a deleted one is answered 401.
get_current_user(u) == get_user_by_id(u)

Verifies(r, u) ==
    /\ request[r].pc = "idle"
    /\ request' = [request EXCEPT ![r] =
                     [pc |-> "search", user |-> u, answer |-> FALSE]]

\* The transaction of SignupPool has committed; Circle is asked after it.
SignsUp(r, u) ==
    /\ get_user_by_id(u) = {}
    /\ row' = [row EXCEPT ![u].verified = "never"]
    /\ Verifies(r, u)
    /\ UNCHANGED <<circle, everPaid, changes, outages>>

LogsIn(r, u) ==
    /\ get_user_by_id(u) # {}
    /\ Verifies(r, u)
    /\ UNCHANGED <<circle, row, everPaid, changes, outages>>

\* Mutant: a membership is verified once.
refreshes_once(u) == \E found \in get_current_user(u) : found.verified = "never"

needs_refresh(u) == \E found \in get_current_user(u) : found.verified # "fresh"

LoadsMe(r, u) ==
    /\ needs_refresh(u)
    /\ Verifies(r, u)
    /\ UNCHANGED <<circle, row, everPaid, changes, outages>>

(* integrations/circle.py                                                  *)

Concludes(r, answer) ==
    request' = [request EXCEPT ![r].pc = "store", ![r].answer = answer]

SearchesMember(r) ==
    /\ request[r].pc = "search"
    /\ IF circle[request[r].user] \in {"none", "inactive"}
          THEN Concludes(r, FALSE)
          ELSE request' = [request EXCEPT ![r].pc = "groups"]
    /\ UNCHANGED <<circle, row, everPaid, changes, outages>>

ReadsGroups(r) ==
    /\ request[r].pc = "groups"
    /\ Concludes(r, circle[request[r].user] = "paid")
    /\ UNCHANGED <<circle, row, everPaid, changes, outages>>

\* A time-out, a status that is not 200, a shape that is not expected.
CircleFails(r) ==
    /\ request[r].pc \in {"search", "groups"}
    /\ outages < MaxOutages
    /\ outages' = outages + 1
    /\ Concludes(r, FALSE)
    /\ UNCHANGED <<circle, row, everPaid, changes>>

set_member_status(u, answer) ==
    row' = [row EXCEPT ![u] = [is_member |-> answer, verified |-> "fresh"]]

StoresStatus(r) ==
    /\ request[r].pc = "store"
    /\ set_member_status(request[r].user, request[r].answer)
    /\ request' = [request EXCEPT ![r] = Idle(request[r].user)]
    /\ UNCHANGED <<circle, everPaid, changes, outages>>

\* The write fails, or the process dies: nothing is stored.
BreaksOff(r) ==
    /\ request[r].pc # "idle"
    /\ outages < MaxOutages
    /\ outages' = outages + 1
    /\ request' = [request EXCEPT ![r] = Idle(request[r].user)]
    /\ UNCHANGED <<circle, row, everPaid, changes>>

(* The world outside.                                                      *)

RowAges(u) ==
    /\ row[u].verified = "fresh"
    /\ row' = [row EXCEPT ![u].verified = "stale"]
    /\ UNCHANGED <<circle, request, everPaid, changes, outages>>

CircleChanges(u, standing) ==
    /\ changes < MaxChanges
    /\ circle[u] # standing
    /\ changes' = changes + 1
    /\ circle' = [circle EXCEPT ![u] = standing]
    /\ everPaid' = everPaid \cup {v \in {u} : standing = "paid"}
    /\ UNCHANGED <<row, request, outages>>

RequestStep(r) ==
    \/ SearchesMember(r)
    \/ ReadsGroups(r)
    \/ CircleFails(r)
    \/ StoresStatus(r)
    \/ BreaksOff(r)

MembershipNext ==
    \/ \E r \in Request, u \in User : SignsUp(r, u) \/ LogsIn(r, u) \/ LoadsMe(r, u)
    \/ \E r \in Request : RequestStep(r)
    \/ \E u \in User : RowAges(u)
    \/ \E u \in User, s \in Standing : CircleChanges(u, s)

-----------------------------------------------------------------------------
(***************************************************************************)
(* When memberships stop changing and Circle answers again, the flag of     *)
(* every registered user becomes what Circle says and stays so, although    *)
(* an older check may store its answer last with the newer time, a failed   *)
(* check is stored like a refusal, and one may break off and store nothing: *)
(* users that keep loading /me are asked about again once the stored time   *)
(* is too old.                                                              *)
(***************************************************************************)
FlagSettles ==
    \A u \in User : <>[](row[u].verified = "no row"
                           \/ row[u].is_member = (circle[u] = "paid"))

\* Calls to Circle end within TIMEOUT_SECONDS; time passes; users come back.
MembershipFairness ==
    /\ \A r \in Request :
          /\ WF_memberVars(SearchesMember(r))
          /\ WF_memberVars(ReadsGroups(r))
          /\ WF_memberVars(StoresStatus(r))
    /\ \A u \in User : WF_memberVars(RowAges(u))
    /\ \A u \in User : WF_memberVars(\E r \in Request : LoadsMe(r, u))
=============================================================================
