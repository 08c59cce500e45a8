----------------------------- MODULE Dashboard -----------------------------
(***************************************************************************)
(* The figures that organisers see of one event: the analytics dashboard,  *)
(* the registrations page and the check-in page.  A page makes its calls   *)
(* in parallel, a service answers a call with one or more queries, and     *)
(* registrations change between any two of them.                           *)
(*                                                                         *)
(* The table holds the registrations of one event; the other services      *)
(* change it as registration-service and checkin-service do, one saved     *)
(* status at a time (see Registration and CheckIn).                        *)
(***************************************************************************)
EXTENDS Integers, Sequences, FiniteSets, FiniteSetsExt, TypeOrm

CONSTANTS
    Attendee,   \* keys of the event's registrations
    Price,      \* the amounts that a registration may have paid
    MaxChange   \* bound on the rows saved since a page was asked for

ASSUME DashboardAssumption ==
    /\ IsFiniteSet(Attendee)
    /\ IsFiniteSet(Price) /\ Price \subseteq Nat
    /\ MaxChange \in Nat
    /\ None \notin Nat

VARIABLES
    guests,     \* [Attendee -> row or None]: the event's registrations
    screen,     \* the queries of the page being loaded, or loaded last
    asked,      \* those of them that have not run
    figure,     \* [Query -> what it returned, or None]
    saves       \* the rows saved since the page was asked for

dashboardVars == <<guests, screen, asked, figure, saves>>

GuestStatus == {"pending", "confirmed", "cancelled", "checked_in"}

ASSUME GuestAssumption == None \notin [status: GuestStatus, amountPaid: Price]

Guests == {a \in Attendee : guests[a] # None}

With(status) == {a \in Guests : guests[a].status = status}

\* The amounts are counted whatever the status: a cancelled registration
\* keeps its amountPaid.
Revenue == MapThenSumSet(LAMBDA a : guests[a].amountPaid, Guests)

-----------------------------------------------------------------------------
(* The queries of the calls.  Those of one call share its failure.         *)

\* analytics-service, getEventDashboard: all at once.
EventDashboard ==
    {<<"dashboard", "total">>, <<"dashboard", "confirmed">>,
     <<"dashboard", "checkedIn">>, <<"dashboard", "revenue">>}

\* analytics-service, getPricingBreakdown, which the same page asks for, and
\* getPlatformOverview.
PricingBreakdown == {<<"pricing", "byTier">>}

PlatformOverview == {<<"platform", "total">>, <<"platform", "revenue">>}

\* checkin-service, getEventAttendance: one after the other.
Attendance == {<<"attendance", "total">>, <<"attendance", "checkedIn">>}

\* registration-service, getEventStats: one GROUP BY.
EventStats == {<<"stats", "byStatus">>}

\* registration-service, findByEvent: the list below the figures.
RegistrationList == {<<"list", "all">>}

Query == EventDashboard \cup PricingBreakdown \cup PlatformOverview
             \cup Attendance \cup EventStats \cup RegistrationList

AnalyticsPage == EventDashboard \cup PricingBreakdown

CheckInPage == Attendance \cup RegistrationList

RegistrationsPage == EventStats \cup RegistrationList

\* What the figures that several calls ask for are when their query runs.
Number(name) ==
    CASE name = "total" -> Cardinality(Guests)
      [] name = "confirmed" -> Cardinality(With("confirmed"))
      [] name = "checkedIn" -> Cardinality(With("checked_in"))
      [] name = "revenue" -> Revenue

\* What a grouping or a list returns.
Table(name) ==
    CASE name = "byStatus" -> [s \in GuestStatus |-> Cardinality(With(s))]
      [] name = "byTier" ->
            [p \in Price |-> Cardinality({a \in Guests :
                                             guests[a].amountPaid = p})]
      [] name = "all" -> [a \in Guests |-> guests[a].status]

\* Mutant of Counted: the door counts those who are still to come.
CountedConfirmed(q) ==
    IF q[2] \in {"byStatus", "byTier", "all"} THEN Table(q[2])
    ELSE Number(IF q[2] = "checkedIn" THEN "confirmed" ELSE q[2])

Counted(q) ==
    IF q[2] \in {"byStatus", "byTier", "all"} THEN Table(q[2])
    ELSE Number(q[2])

DashboardTypeOK ==
    /\ guests \in [Attendee -> [status: GuestStatus, amountPaid: Price]
                                  \cup {None}]
    /\ screen \in {{}, AnalyticsPage, PlatformOverview, CheckInPage,
                   RegistrationsPage}
    /\ asked \subseteq screen
    /\ \A q \in Query \ screen : figure[q] = None
    /\ saves \in 0..MaxChange

DashboardInit ==
    /\ guests = [a \in Attendee |-> None]
    /\ screen = {}
    /\ asked = {}
    /\ figure = [q \in Query |-> None]
    /\ saves = 0

-----------------------------------------------------------------------------
(* What the other services do to the table                                 *)

Saves(a, row) ==
    /\ saves < MaxChange     \* bound
    /\ guests' = [guests EXCEPT ![a] = row]
    /\ saves' = IF screen # {} THEN saves + 1 ELSE 0
    /\ UNCHANGED <<screen, asked, figure>>

\* What is free is confirmed at once.  The rest waits, and that may be a price
\* which the column rounds to 0.00 (see Registration).
SignUp(a, status, amount) ==
    /\ guests[a] = None
    /\ status = "confirmed" => amount = 0
    /\ Saves(a, [status |-> status, amountPaid |-> amount])

\* From any status to any other: confirm and the manual check-in take every
\* registration, and a save of an old entity brings an old status back.
SaveStatus(a, status) ==
    /\ guests[a] # None
    /\ guests[a].status # status
    /\ Saves(a, [guests[a] EXCEPT !.status = status])

-----------------------------------------------------------------------------
(* Loading a page                                                          *)

\* Pages are rendered per request and fetched with no-store.
Open(queries) ==
    /\ asked = {}
    /\ screen' = queries
    /\ asked' = queries
    /\ figure' = [q \in Query |-> None]
    /\ saves' = 0
    /\ UNCHANGED guests

\* Attendance counts the total first.
MayRun(q) ==
    q = <<"attendance", "checkedIn">> => <<"attendance", "total">> \notin asked

Run(q) ==
    /\ q \in asked
    /\ MayRun(q)
    /\ figure' = [figure EXCEPT ![q] = Counted(q)]
    /\ asked' = asked \ {q}
    /\ UNCHANGED <<guests, screen, saves>>

\* A query rejects, or the service or the gateway fails: the call returns
\* nothing, and the page shows zeros or an error in its place.
CallFails(q) ==
    LET call == {p \in screen : p[1] = q[1]} IN
    /\ q \in asked
    /\ figure' = [p \in Query |-> IF p \in call THEN None ELSE figure[p]]
    /\ asked' = asked \ call
    /\ UNCHANGED <<guests, screen, saves>>

DashboardNext ==
    \/ \E a \in Attendee :
          \/ \E status \in {"pending", "confirmed"}, amount \in Price :
                SignUp(a, status, amount)
          \/ \E status \in GuestStatus : SaveStatus(a, status)
    \/ \E queries \in {AnalyticsPage, PlatformOverview, CheckInPage,
                       RegistrationsPage} : Open(queries)
    \/ \E q \in asked : Run(q) \/ CallFails(q)

DashboardSpec == DashboardInit /\ [][DashboardNext]_dashboardVars

-----------------------------------------------------------------------------
(* What the pages compute from the figures, and what they should show      *)

Got(q) == figure[q] # None

Apart(m, n) == IF m > n THEN m - n ELSE n - m

NotCheckedIn ==
    figure[<<"attendance", "total">>] - figure[<<"attendance", "checkedIn">>]

\* The list of those who can still be checked in, and the sum of the tiles.
StillToCome ==
    LET list == figure[<<"list", "all">>]
    IN  {a \in DOMAIN list : list[a] # "checked_in"}

SumOf(q) == MapThenSumSet(LAMBDA key : figure[q][key], DOMAIN figure[q])

\* A page may combine states of the table that never existed together, but
\* no figure on it, summed or subtracted from several queries, is further
\* from the truth than the number of rows saved since the page was asked for.
\* If there were none, every page is exact, and services that count apart
\* agree.  The revenue never runs ahead of what was signed up for.
FiguresOffBySaves ==
    screen # {} /\ asked = {} =>
        LET absent == Cardinality(Guests \ With("checked_in")) IN
        /\ Got(<<"attendance", "total">>) =>
              Apart(NotCheckedIn, absent) <= saves
        /\ Got(<<"list", "all">>) =>
              Apart(Cardinality(StillToCome), absent) <= saves
        /\ Got(<<"stats", "byStatus">>) =>
              Apart(SumOf(<<"stats", "byStatus">>), Cardinality(Guests)) <= saves
        /\ Got(<<"pricing", "byTier">>) =>
              Apart(SumOf(<<"pricing", "byTier">>), Cardinality(Guests)) <= saves
        /\ Got(<<"dashboard", "total">>) =>
              Apart(figure[<<"dashboard", "total">>]
                        - figure[<<"dashboard", "confirmed">>]
                        - figure[<<"dashboard", "checkedIn">>],
                    Cardinality(With("pending") \cup With("cancelled")))
                  <= saves
        /\ \A call \in {"dashboard", "platform"} :
              Got(<<call, "revenue">>) => figure[<<call, "revenue">>] <= Revenue

=============================================================================
