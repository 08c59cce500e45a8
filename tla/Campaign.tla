------------------------------ MODULE Campaign ------------------------------
(***************************************************************************)
(* email-service: campaigns are created, edited, scheduled and sent to a   *)
(* list of recipients while readers open the mails and click their links.  *)
(*                                                                         *)
(* Opens and clicks are counted by one atomic UPDATE; everything else is   *)
(* load, change, save, and a send saves twice, before and after the mails, *)
(* from the entity it loaded before either.                                *)
(***************************************************************************)
EXTENDS Integers, TypeOrm

CONSTANTS
    Job,            \* slots for requests in progress
    CampaignId,     \* primary keys of campaigns
    Body,           \* what a campaign can say
    MaxRecipients,  \* bound: recipients of one send
    MaxMails,       \* bound: mails of one campaign that get delivered
    MaxHits         \* bound: opens and clicks of one campaign, together

ASSUME CampaignAssumption ==
    MaxRecipients \in Nat /\ MaxMails \in Nat /\ MaxHits \in Nat

VARIABLES
    campaigns,  \* [CampaignId -> row or None]: the email_campaigns table
    job,        \* [Job -> handler]: the requests in progress
    mailed,     \* [CampaignId -> Nat]: mails a provider has accepted
    hits,       \* history: [Counter -> [CampaignId -> Nat]]
    cutShort    \* history: campaigns one of whose sends did not get to its end

vars == <<campaigns, job, mailed, hits, cutShort>>

CampaignStatus == {"draft", "scheduled", "sending", "sent", "failed"}

Counter == {"totalOpened", "totalClicked"}

CampaignRow ==
    [body: Body, status: CampaignStatus, totalSent: 0..MaxRecipients,
     totalOpened: 0..MaxHits, totalClicked: 0..MaxHits]

ASSUME CampaignRowAssumption == None \notin CampaignRow

CampaignColumn ==
    {"body", "status", "totalSent", "totalOpened", "totalClicked"}

JobHandler ==
    [pc: {"idle", "reload", "write", "mail"},
     op: {"none", "edit", "send", "finish"},
     campaign: CampaignId \cup {None},
     entity: CampaignRow \cup {None},
     cols: SUBSET CampaignColumn,
     todo: 0..MaxRecipients,        \* recipients the loop has not tried
     sent: 0..MaxRecipients]        \* results.sent

TypeOK ==
    /\ campaigns \in [CampaignId -> CampaignRow \cup {None}]
    /\ job \in [Job -> JobHandler]
    /\ mailed \in [CampaignId -> 0..MaxMails]
    /\ hits \in [Counter -> [CampaignId -> 0..MaxHits]]
    /\ cutShort \subseteq CampaignId

-----------------------------------------------------------------------------
NoJob == [pc |-> "idle", op |-> "none", campaign |-> None, entity |-> None,
          cols |-> {}, todo |-> 0, sent |-> 0]

Draft(b) == [body |-> b, status |-> "draft", totalSent |-> 0,
             totalOpened |-> 0, totalClicked |-> 0]

Exists(c) == campaigns[c] # None

Shows(c, status) == Exists(c) /\ campaigns[c].status = status

Init ==
    /\ campaigns = [c \in CampaignId |-> None]
    /\ job = [j \in Job |-> NoJob]
    /\ mailed = [c \in CampaignId |-> 0]
    /\ hits = [k \in Counter |-> [c \in CampaignId |-> 0]]
    /\ cutShort = {}

\* Mutant of MayEdit: a sent campaign may be edited too.
MayEditAlways(row) == TRUE

MayEdit(row) == row.status # "sent"

\* Mutant of Finished: the failures count as sent.
FinishedCountingFailures(row, sent) ==
    [row EXCEPT !.status = "sent", !.totalSent = MaxRecipients]

\* Mutant of Finished: a status the enumeration does not have.
FinishedCompleted(row, sent) ==
    [row EXCEPT !.status = "completed", !.totalSent = sent]

\* Mutant of Finished: the last save leaves the status alone.
FinishedStillSending(row, sent) == [row EXCEPT !.totalSent = sent]

\* The entity send saves once it has tried every recipient.
Finished(row, sent) == [row EXCEPT !.status = "sent", !.totalSent = sent]

\* A request for campaign c that will save entity, and then mail todo people.
Save(j, op, c, entity, todo) ==
    /\ job[j] = NoJob
    /\ job' = [job EXCEPT ![j] =
          [NoJob EXCEPT !.pc = "reload", !.op = op, !.campaign = c,
                        !.entity = entity, !.todo = todo]]
    /\ UNCHANGED <<campaigns, mailed, hits, cutShort>>

-----------------------------------------------------------------------------
\* POST /campaigns: one INSERT, of a draft.
Create(c, b) ==
    /\ ~Exists(c)
    /\ campaigns' = [campaigns EXCEPT ![c] = Draft(b)]
    /\ UNCHANGED <<job, mailed, hits, cutShort>>

\* PUT /campaigns/:id.
Update(j, c, b) ==
    /\ Exists(c)
    /\ MayEdit(campaigns[c])
    /\ Save(j, "edit", c, [campaigns[c] EXCEPT !.body = b], 0)

\* PATCH /campaigns/:id/schedule, whatever the status.  Nothing in the
\* platform reads scheduledTime.
Schedule(j, c) ==
    /\ Exists(c)
    /\ Save(j, "edit", c, [campaigns[c] EXCEPT !.status = "scheduled"], 0)

\* POST /campaigns/:id/send, whatever the status, as far as its first save.
Send(j, c, n) ==
    /\ Exists(c)
    /\ Save(j, "send", c, [campaigns[c] EXCEPT !.status = "sending"], n)

\* Repository.save, in its two round trips.
Reload(j) ==
    /\ job[j].pc = "reload"
    /\ job' = [job EXCEPT ![j].pc = "write",
                 ![j].cols = Changed(campaigns[job[j].campaign],
                                     job[j].entity)]
    /\ UNCHANGED <<campaigns, mailed, hits, cutShort>>

Write(j) ==
    /\ job[j].pc = "write"
    /\ campaigns' = [campaigns EXCEPT ![job[j].campaign] =
                        Patch(@, job[j].entity, job[j].cols)]
    /\ job' = [job EXCEPT ![j] = IF job[j].op = "send"
                                 THEN [@ EXCEPT !.pc = "mail", !.cols = {}]
                                 ELSE NoJob]
    /\ UNCHANGED <<mailed, hits, cutShort>>

\* One recipient of the loop: the provider accepts the mail, or throws, which
\* stops nobody else's.
MailOne(j) ==
    /\ job[j].pc = "mail"
    /\ job[j].todo > 0
    /\ \/ /\ mailed[job[j].campaign] < MaxMails
          /\ mailed' = [mailed EXCEPT ![job[j].campaign] = @ + 1]
          /\ job' = [job EXCEPT ![j].todo = @ - 1, ![j].sent = @ + 1]
       \/ /\ job' = [job EXCEPT ![j].todo = @ - 1]
          /\ UNCHANGED mailed
    /\ UNCHANGED <<campaigns, hits, cutShort>>

\* After the loop: the result goes into the entity, which is saved again.
Finish(j) ==
    /\ job[j].pc = "mail"
    /\ job[j].todo = 0
    /\ job' = [job EXCEPT ![j].pc = "reload", ![j].op = "finish",
                          ![j].entity = Finished(@, job[j].sent)]
    /\ UNCHANGED <<campaigns, mailed, hits, cutShort>>

\* Mutant of Hit: a click counts as an open as well.
HitOpensToo(row, k) ==
    [row EXCEPT !.totalOpened = @ + 1,
                !.totalClicked = IF k = "totalClicked" THEN @ + 1 ELSE @]

Hit(row, k) == [row EXCEPT ![k] = @ + 1]

\* POST /campaigns/:id/track-open and track-click: an atomic increment.
Track(c, k) ==
    /\ Exists(c)
    /\ hits["totalOpened"][c] + hits["totalClicked"][c] < MaxHits
    /\ campaigns' = [campaigns EXCEPT ![c] = Hit(@, k)]
    /\ hits' = [hits EXCEPT ![k][c] = @ + 1]
    /\ UNCHANGED <<job, mailed, cutShort>>

\* A database error or a crash between two awaits.
JobFails(j) ==
    /\ job[j] # NoJob
    /\ job' = [job EXCEPT ![j] = NoJob]
    /\ cutShort' = cutShort \cup
          {c \in {job[j].campaign} : job[j].op \in {"send", "finish"}}
    /\ UNCHANGED <<campaigns, mailed, hits>>

-----------------------------------------------------------------------------
Ask(j) ==
    \E c \in CampaignId :
        \/ \E b \in Body : Update(j, c, b)
        \/ Schedule(j, c)
        \/ \E n \in 0..MaxRecipients : Send(j, c, n)

Continue(j) == Reload(j) \/ Write(j) \/ MailOne(j) \/ Finish(j)

Next ==
    \/ \E c \in CampaignId, b \in Body : Create(c, b)
    \/ \E j \in Job : Ask(j) \/ Continue(j) \/ JobFails(j)
    \/ \E c \in CampaignId, k \in Counter : Track(c, k)

Spec == Init /\ [][Next]_vars

\* The event loop runs every request on until it ends or fails.
FairSpec == Spec /\ \A j \in Job : WF_vars(Continue(j))

-----------------------------------------------------------------------------
(* Properties                                                              *)

\* A campaign never claims more opens or clicks than there were, whatever
\* stale counters the saves of sends and edits write back.
CountersNotInflated ==
    \A c \in CampaignId, k \in Counter :
        Exists(c) => campaigns[c][k] <= hits[k][c]

\* What a campaign claims to have sent was accepted by a provider, however
\* two sends of the same campaign overlap.
ClaimsWereMailed ==
    \A c \in CampaignId : Exists(c) => campaigns[c].totalSent <= mailed[c]

\* Only a send that has tried all its recipients makes a campaign SENT: no
\* edit or schedule that was loaded earlier brings the status back.
SentOnceTried ==
    [][\A c \in CampaignId :
          ~Shows(c, "sent") /\ Shows(c, "sent")'
          => \E j \in Job : /\ job[j].campaign = c
                            /\ job[j].op = "finish"
                            /\ job[j].todo = 0]_vars

\* A send, once asked for, sooner or later shows the campaign as SENT,
\* whatever fails for single recipients and whatever others save meanwhile,
\* unless a send of the campaign was cut short.
SendCompletes ==
    \A j \in Job, c \in CampaignId :
        (job[j].op = "send" /\ job[j].campaign = c)
            ~> (Shows(c, "sent") \/ c \in cutShort)

=============================================================================
