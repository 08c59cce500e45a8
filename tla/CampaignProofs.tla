--------------------------- MODULE CampaignProofs ---------------------------
(***************************************************************************)
(* Theorems about Campaign for any number of requests, campaigns,          *)
(* recipients and hits.                                                    *)
(*                                                                         *)
(* The argument: mails and hits only grow, so an entity that was honest    *)
(* when it was loaded stays honest however stale it gets, and a row mixed  *)
(* of the columns of two honest entities is honest.                        *)
(***************************************************************************)
EXTENDS Campaign, TLAPS

\* Row claims no more of campaign c than what happened.
Honest(c, row) ==
    /\ row.totalSent <= mailed[c]
    /\ \A k \in Counter : row[k] <= hits[k][c]

\* What holds of a request in progress.
JobOK(jb) ==
    /\ jb.pc = "idle" => jb.op = "none"
    /\ jb.pc # "idle" =>
          /\ jb.campaign \in CampaignId
          /\ Exists(jb.campaign)
          /\ jb.entity \in CampaignRow
          /\ Honest(jb.campaign, jb.entity)
          /\ jb.sent <= mailed[jb.campaign]
          /\ jb.sent + jb.todo <= MaxRecipients
          /\ jb.pc = "mail" => jb.op = "send"
          /\ jb.entity.status = "sent" => jb.op = "finish" /\ jb.todo = 0

JobsOK == \A j \in Job : JobOK(job[j])

\* The inductive invariant.
CampaignInv ==
    /\ TypeOK
    /\ CountersNotInflated
    /\ ClaimsWereMailed
    /\ JobsOK

\* What happened stays so: no campaign goes away, and nothing is uncounted.
Grows ==
    \A c \in CampaignId :
        /\ Exists(c) => Exists(c)'
        /\ mailed[c] <= mailed'[c]
        /\ \A k \in Counter : hits[k][c] <= hits'[k][c]

-----------------------------------------------------------------------------
\* The rows of the table are honest.
LEMMA RowsHonest ==
    ASSUME CampaignInv, NEW c \in CampaignId, Exists(c)
    PROVE  campaigns[c] \in CampaignRow /\ Honest(c, campaigns[c])
BY DEF CampaignInv, TypeOK, CountersNotInflated, ClaimsWereMailed, Exists,
   Honest

\* Conversely, honest rows are what the two properties ask for.
LEMMA HonestRows ==
    ASSUME \A c \in CampaignId : Exists(c) => Honest(c, campaigns[c])
    PROVE  CountersNotInflated /\ ClaimsWereMailed
BY DEF CountersNotInflated, ClaimsWereMailed, Honest

\* An honest row stays honest.
LEMMA HonestStable ==
    ASSUME TypeOK, TypeOK', Grows, NEW c \in CampaignId, NEW row \in CampaignRow,
           Honest(c, row)
    PROVE  Honest(c, row)'
<1>1. /\ mailed[c] \in Int /\ mailed'[c] \in Int /\ row.totalSent \in Int
      /\ \A k \in Counter : /\ hits[k][c] \in Int /\ hits'[k][c] \in Int
                            /\ row[k] \in Int
  BY DEF TypeOK, CampaignRow, Counter
<1>2. QED
  BY <1>1 DEF Grows, Honest

\* A mixture of two honest rows is an honest row, and its status is one of
\* theirs.
LEMMA PatchHonest ==
    ASSUME NEW c \in CampaignId, NEW cols,
           NEW row \in CampaignRow, NEW entity \in CampaignRow,
           Honest(c, row), Honest(c, entity)
    PROVE  /\ Patch(row, entity, cols) \in CampaignRow
           /\ Honest(c, Patch(row, entity, cols))
           /\ Patch(row, entity, cols).status \in {row.status, entity.status}
<1> DEFINE p == Patch(row, entity, cols)
<1>1. DOMAIN row = CampaignColumn
  BY DEF CampaignRow, CampaignColumn
<1>2. \A k \in CampaignColumn : p[k] = IF k \in cols THEN entity[k] ELSE row[k]
  BY <1>1 DEF Patch
<1>3. p = [body |-> p.body, status |-> p.status, totalSent |-> p.totalSent,
           totalOpened |-> p.totalOpened, totalClicked |-> p.totalClicked]
  BY <1>1 DEF Patch, CampaignColumn
<1>4. p \in CampaignRow
  BY <1>2, <1>3 DEF CampaignRow, CampaignColumn
<1>5. Honest(c, p)
  BY <1>2 DEF Honest, Counter, CampaignColumn
<1>6. p.status \in {row.status, entity.status}
  BY <1>2 DEF CampaignColumn
<1>7. QED
  BY <1>4, <1>5, <1>6

\* A request that does not move stays in order.
LEMMA JobStable ==
    ASSUME TypeOK, TypeOK', Grows, NEW jb \in JobHandler, JobOK(jb)
    PROVE  JobOK(jb)'
<1> SUFFICES ASSUME jb.pc # "idle"
             PROVE  JobOK(jb)'
  BY DEF JobOK
<1>1. jb.campaign \in CampaignId /\ jb.entity \in CampaignRow
  BY DEF JobOK
<1>2. Honest(jb.campaign, jb.entity)'
  BY <1>1, HonestStable DEF JobOK
<1>3. Exists(jb.campaign)'
  BY <1>1 DEF JobOK, Grows
<1>4. (jb.sent <= mailed[jb.campaign])'
  <2>1. /\ mailed[jb.campaign] \in Int /\ mailed'[jb.campaign] \in Int
        /\ jb.sent \in Int
    BY <1>1 DEF TypeOK, JobHandler
  <2>2. QED
    BY <1>1, <2>1 DEF JobOK, Grows
<1>5. QED
  BY <1>2, <1>3, <1>4 DEF JobOK

\* A step of one request keeps all in order if it keeps that one in order.
LEMMA JobsStep ==
    ASSUME CampaignInv, TypeOK', Grows, NEW j \in Job, NEW jb,
           job' = [job EXCEPT ![j] = jb], JobOK(jb)'
    PROVE  JobsOK'
<1> SUFFICES ASSUME NEW i \in Job
             PROVE  JobOK(job[i])'
  BY DEF JobsOK
<1>1. job'[i] = IF i = j THEN jb ELSE job[i]
  BY DEF CampaignInv, TypeOK
<1>2. CASE i = j
  BY <1>1, <1>2
<1>3. CASE i # j
  <2>1. PICK ji \in JobHandler : ji = job[i]
    BY DEF CampaignInv, TypeOK
  <2>2. JobOK(ji)'
    BY <2>1, JobStable DEF CampaignInv, JobsOK
  <2>3. QED
    BY <1>1, <1>3, <2>1, <2>2
<1>4. QED
  BY <1>2, <1>3

\* A request that touches neither the table nor the world keeps the invariant
\* if it stays in order itself.
LEMMA QuietStep ==
    ASSUME CampaignInv, NEW j \in Job, NEW jb \in JobHandler,
           job' = [job EXCEPT ![j] = jb], JobOK(jb),
           UNCHANGED <<campaigns, mailed, hits>>,
           cutShort' \subseteq CampaignId
    PROVE  CampaignInv'
<1>1. TypeOK'
  BY DEF CampaignInv, TypeOK
<1>2. Grows
  <2>1. \A c \in CampaignId : /\ mailed[c] \in Int
                              /\ \A k \in Counter : hits[k][c] \in Int
    BY DEF CampaignInv, TypeOK
  <2>2. QED
    BY <2>1 DEF Grows, Exists
<1>3. JobOK(jb)'
  BY DEF JobOK, Honest, Exists
<1>4. JobsOK'
  BY <1>1, <1>2, <1>3, JobsStep
<1>5. CountersNotInflated' /\ ClaimsWereMailed'
  BY DEF CampaignInv, CountersNotInflated, ClaimsWereMailed, Exists
<1>6. QED
  BY <1>1, <1>4, <1>5 DEF CampaignInv

\* The empty slot is a handler, and in order.
LEMMA NoJobOK == NoJob \in JobHandler /\ JobOK(NoJob) /\ JobOK(NoJob)'
BY CampaignAssumption DEF NoJob, JobHandler, JobOK

-----------------------------------------------------------------------------
\* Taking up a request with an honest entity that is not SENT.
LEMMA SaveStep ==
    ASSUME CampaignInv, NEW j \in Job, NEW c \in CampaignId, Exists(c),
           NEW op \in {"edit", "send"}, NEW entity \in CampaignRow,
           Honest(c, entity), entity.status # "sent",
           NEW n \in 0..MaxRecipients, Save(j, op, c, entity, n)
    PROVE  CampaignInv'
<1> DEFINE jb == [NoJob EXCEPT !.pc = "reload", !.op = op, !.campaign = c,
                               !.entity = entity, !.todo = n]
<1>1. /\ jb.pc = "reload" /\ jb.op = op /\ jb.campaign = c
      /\ jb.entity = entity /\ jb.todo = n /\ jb.sent = 0
  BY DEF NoJob
<1>2. jb \in JobHandler
  BY NoJobOK DEF JobHandler
<1>3. mailed[c] \in Nat
  BY DEF CampaignInv, TypeOK
<1>4. JobOK(jb)
  BY <1>1, <1>3, CampaignAssumption DEF JobOK
<1>5. /\ job' = [job EXCEPT ![j] = jb]
      /\ UNCHANGED <<campaigns, mailed, hits, cutShort>>
  BY DEF Save
<1> HIDE DEF jb
<1>6. cutShort' \subseteq CampaignId
  BY <1>5 DEF CampaignInv, TypeOK
<1>7. QED
  BY <1>2, <1>4, <1>5, <1>6, QuietStep

\* The requests that load, change and save.
LEMMA AskStep ==
    ASSUME CampaignInv, NEW j \in Job, Ask(j)
    PROVE  CampaignInv'
<1>1. ASSUME NEW c \in CampaignId, NEW b \in Body, Update(j, c, b)
      PROVE  CampaignInv'
  <2> DEFINE entity == [campaigns[c] EXCEPT !.body = b]
  <2>1. campaigns[c] \in CampaignRow /\ Honest(c, campaigns[c])
    BY <1>1, RowsHonest DEF Update
  <2>2. entity \in CampaignRow /\ Honest(c, entity)
    BY <2>1 DEF CampaignRow, Honest, Counter
  <2>3. entity.status # "sent"
    BY <1>1, <2>1 DEF Update, MayEdit, CampaignRow
  <2>4. Save(j, "edit", c, entity, 0)
    BY <1>1 DEF Update
  <2> HIDE DEF entity
  <2>5. QED
    BY <1>1, <2>2, <2>3, <2>4, SaveStep, CampaignAssumption DEF Update
<1>2. ASSUME NEW c \in CampaignId, NEW op \in {"edit", "send"},
             NEW status \in CampaignStatus \ {"sent"},
             NEW n \in 0..MaxRecipients, Exists(c),
             Save(j, op, c, [campaigns[c] EXCEPT !.status = status], n)
      PROVE  CampaignInv'
  <2> DEFINE entity == [campaigns[c] EXCEPT !.status = status]
  <2>1. campaigns[c] \in CampaignRow /\ Honest(c, campaigns[c])
    BY <1>2, RowsHonest
  <2>2. /\ entity \in CampaignRow /\ Honest(c, entity)
        /\ entity.status # "sent"
    BY <2>1 DEF CampaignRow, Honest, Counter
  <2>3. Save(j, op, c, entity, n)
    BY <1>2
  <2> HIDE DEF entity
  <2>4. QED
    BY <1>2, <2>2, <2>3, SaveStep
<1>3. ASSUME NEW c \in CampaignId, Schedule(j, c)
      PROVE  CampaignInv'
  BY <1>2, <1>3, CampaignAssumption DEF Schedule, CampaignStatus
<1>4. ASSUME NEW c \in CampaignId, NEW n \in 0..MaxRecipients, Send(j, c, n)
      PROVE  CampaignInv'
  BY <1>2, <1>4 DEF Send, CampaignStatus
<1>5. QED
  BY <1>1, <1>3, <1>4 DEF Ask

\* The SELECT of a save.
LEMMA ReloadStep ==
    ASSUME CampaignInv, NEW j \in Job, Reload(j)
    PROVE  CampaignInv'
<1>1. PICK cols : cols = Changed(campaigns[job[j].campaign], job[j].entity)
  OBVIOUS
<1>2. job[j] \in JobHandler /\ JobOK(job[j]) /\ job[j].pc = "reload"
  BY DEF CampaignInv, TypeOK, JobsOK, Reload
<1>3. cols \subseteq CampaignColumn
  <2>1. campaigns[job[j].campaign] \in CampaignRow
    BY <1>2, RowsHonest DEF JobOK
  <2>2. QED
    BY <1>1, <2>1 DEF Changed, CampaignRow, CampaignColumn
<1> DEFINE jb == [job[j] EXCEPT !.pc = "write", !.cols = cols]
<1>4. job' = [job EXCEPT ![j] = jb]
  BY <1>1 DEF Reload
<1>5. jb \in JobHandler
  BY <1>2, <1>3 DEF JobHandler
<1>6. JobOK(jb)
  BY <1>2 DEF JobOK, JobHandler
<1> HIDE DEF jb
<1>7. cutShort' \subseteq CampaignId /\ UNCHANGED <<campaigns, mailed, hits>>
  BY DEF Reload, CampaignInv, TypeOK
<1>8. QED
  BY <1>4, <1>5, <1>6, <1>7, QuietStep

\* The UPDATE of a save mixes two honest rows.
LEMMA WriteStep ==
    ASSUME CampaignInv, NEW j \in Job, Write(j)
    PROVE  CampaignInv'
<1>1. PICK c, entity, cols :
          c = job[j].campaign /\ entity = job[j].entity /\ cols = job[j].cols
  OBVIOUS
<1>2. job[j] \in JobHandler /\ JobOK(job[j]) /\ job[j].pc = "write"
  BY DEF CampaignInv, TypeOK, JobsOK, Write
<1>3. /\ c \in CampaignId /\ Exists(c)
      /\ entity \in CampaignRow /\ Honest(c, entity)
  BY <1>1, <1>2 DEF JobOK
<1>4. campaigns[c] \in CampaignRow /\ Honest(c, campaigns[c])
  BY <1>3, RowsHonest
<1>5. PICK p : p = Patch(campaigns[c], entity, cols)
  OBVIOUS
<1>6. p \in CampaignRow /\ Honest(c, p)
  BY <1>3, <1>4, <1>5, PatchHonest
<1>7. PICK jb : jb = IF job[j].op = "send"
                     THEN [job[j] EXCEPT !.pc = "mail", !.cols = {}]
                     ELSE NoJob
  OBVIOUS
<1>8. /\ campaigns' = [campaigns EXCEPT ![c] = p]
      /\ job' = [job EXCEPT ![j] = jb]
      /\ mailed' = mailed /\ hits' = hits /\ cutShort' = cutShort
  BY <1>1, <1>5, <1>7 DEF Write
<1>9. jb \in JobHandler /\ JobOK(jb)
  BY <1>2, <1>7, NoJobOK DEF JobHandler, JobOK
<1>10. \A d \in CampaignId :
          /\ campaigns'[d] = IF d = c THEN p ELSE campaigns[d]
          /\ Exists(d) => Exists(d)'
  BY <1>3, <1>6, <1>8, CampaignRowAssumption
     DEF CampaignInv, TypeOK, Exists
<1>11. TypeOK'
  BY <1>6, <1>8, <1>9 DEF CampaignInv, TypeOK
<1>12. Grows
  <2>1. \A d \in CampaignId : /\ mailed[d] \in Int
                              /\ \A k \in Counter : hits[k][d] \in Int
    BY DEF CampaignInv, TypeOK
  <2>2. QED
    BY <1>8, <1>10, <2>1 DEF Grows
<1>13. JobOK(jb)'
  BY <1>9, <1>11, <1>12, JobStable DEF CampaignInv
<1>14. JobsOK'
  BY <1>8, <1>11, <1>12, <1>13, JobsStep
<1>15. \A d \in CampaignId : Exists(d)' => Honest(d, campaigns[d])'
  <2> SUFFICES ASSUME NEW d \in CampaignId, Exists(d)'
               PROVE  Honest(d, campaigns[d])'
    OBVIOUS
  <2>1. Exists(d)
    BY <1>3, <1>10 DEF Exists
  <2>2. Honest(d, campaigns[d])
    BY <2>1, RowsHonest
  <2>3. QED
    BY <1>6, <1>8, <1>10, <2>2 DEF Honest
<1>16. CountersNotInflated' /\ ClaimsWereMailed'
  BY <1>15 DEF CountersNotInflated, ClaimsWereMailed, Honest
<1>17. QED
  BY <1>11, <1>14, <1>16 DEF CampaignInv

\* A mail that is accepted, and one that is not.
LEMMA MailOneStep ==
    ASSUME CampaignInv, NEW j \in Job, MailOne(j)
    PROVE  CampaignInv'
<1>1. /\ job[j] \in JobHandler /\ JobOK(job[j])
      /\ job[j].pc = "mail" /\ job[j].todo > 0
      /\ job[j].campaign \in CampaignId
  BY DEF CampaignInv, TypeOK, JobsOK, JobOK, MailOne
<1>2. CASE /\ job' = [job EXCEPT ![j].todo = @ - 1]
           /\ UNCHANGED <<campaigns, mailed, hits, cutShort>>
  <2> DEFINE jb == [job[j] EXCEPT !.todo = @ - 1]
  <2>1. job' = [job EXCEPT ![j] = jb]
    BY <1>2
  <2>2. jb \in JobHandler
    BY <1>1, CampaignAssumption DEF JobHandler
  <2>3. JobOK(jb)
    BY <1>1, CampaignAssumption DEF JobOK, JobHandler
  <2> HIDE DEF jb
  <2>4. cutShort' \subseteq CampaignId
    BY <1>2 DEF CampaignInv, TypeOK
  <2>5. QED
    BY <1>2, <2>1, <2>2, <2>3, <2>4, QuietStep
<1>3. CASE /\ mailed[job[j].campaign] < MaxMails
           /\ mailed' = [mailed EXCEPT ![job[j].campaign] = @ + 1]
           /\ job' = [job EXCEPT ![j].todo = @ - 1, ![j].sent = @ + 1]
           /\ UNCHANGED <<campaigns, hits, cutShort>>
  <2> PICK jb : jb = [job[j] EXCEPT !.todo = @ - 1, !.sent = @ + 1]
    OBVIOUS
  <2>1. job' = [job EXCEPT ![j] = jb]
    BY <1>3 DEF CampaignInv, TypeOK
  <2>2. jb \in JobHandler
    <3>1. /\ job[j].todo \in 0..MaxRecipients
          /\ job[j].sent \in 0..MaxRecipients
          /\ job[j].sent + job[j].todo <= MaxRecipients
      BY <1>1 DEF JobHandler, JobOK
    <3>2. /\ job[j].todo - 1 \in 0..MaxRecipients
          /\ job[j].sent + 1 \in 0..MaxRecipients
      BY <1>1, <3>1, CampaignAssumption
    <3>3. QED
      BY <1>1, <3>2 DEF JobHandler
  <2>3. \A c \in CampaignId :
          /\ mailed[c] \in 0..MaxMails
          /\ mailed'[c] = IF c = job[j].campaign THEN mailed[c] + 1
                                                 ELSE mailed[c]
    BY <1>1, <1>3 DEF CampaignInv, TypeOK
  <2>4. TypeOK'
    <3>1. \A c \in CampaignId : mailed'[c] \in 0..MaxMails
      BY <1>1, <1>3, <2>3, CampaignAssumption
    <3>2. mailed' \in [CampaignId -> 0..MaxMails]
      BY <1>3, <3>1 DEF CampaignInv, TypeOK
    <3>3. job' \in [Job -> JobHandler]
      BY <2>1, <2>2 DEF CampaignInv, TypeOK
    <3>4. QED
      BY <1>3, <3>2, <3>3 DEF CampaignInv, TypeOK
  <2>5. Grows
    <3>1. \A c \in CampaignId, k \in Counter : hits[k][c] \in Int
      BY DEF CampaignInv, TypeOK
    <3>2. QED
      BY <1>3, <2>3, <3>1 DEF Grows, Exists
  <2>6. JobOK(jb)'
    <3>1. JobOK(job[j]) /\ job[j].sent <= mailed[job[j].campaign]
      BY <1>1 DEF JobOK
    <3>2. PICK ji \in JobHandler : ji = job[j]
      BY <1>1
    <3>3. JobOK(ji)'
      BY <2>4, <2>5, <3>1, <3>2, JobStable DEF CampaignInv
    <3>4. /\ jb.pc = ji.pc /\ jb.op = ji.op /\ jb.campaign = ji.campaign
          /\ jb.entity = ji.entity
          /\ jb.todo = ji.todo - 1 /\ jb.sent = ji.sent + 1
      BY <3>2 DEF JobHandler
    <3>5. /\ ji.sent \in Int /\ ji.todo \in Int /\ ji.todo > 0
          /\ ji.pc = "mail" /\ ji.sent + 1 <= mailed'[ji.campaign]
      BY <1>1, <2>3, <3>1, <3>2 DEF JobHandler
    <3>6. QED
      BY <3>3, <3>4, <3>5, CampaignAssumption DEF JobOK
  <2>7. JobsOK'
    BY <2>1, <2>4, <2>5, <2>6, JobsStep
  <2>8. ClaimsWereMailed'
    BY <1>3, <2>3
       DEF CampaignInv, TypeOK, ClaimsWereMailed, Exists, CampaignRow
  <2>9. CountersNotInflated'
    BY <1>3 DEF CampaignInv, CountersNotInflated, Exists
  <2>10. QED
    BY <2>4, <2>7, <2>8, <2>9 DEF CampaignInv
<1>4. QED
  BY <1>2, <1>3 DEF MailOne

\* The result of a send is no more than what was mailed.
LEMMA FinishStep ==
    ASSUME CampaignInv, NEW j \in Job, Finish(j)
    PROVE  CampaignInv'
<1>1. /\ job[j] \in JobHandler /\ JobOK(job[j])
      /\ job[j].pc = "mail" /\ job[j].todo = 0
  BY DEF CampaignInv, TypeOK, JobsOK, Finish
<1>2. PICK entity : entity = Finished(job[j].entity, job[j].sent)
  OBVIOUS
<1>3. /\ job[j].entity \in CampaignRow
      /\ Honest(job[j].campaign, job[j].entity)
      /\ job[j].sent \in 0..MaxRecipients
      /\ job[j].sent <= mailed[job[j].campaign]
  BY <1>1 DEF JobOK, JobHandler
<1>4. entity \in CampaignRow /\ Honest(job[j].campaign, entity)
  BY <1>2, <1>3 DEF Finished, CampaignRow, CampaignStatus, Honest, Counter
<1> DEFINE jb == [job[j] EXCEPT !.pc = "reload", !.op = "finish",
                                !.entity = entity]
<1>5. job' = [job EXCEPT ![j] = jb]
  BY <1>2 DEF Finish, CampaignInv, TypeOK
<1>6. jb \in JobHandler
  BY <1>1, <1>4 DEF JobHandler
<1>7. JobOK(jb)
  BY <1>1, <1>4 DEF JobOK, JobHandler
<1> HIDE DEF jb
<1>8. cutShort' \subseteq CampaignId /\ UNCHANGED <<campaigns, mailed, hits>>
  BY DEF Finish, CampaignInv, TypeOK
<1>9. QED
  BY <1>5, <1>6, <1>7, <1>8, QuietStep

\* A step that leaves the requests alone keeps the invariant if it replaces
\* one row by an honest one.
LEMMA RowStep ==
    ASSUME CampaignInv, NEW c \in CampaignId, NEW row \in CampaignRow,
           campaigns' = [campaigns EXCEPT ![c] = row], TypeOK', Grows,
           Honest(c, row)', UNCHANGED <<job, mailed>>
    PROVE  CampaignInv'
<1>1. \A d \in CampaignId :
          campaigns'[d] = IF d = c THEN row ELSE campaigns[d]
  BY DEF CampaignInv, TypeOK
<1>2. JobsOK'
  <2> SUFFICES ASSUME NEW j \in Job
               PROVE  JobOK(job[j])'
    BY DEF JobsOK
  <2>1. PICK jb \in JobHandler : jb = job[j]
    BY DEF CampaignInv, TypeOK
  <2>2. JobOK(jb)'
    BY <2>1, JobStable DEF CampaignInv, JobsOK
  <2>3. QED
    BY <2>1, <2>2
<1>3. \A d \in CampaignId : Exists(d)' => Honest(d, campaigns[d])'
  <2> SUFFICES ASSUME NEW d \in CampaignId, Exists(d)', d # c
               PROVE  Honest(d, campaigns[d])'
    BY <1>1
  <2>1. Exists(d) /\ campaigns'[d] = campaigns[d]
    BY <1>1 DEF Exists
  <2>2. PICK r \in CampaignRow : r = campaigns[d] /\ Honest(d, r)
    BY <2>1, RowsHonest
  <2>3. Honest(d, r)'
    BY <2>2, HonestStable DEF CampaignInv
  <2>4. QED
    BY <2>1, <2>2, <2>3
<1>4. CountersNotInflated' /\ ClaimsWereMailed'
  BY <1>3 DEF CountersNotInflated, ClaimsWereMailed, Honest
<1>5. QED
  BY <1>2, <1>4 DEF CampaignInv

\* A new campaign claims nothing.
LEMMA CreateStep ==
    ASSUME CampaignInv, NEW c \in CampaignId, NEW b \in Body, Create(c, b)
    PROVE  CampaignInv'
<1>1. Draft(b) \in CampaignRow
  BY CampaignAssumption DEF Draft, CampaignRow, CampaignStatus
<1>2. /\ campaigns' = [campaigns EXCEPT ![c] = Draft(b)]
      /\ UNCHANGED <<job, mailed, hits, cutShort>>
  BY DEF Create
<1>3. TypeOK'
  BY <1>1, <1>2 DEF CampaignInv, TypeOK
<1>4. \A d \in CampaignId :
          /\ mailed[d] \in Nat
          /\ \A k \in Counter : hits[k][d] \in Nat
          /\ Exists(d) => Exists(d)'
  BY <1>1, <1>2, CampaignRowAssumption DEF CampaignInv, TypeOK, Exists
<1>5. Grows
  BY <1>2, <1>4 DEF Grows
<1>6. Honest(c, Draft(b))'
  BY <1>2, <1>4 DEF Honest, Draft, Counter
<1>7. QED
  BY <1>1, <1>2, <1>3, <1>5, <1>6, RowStep

\* A hit is counted in the row and in the world at once.
LEMMA TrackStep ==
    ASSUME CampaignInv, NEW c \in CampaignId, NEW k \in Counter, Track(c, k)
    PROVE  CampaignInv'
<1>1. /\ campaigns[c] \in CampaignRow /\ Honest(c, campaigns[c])
      /\ campaigns' = [campaigns EXCEPT ![c] = Hit(campaigns[c], k)]
      /\ hits' = [hits EXCEPT ![k][c] = @ + 1]
      /\ UNCHANGED <<job, mailed, cutShort>>
  BY RowsHonest DEF Track
<1>2. \A d \in CampaignId, l \in Counter :
          /\ mailed[d] \in Int /\ hits[l][d] \in 0..MaxHits
          /\ hits'[l][d] = IF l = k /\ d = c THEN hits[l][d] + 1
                                            ELSE hits[l][d]
  BY <1>1 DEF CampaignInv, TypeOK
<1>3. hits[k][c] + 1 \in 0..MaxHits
  <2>1. hits["totalOpened"][c] + hits["totalClicked"][c] < MaxHits
    BY DEF Track
  <2>2. /\ hits["totalOpened"][c] \in 0..MaxHits
        /\ hits["totalClicked"][c] \in 0..MaxHits
    BY <1>2 DEF Counter
  <2>3. QED
    BY <2>1, <2>2, CampaignAssumption DEF Counter
<1>4. PICK row : row = Hit(campaigns[c], k)
  OBVIOUS
<1>5. /\ row.totalSent = campaigns[c].totalSent
      /\ \A l \in Counter : row[l] = IF l = k THEN campaigns[c][l] + 1
                                             ELSE campaigns[c][l]
  BY <1>1, <1>4 DEF Hit, Counter, CampaignRow
<1>6. row \in CampaignRow
  <2>1. campaigns[c][k] + 1 \in 0..MaxHits
    <3>1. campaigns[c][k] \in 0..MaxHits /\ campaigns[c][k] <= hits[k][c]
      BY <1>1 DEF Honest, CampaignRow, Counter
    <3>2. QED
      BY <1>2, <1>3, <3>1, CampaignAssumption
  <2>2. QED
    BY <1>1, <1>4, <2>1 DEF Hit, CampaignRow, Counter
<1>7. hits' \in [Counter -> [CampaignId -> 0..MaxHits]]
  BY <1>1, <1>3 DEF CampaignInv, TypeOK
<1>8. campaigns' \in [CampaignId -> CampaignRow \cup {None}]
  BY <1>1, <1>4, <1>6 DEF CampaignInv, TypeOK
<1>9. TypeOK'
  BY <1>1, <1>7, <1>8 DEF CampaignInv, TypeOK
<1>10. Grows
  <2>1. \A d \in CampaignId : Exists(d) => Exists(d)'
    BY <1>1, <1>4, <1>6, CampaignRowAssumption DEF CampaignInv, TypeOK, Exists
  <2>2. QED
    BY <1>1, <1>2, <2>1 DEF Grows
<1>11. Honest(c, row)'
  <2>1. \A l \in Counter : row[l] <= hits'[l][c]
    <3>1. \A l \in Counter : campaigns[c][l] \in Int
      BY <1>1 DEF CampaignRow, Counter
    <3>2. QED
      BY <1>1, <1>2, <1>5, <3>1 DEF Honest
  <2>2. QED
    BY <1>1, <1>5, <2>1 DEF Honest
<1>12. QED
  BY <1>1, <1>4, <1>6, <1>9, <1>10, <1>11, RowStep

\* Nothing has happened when the service starts.
LEMMA CampaignInit == Init => CampaignInv
<1> SUFFICES ASSUME Init
             PROVE  CampaignInv
  OBVIOUS
<1>1. TypeOK
  BY NoJobOK, CampaignAssumption DEF Init, TypeOK
<1>2. CountersNotInflated /\ ClaimsWereMailed
  BY DEF Init, CountersNotInflated, ClaimsWereMailed, Exists
<1>3. JobsOK
  BY NoJobOK DEF Init, JobsOK
<1>4. QED
  BY <1>1, <1>2, <1>3 DEF CampaignInv

\* Every step keeps the invariant.
LEMMA CampaignNext == CampaignInv /\ [Next]_vars => CampaignInv'
<1> SUFFICES ASSUME CampaignInv, [Next]_vars
             PROVE  CampaignInv'
  OBVIOUS
<1>1. ASSUME NEW j \in Job, Continue(j)
      PROVE  CampaignInv'
  BY <1>1, ReloadStep, WriteStep, MailOneStep, FinishStep DEF Continue
<1>2. ASSUME NEW j \in Job, JobFails(j)
      PROVE  CampaignInv'
  <2>1. cutShort' \subseteq CampaignId
    <3>1. JobOK(job[j])
      BY DEF CampaignInv, JobsOK
    <3>2. job[j].op \in {"send", "finish"} => job[j].campaign \in CampaignId
      BY <3>1 DEF JobOK
    <3>3. QED
      BY <1>2, <3>2 DEF JobFails, CampaignInv, TypeOK
  <2>2. QED
    BY <1>2, <2>1, NoJobOK, QuietStep DEF JobFails
<1>3. CASE UNCHANGED vars
  BY <1>3 DEF vars, CampaignInv, TypeOK, CountersNotInflated,
     ClaimsWereMailed, JobsOK, JobOK, Honest, Exists
<1>4. QED
  BY <1>1, <1>2, <1>3, AskStep, CreateStep, TrackStep DEF Next

\* The invariant holds in every state the service can reach.
THEOREM CampaignInvariance == Spec => []CampaignInv
BY CampaignInit, CampaignNext, PTL DEF Spec

\* Every variable of Campaign keeps its type.
THEOREM CampaignTypeCorrect == Spec => []TypeOK
<1>1. CampaignInv => TypeOK
  BY DEF CampaignInv
<1>2. QED
  BY <1>1, CampaignInvariance, PTL

\* However stale the counters that sends and edits write back, no campaign
\* claims an open or a click that did not happen.
THEOREM NoHitInvented == Spec => []CountersNotInflated
<1>1. CampaignInv => CountersNotInflated
  BY DEF CampaignInv
<1>2. QED
  BY <1>1, CampaignInvariance, PTL

\* However sends of one campaign overlap, it claims no mail that no provider
\* accepted.
THEOREM NoMailInvented == Spec => []ClaimsWereMailed
<1>1. CampaignInv => ClaimsWereMailed
  BY DEF CampaignInv
<1>2. QED
  BY <1>1, CampaignInvariance, PTL

\* Only a send that has tried all its recipients turns a campaign SENT.
THEOREM SentIsEarned == Spec => SentOnceTried
<1> DEFINE Earned(c) ==
        ~Shows(c, "sent") /\ Shows(c, "sent")'
        => \E j \in Job : /\ job[j].campaign = c
                          /\ job[j].op = "finish"
                          /\ job[j].todo = 0
<1>1. ASSUME CampaignInv, NEW j \in Job, Write(j), NEW c \in CampaignId
      PROVE  Earned(c)
  <2> SUFFICES ASSUME ~Shows(c, "sent"), Shows(c, "sent")'
               PROVE  /\ job[j].campaign = c
                      /\ job[j].op = "finish" /\ job[j].todo = 0
    OBVIOUS
  <2>1. JobOK(job[j]) /\ job[j].pc = "write"
    BY <1>1 DEF CampaignInv, JobsOK, Write
  <2>2. job[j].campaign = c
    BY <1>1 DEF Write, CampaignInv, TypeOK, Shows, Exists
  <2>3. campaigns'[c] = Patch(campaigns[c], job[j].entity, job[j].cols)
    BY <1>1, <2>2 DEF Write, CampaignInv, TypeOK
  <2>4. campaigns'[c].status \in {campaigns[c].status, job[j].entity.status}
    BY <1>1, <2>1, <2>2, <2>3, RowsHonest, PatchHonest DEF JobOK
  <2>5. job[j].entity.status = "sent"
    BY <1>1, <2>1, <2>2, <2>4 DEF Shows, JobOK
  <2>6. QED
    BY <2>1, <2>2, <2>5 DEF JobOK
<1>2. ASSUME CampaignInv, NEW d \in CampaignId, NEW k \in Counter,
             Track(d, k), NEW c \in CampaignId
      PROVE  Earned(c)
  <2>1. campaigns[d] \in CampaignRow
    BY <1>2, RowsHonest DEF Track
  <2>2. Hit(campaigns[d], k).status = campaigns[d].status
    BY <2>1 DEF Hit, CampaignRow, Counter
  <2>3. QED
    BY <1>2, <2>2 DEF Track, CampaignInv, TypeOK, Shows, Exists
<1>3. ASSUME CampaignInv, NEW d \in CampaignId, NEW b \in Body,
             Create(d, b), NEW c \in CampaignId
      PROVE  Earned(c)
  BY <1>3 DEF Create, Draft, CampaignInv, TypeOK, Shows, Exists
<1>4. ASSUME UNCHANGED campaigns, NEW c \in CampaignId
      PROVE  Earned(c)
  BY <1>4 DEF Shows, Exists
<1>5. ASSUME CampaignInv, [Next]_vars, NEW c \in CampaignId
      PROVE  Earned(c)
  <2>1. \A j \in Job : Ask(j) \/ Reload(j) \/ MailOne(j) \/ Finish(j)
                          \/ JobFails(j) => UNCHANGED campaigns
    BY DEF Ask, Update, Schedule, Send, Save, Reload, MailOne, Finish, JobFails
  <2>2. UNCHANGED vars => UNCHANGED campaigns
    BY DEF vars
  <2> HIDE DEF Earned
  <2>3. QED
    BY <1>1, <1>2, <1>3, <1>4, <1>5, <2>1, <2>2 DEF Next, Continue
<1>6. CampaignInv /\ [Next]_vars
          => [\A c \in CampaignId :
                 ~Shows(c, "sent") /\ Shows(c, "sent")'
                 => \E j \in Job : /\ job[j].campaign = c
                                   /\ job[j].op = "finish"
                                   /\ job[j].todo = 0]_vars
  BY <1>5
<1>7. QED
  BY <1>6, CampaignInvariance, PTL DEF Spec, SentOnceTried
=============================================================================
