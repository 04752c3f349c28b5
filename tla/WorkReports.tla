----------------------------- MODULE WorkReports -----------------------------
(***************************************************************************)
(* One work report of one day and slot (core/work-report-scheduler.ts):    *)
(* its row in work_reports, the tasks that write it, the tick of the       *)
(* scheduler, calls of POST /api/work-reports/issue, and people who hand   *)
(* in a report themselves (server/routes/work-reports.ts).                 *)
(*                                                                         *)
(* The other reports of the day show in what they do to this one: while    *)
(* their tasks are posted, one every five seconds, a tick and a call wait. *)
(* A report that is late counts as submitted; one of a subject that is not *)
(* active is waived and left out, nobody works on it.                      *)
(***************************************************************************)
EXTENDS Integers

CONSTANTS MaxTasks,        \* bound: rows of table tasks that carry the id of the report
          MaxRedispatches, \* MAX_REDISPATCH_ATTEMPTS
          MaxFailures      \* bound: crashes and exceptions

ASSUME ReportsAreBounded == {MaxTasks, MaxRedispatches, MaxFailures} \subseteq Nat

Tasks  == 1 .. MaxTasks
None   == 0
Person == -1

Dispatchers == {"tick", "call"}

VARIABLES
  report,    \* the row: [status, by, link, attempts, backoff]
  row,       \* the tasks: not there, active, delivered (completed with a text), failed
  clock,     \* before the deadline with its grace, behind it, a later day, out of sight
  day,       \* the clock when the tick began
  at,        \* what a dispatcher awaits
  got,       \* the task in the answer to its POST
  tried,     \* attemptedReportIds
  failures,    \* bounded
  unpaid       \* history: POSTs that were neither counted nor followed by a failure

reportVars == <<report, row, clock, day, at, got, tried, failures, unpaid>>

ReportInit ==
  /\ report = [status |-> "none", by |-> None, link |-> None, attempts |-> 0, backoff |-> FALSE]
  /\ row = [t \in Tasks |-> "none"]
  /\ clock = "open" /\ day = "open"
  /\ at = [d \in Dispatchers |-> "idle"]
  /\ got = [d \in Dispatchers |-> None]
  /\ tried = FALSE
  /\ failures = 0 /\ unpaid = 0

-----------------------------------------------------------------------------
(* The row                                                                 *)

Issued == [report EXCEPT !.status = "pending"]

\* Mutant: a report that is there already is collected once more.
CollectsAnything(r) == r.status # "none"

\* Mutant: what was missed stays missed.
CollectsPending(r) == r.status = "pending"

Collects(r) == r.status \in {"pending", "missed"}

\* ingestCompletedReportTasks(): an answer is handed in, a failed task unlinked.
\* It looks two days back from the day of the tick.
Ingested(r, today) ==
  IF ~Collects(r) \/ r.link = None \/ today = "out of sight" THEN r
  ELSE IF row[r.link] = "delivered" THEN [r EXCEPT !.status = "submitted", !.by = r.link]
  ELSE IF row[r.link] = "failed" /\ r.status = "pending" THEN [r EXCEPT !.link = None]
  ELSE r

\* Mutant: a report whose last attempt has failed goes out at once.
SelectsWithoutEnd(r) == r.status = "pending" /\ r.link = None /\ ~r.backoff

\* The rows of redispatchUnlinked...Reports().
Selects(r) ==
  r.status = "pending" /\ r.link = None /\ r.attempts < MaxRedispatches /\ ~r.backoff

\* finalizeMissedWorkReports()
Finalized(r, time) ==
  IF r.status = "pending" /\ time # "open" THEN [r EXCEPT !.status = "missed"] ELSE r

-----------------------------------------------------------------------------
(* The tick                                                                *)

Goes(d, place) == at' = [at EXCEPT ![d] = place]

\* ingest and the selection of what is redispatched run in one turn; only
\* reports of the tick's own day are, by an executor whose circuit is closed.
Reconciles(today) ==
  /\ report' = Ingested(report, today)
  /\ \/ Selects(report') /\ today \in {"open", "over"} /\ Goes("tick", "waiting")
     \/ Goes("tick", "others")

\* reconcileScheduledRuns(): the first tick of the day issues the reports, unless
\* some are there.
Tick ==
  /\ at["tick"] = "idle"
  /\ day' = clock /\ tried' = FALSE
  /\ IF report.status = "none"
     THEN /\ clock \in {"open", "over"}
          /\ report' = Issued /\ \E next \in {"issuing", "issued"} : Goes("tick", next)
     ELSE Reconciles(clock)
  /\ UNCHANGED <<row, clock, got, failures, unpaid>>

TickIngests ==
  /\ at["tick"] = "issued"
  /\ Reconciles(day)
  /\ UNCHANGED <<row, clock, day, got, tried, failures, unpaid>>

\* Mutant: only a report that has got a task was tried.
CountsCreated == tried /\ report.link # None

\* The POST was tried, whatever its answer.
Counts == tried

\* The batch is through; what was tried is counted and has to wait.
Counted ==
  /\ at["tick"] = "others"
  /\ IF Counts
     THEN /\ report' = [report EXCEPT !.attempts = @ + 1, !.backoff = TRUE]
          /\ unpaid' = unpaid - 1
     ELSE UNCHANGED <<report, unpaid>>
  /\ tried' = FALSE
  /\ Goes("tick", "finalizing")
  /\ UNCHANGED <<row, clock, day, got, failures>>

\* Mutant: a day is closed on the next one.
FinalizesTomorrow == day = "a later day"

TickFinalizes == day = "over"

\* Other reports may have been posted before. now is the time at which the tick began.
Finalize ==
  /\ at["tick"] = "finalizing"
  /\ report' = IF TickFinalizes THEN Finalized(report, day) ELSE report
  /\ Goes("tick", "idle")
  /\ UNCHANGED <<row, clock, day, got, tried, failures, unpaid>>

-----------------------------------------------------------------------------
(* POST /api/work-reports/issue                                            *)

\* INSERT OR IGNORE: who inserts the row has the candidate.
Call ==
  /\ at["call"] = "idle"
  /\ IF report.status = "none"
     THEN report' = Issued /\ \E next \in {"waiting", "others"} : Goes("call", next)
     ELSE UNCHANGED report /\ Goes("call", "others")
  /\ UNCHANGED <<row, clock, day, got, tried, failures, unpaid>>

CallFinalizes ==
  /\ at["call"] = "others"
  /\ report' = Finalized(report, clock)
  /\ Goes("call", "idle")
  /\ UNCHANGED <<row, clock, day, got, tried, failures, unpaid>>

-----------------------------------------------------------------------------
(* createTeamReportTasks()                                                 *)

Active == {t \in Tasks : row[t] = "active"}
Fresh  == {t \in Tasks : row[t] = "none" /\ \A u \in 1 .. t - 1 : row[u] # "none"}
Started(t) == [row EXCEPT ![t] = "active"]

\* POST /api/task: an active task of the report is the answer
\* (findActiveWorkReportTask(), or the unique index), or a new one, or an error.
Answers(d) ==
  \/ Active # {} /\ UNCHANGED row /\ \E t \in Active : got' = [got EXCEPT ![d] = t]
  \/ /\ Active = {}
     /\ \E t \in Fresh : row' = Started(t) /\ got' = [got EXCEPT ![d] = t]
  \/ UNCHANGED row /\ got' = [got EXCEPT ![d] = None]

\* One POST at a time passes the gate. The circuit is looked at again there; a
\* report that is deferred was not tried.
PostReport(d) ==
  /\ at[d] \in {"waiting", "issuing"}
  /\ \A o \in Dispatchers : at[o] \notin {"posting", "issue posted"}
  /\ \/ /\ Goes(d, IF at[d] = "issuing" THEN "issued" ELSE "others")
        /\ UNCHANGED <<row, got, tried, unpaid>>
     \/ /\ Goes(d, IF at[d] = "issuing" THEN "issue posted" ELSE "posting")
        /\ unpaid' = unpaid + 1
        /\ tried' = (tried \/ (d = "tick" /\ at[d] = "waiting"))
        /\ Answers(d)
  /\ UNCHANGED <<report, clock, day, failures>>

\* A 202 is linked, unless the report has a task.
Answered(d) ==
  /\ at[d] \in {"posting", "issue posted"}
  /\ report' = IF got[d] # None /\ report.link = None THEN [report EXCEPT !.link = got[d]] ELSE report
  /\ got' = [got EXCEPT ![d] = None]
  /\ Goes(d, IF at[d] = "issue posted" THEN "issued" ELSE "others")
  /\ UNCHANGED <<row, clock, day, tried, failures, unpaid>>

-----------------------------------------------------------------------------
(* Tasks, people, time and failures                                        *)

\* The gateway: a task settles; a failed one has a successor of the same report,
\* of which the report is not told.
Settle(t) ==
  /\ row[t] = "active"
  /\ \E end \in {"delivered", "failed"} : row' = [row EXCEPT ![t] = end]
  /\ UNCHANGED <<report, clock, day, at, got, tried, failures, unpaid>>

FailsOver(t) ==
  /\ row[t] = "failed" /\ Active = {}
  /\ \E u \in Fresh : row' = Started(u)
  /\ UNCHANGED <<report, clock, day, at, got, tried, failures, unpaid>>

\* POST /api/work-reports/:id/submit
Submit ==
  /\ report.status # "none"
  /\ report' = [report EXCEPT !.status = "submitted", !.by = Person]
  /\ UNCHANGED <<row, clock, day, at, got, tried, failures, unpaid>>

Time == <<"open", "over", "a later day", "out of sight">>

Passes ==
  /\ \E i \in 1 .. 3 : clock = Time[i] /\ clock' = Time[i + 1]
  /\ UNCHANGED <<report, row, day, at, got, tried, failures, unpaid>>

BackoffEnds ==
  /\ report.backoff
  /\ report' = [report EXCEPT !.backoff = FALSE]
  /\ UNCHANGED <<row, clock, day, at, got, tried, failures, unpaid>>

\* What dispatchers were about is lost.
Stopped(D) == [d \in Dispatchers |-> IF d \in D THEN "idle" ELSE at[d]]

\* A write or an injected request throws; or the process is replaced.
Fails(D) ==
  /\ failures < MaxFailures /\ failures' = failures + 1
  /\ \E d \in D : at[d] # "idle"
  /\ at' = Stopped(D)
  /\ got' = [d \in Dispatchers |-> IF d \in D THEN None ELSE got[d]]
  /\ unpaid' = IF "tick" \in D /\ tried THEN unpaid - 1 ELSE unpaid
  /\ tried' = (tried /\ "tick" \notin D)
  /\ UNCHANGED <<report, row, clock, day>>

Throws == \E d \in Dispatchers : Fails({d})
Replaced  == Fails(Dispatchers)

-----------------------------------------------------------------------------
Runs == TickIngests \/ Counted \/ Finalize \/ PostReport("tick") \/ Answered("tick")
Calls == CallFinalizes \/ PostReport("call") \/ Answered("call")

ReportNext ==
  \/ Tick \/ Runs \/ Call \/ Calls
  \/ \E t \in Tasks : Settle(t) \/ FailsOver(t)
  \/ Submit \/ Passes \/ BackoffEnds \/ Throws \/ Replaced

ReportSpec == ReportInit /\ [][ReportNext]_reportVars

\* The timer ticks every minute, and what a run or a call awaits settles.
FairReportSpec == ReportSpec /\ WF_reportVars(Tick) /\ WF_reportVars(Runs) /\ WF_reportVars(Calls)

-----------------------------------------------------------------------------
(* Properties                                                              *)

Statuses == {"none", "pending", "submitted", "missed"}

ReportTypeOK ==
  /\ report \in [status : Statuses, by : Tasks \cup {None, Person},
                 link : Tasks \cup {None}, attempts : 0 .. MaxRedispatches, backoff : BOOLEAN]
  /\ row \in [Tasks -> {"none", "active", "delivered", "failed"}]
  /\ {clock, day} \subseteq {Time[i] : i \in 1 .. 4}
  /\ at \in [Dispatchers -> {"idle", "issuing", "issue posted", "issued", "waiting",
                             "posting", "others", "finalizing"}]
  /\ got \in [Dispatchers -> Tasks \cup {None}]
  /\ tried \in BOOLEAN
  /\ failures \in 0 .. MaxFailures /\ unpaid \in Int

\* A report that is there stays: no deadline, late answer, tick or call takes it
\* back, and what a person wrote is not replaced by what a task writes.
SubmittedIsKept ==
  [][report.status = "submitted" =>
       report'.status = "submitted" /\ (report.by = Person => report'.by = Person)]_reportVars

\* A report costs one POST when it is issued and one for each of its attempts,
\* whatever is refused, fails over or overlaps; only what a tick has posted before
\* it failed is not counted.
DispatchesAreBounded ==
  /\ unpaid <= 1 + (IF tried THEN 1 ELSE 0)
  /\ tried => report.attempts < MaxRedispatches

\* Whether in time or missed: what the linked task delivers is handed in.
LinkedResultArrives ==
  \A t \in Tasks :
    report.link = t /\ row[t] = "delivered" ~>
      report.status = "submitted" \/ clock = "out of sight"

\* A report that nobody delivers is marked missed on the day it is due.
ReportSettles ==
  report.status = "pending" /\ clock = "over" ~>
    report.status # "pending" \/ clock # "over"

=============================================================================
