---- MODULE SecurityJobs ----
(* The batch jobs of the security monitor: the ledger audit, the risk sweep, the  *)
(* download audit and the inspection of files that were uploaded before there was *)
(* one (security/*-run.ts and what they call).  A job reads, judges, writes an     *)
(* event for each finding on a connection of its own, and raises alerts that      *)
(* nobody waits for until the end; every call may fail, also after its effect,    *)
(* and what it reads changes while it runs.                                       *)
EXTENDS Integers, FiniteSets, FiniteSetsExt

CONSTANTS
  Audited,   \* accounts, actors, account and file pairs, or files, by their ids
  Group,      \* the query that shows a subject: its rule's, or that of its kind of file
  BatchSize,  \* files on a page of listReady
  MaxRuns,    \* runs, one after another
  MaxChanges, \* subjects that change meanwhile
  MaxAlerts   \* alerts under way at a time

ASSUME JobAssumption ==
  /\ Audited \subseteq Nat \ {0} /\ IsFiniteSet(Audited)
  /\ Group \in [Audited -> 1..3]
  /\ BatchSize \in Nat \ {0} /\ MaxRuns \in Nat
  /\ MaxChanges \in Nat /\ MaxAlerts \in Nat

VARIABLES
  kind,         \* which of the jobs a behaviour is about
  ready,        \* files that are served; the subjects of the other jobs always are
  quarantined,  \* files that a job has taken out of service
  unclean,      \* subjects a rule or the inspection objects to
  ledger,       \* security_events: subject and decision
  alerts,       \* pendingAlerts
  job,          \* the process
  standing,     \* history: findings when the run began that nobody else has touched
  runs,         \* history: runs so far, and whether one of them ended in an error
  changes       \* history: for the bound

jobVars == <<kind, ready, quarantined, unclean, ledger, alerts, job, standing, runs, changes>>

-----------------------------------------------------------------------------
Kinds == {"ledger", "risk", "downloads", "backfill"}
Queries(k) == CASE k = "risk" -> 3 [] k = "backfill" -> 2 [] OTHER -> 1
Scope == {s \in Audited : Group[s] <= Queries(kind)}

(* What a rule or the inspection says of a subject; a file keeps the bytes it was *)
(* inspected with, and one that is not ready yet is inspected before it is.       *)
Rejected(s) == s \in unclean
Findings == {s \in ready : Rejected(s)}

Idle == [apply |-> FALSE, at |-> "idle", query |-> 1, after |-> 0, batch |-> {}, full |-> FALSE,
         subject |-> 0, decision |-> "allow", recorded |-> {}, failed |-> FALSE, code |-> 0]

JobsInit ==
  /\ kind \in Kinds
  /\ unclean \in SUBSET Audited
  /\ ready \in SUBSET Audited /\ unclean \subseteq ready
  /\ kind # "backfill" => ready = Audited
  /\ quarantined = {} /\ ledger = {} /\ alerts = {} /\ standing = {} /\ changes = 0
  /\ job = Idle /\ runs = [count |-> 0, failed |-> FALSE]

(* An operator or the scheduler starts the job, the backfill with or without --apply. *)
StartJob(apply) ==
  /\ job.at \in {"idle", "ended"} /\ runs.count < MaxRuns
  /\ apply => kind = "backfill"
  /\ job' = [Idle EXCEPT !.apply = apply, !.at = "reading"]
  /\ standing' = Findings \cap Scope
  /\ runs' = [runs EXCEPT !.count = @ + 1]
  /\ UNCHANGED <<kind, ready, quarantined, unclean, ledger, alerts, changes>>

(* The next query of an audit or a sweep; after the last one the rows are judged. *)
ReadRows ==
  /\ job.at = "reading"
  /\ job' = [job EXCEPT !.batch = @ \cup {s \in Findings : Group[s] = job.query},
                        !.query = @ + 1,
                        !.at = IF job.query = Queries(kind) THEN "judging" ELSE "reading"]
  /\ UNCHANGED <<kind, ready, quarantined, unclean, ledger, alerts, standing, runs, changes>>

(* readLedgerBalances: balances and the sums of their entries from one snapshot,  *)
(* and the accounts where they differ (diffAccountBalances).                      *)
ReadLedgerBalances == kind = "ledger" /\ ReadRows

(* runRiskSweep: refunds, purchases of one's own listings and rapid refunds, each *)
(* read at a moment of its own, and the actors whom a rule names.                 *)
ReadAggregates == kind = "risk" /\ ReadRows

(* runDownloadAudit: links issued by account and file. *)
ReadPatterns == kind = "downloads" /\ ReadRows

(* listReady: the next page by id. *)
Page == LET rest == {s \in ready : Group[s] = job.query /\ s > job.after}
        IN  {s \in rest : Cardinality({t \in rest : t < s}) < BatchSize}

(* The loop over one kind of file ends; the other kind comes next, or the report. *)
NextKind == IF job.query < Queries("backfill")
              THEN [job EXCEPT !.query = @ + 1, !.after = 0, !.at = "reading"]
              ELSE [job EXCEPT !.at = "reporting"]

ListReady ==
  /\ job.at = "reading" /\ kind = "backfill"
  /\ job' = IF Page = {} THEN NextKind
            ELSE [job EXCEPT !.batch = Page, !.full = Cardinality(Page) >= BatchSize, !.at = "judging"]
  /\ UNCHANGED <<kind, ready, quarantined, unclean, ledger, alerts, standing, runs, changes>>

(* The batch is done: a page shorter than the limit was the last. *)
EndOfBatch ==
  /\ job.at = "judging" /\ job.batch = {}
  /\ job' = IF kind # "backfill" THEN [job EXCEPT !.at = "reporting"]
            ELSE IF job.full THEN [job EXCEPT !.at = "reading"] ELSE NextKind
  /\ UNCHANGED <<kind, ready, quarantined, unclean, ledger, alerts, standing, runs, changes>>

(* The next row.  A file is inspected: its object may be missing, or the store or *)
(* the scanner not answer, and then it is counted and passed over.                *)
Judge(answers) ==
  /\ job.at = "judging" /\ job.batch # {}
  /\ LET s    == Min(job.batch)
         next == [job EXCEPT !.batch = @ \ {s}, !.subject = s, !.decision = "allow"]
         file == [next EXCEPT !.after = s]
     IN  IF kind # "backfill"
           THEN answers /\ job' = [next EXCEPT !.at = "recording"]
           ELSE job' = IF ~answers THEN [file EXCEPT !.failed = TRUE]
                       ELSE IF ~Rejected(s) THEN file
                       ELSE [file EXCEPT !.at = IF job.apply THEN "quarantining" ELSE "recording"]
  /\ UNCHANGED <<kind, ready, quarantined, unclean, ledger, alerts, standing, runs, changes>>

(* The UPDATE takes a file out of service unless it is not ready any more.  When  *)
(* it fails, or its answer is lost, the run is over.                              *)
Quarantine(answers, takesEffect) ==
  LET hit == takesEffect /\ job.subject \in ready IN
  /\ job.at = "quarantining"
  /\ answers => takesEffect
  /\ ready' = IF hit THEN ready \ {job.subject} ELSE ready
  /\ quarantined' = IF hit THEN quarantined \cup {job.subject} ELSE quarantined
  /\ job' = IF answers
              THEN [job EXCEPT !.decision = IF hit THEN "deny" ELSE "allow", !.at = "recording"]
              ELSE [job EXCEPT !.code = 1, !.at = "closing"]
  /\ UNCHANGED <<kind, unclean, ledger, alerts, standing, runs, changes>>

(* Mutant: recordSecurityEvent, which reports a failure to the log only. *)
Record_OnlyLogs(answers, takesEffect, severe) ==
  /\ job.at = "recording"
  /\ answers => takesEffect
  /\ severe => Cardinality(alerts) < MaxAlerts
  /\ ledger' = IF takesEffect THEN ledger \cup {<<job.subject, job.decision>>} ELSE ledger
  /\ alerts' = IF answers /\ severe THEN alerts \cup {job.subject} ELSE alerts
  /\ job' = [job EXCEPT !.recorded = IF answers THEN @ \cup {job.subject} ELSE @, !.at = "judging"]
  /\ UNCHANGED <<kind, ready, quarantined, unclean, standing, runs, changes>>

(* persistSecurityEvent: a row, and an alert if it is severe enough; a failure is *)
(* counted and the job goes on.                                                   *)
Record(answers, takesEffect, severe) ==
  /\ job.at = "recording"
  /\ answers => takesEffect
  /\ severe => Cardinality(alerts) < MaxAlerts
  /\ ledger' = IF takesEffect THEN ledger \cup {<<job.subject, job.decision>>} ELSE ledger
  /\ alerts' = IF answers /\ severe THEN alerts \cup {job.subject} ELSE alerts
  /\ job' = IF answers
              THEN [job EXCEPT !.recorded = @ \cup {job.subject}, !.at = "judging"]
              ELSE [job EXCEPT !.failed = TRUE, !.at = "judging"]
  /\ UNCHANGED <<kind, ready, quarantined, unclean, standing, runs, changes>>

(* The summary, and the exit code of a run that lost something. *)
Report ==
  /\ job.at = "reporting"
  /\ job' = [job EXCEPT !.code = IF job.failed THEN 1 ELSE 0, !.at = "closing"]
  /\ UNCHANGED <<kind, ready, quarantined, unclean, ledger, alerts, standing, runs, changes>>

(* A query of the job itself fails and leaves the loop. *)
ReadFails ==
  /\ job.at = "reading"
  /\ job' = [job EXCEPT !.code = 1, !.at = "closing"]
  /\ UNCHANGED <<kind, ready, quarantined, unclean, ledger, alerts, standing, runs, changes>>

(* An alert was delivered, suppressed, refused or timed out. *)
AlertSettles(s) ==
  /\ s \in alerts
  /\ alerts' = alerts \ {s}
  /\ UNCHANGED <<kind, ready, quarantined, unclean, ledger, job, standing, runs, changes>>

Exit(code) ==
  /\ job' = [job EXCEPT !.code = code, !.at = "ended"]
  /\ runs' = [runs EXCEPT !.failed = @ \/ code # 0]

(* drainSecurityAlerts, then closeRedis and the pools, whose end may fail. *)
CloseConnections(code) ==
  /\ job.at = "closing" /\ alerts = {}
  /\ code \in {job.code, 1}
  /\ Exit(code)
  /\ UNCHANGED <<kind, ready, quarantined, unclean, ledger, alerts, standing, changes>>

(* The process is killed. *)
Kill ==
  /\ job.at \notin {"idle", "ended"}
  /\ Exit(1) /\ alerts' = {}
  /\ UNCHANGED <<kind, ready, quarantined, unclean, ledger, standing, changes>>

(* Meanwhile a file is removed, or completed after the inspection of new files. *)
FileChanges(s) ==
  /\ kind = "backfill" /\ changes < MaxChanges
  /\ \/ s \in ready /\ ready' = ready \ {s}
     \/ s \notin ready \cup quarantined /\ ~Rejected(s) /\ ready' = ready \cup {s}
  /\ standing' = standing \ {s} /\ changes' = changes + 1
  /\ UNCHANGED <<kind, quarantined, unclean, ledger, alerts, job, runs>>

(* An account drifts or is repaired; an actor comes under a rule or leaves its    *)
(* window.                                                                        *)
RowsChange(s) ==
  /\ kind # "backfill" /\ changes < MaxChanges
  /\ unclean' = IF Rejected(s) THEN unclean \ {s} ELSE unclean \cup {s}
  /\ standing' = standing \ {s} /\ changes' = changes + 1
  /\ UNCHANGED <<kind, ready, quarantined, ledger, alerts, job, runs>>

JobsNext ==
  \/ \E apply \in BOOLEAN : StartJob(apply)
  \/ ReadLedgerBalances \/ ReadAggregates \/ ReadPatterns \/ ListReady \/ EndOfBatch \/ Report \/ ReadFails \/ Kill
  \/ \E answers, takesEffect, severe \in BOOLEAN :
       Judge(answers) \/ Quarantine(answers, takesEffect) \/ Record(answers, takesEffect, severe)
  \/ \E code \in {0, 1} : CloseConnections(code)
  \/ \E s \in Audited : AlertSettles(s) \/ FileChanges(s) \/ RowsChange(s)

JobsSpec == JobsInit /\ [][JobsNext]_jobVars

-----------------------------------------------------------------------------
(* A run that exits with 0 has written an event for every finding that was there   *)
(* from its start to its end, and with --apply none of them is served any more     *)
(* (upload-backfill.ts:9-14, upload-backfill-run.ts:19-20: a partial run is never   *)
(* mistaken for a clean one; ledger-audit.ts:90-92); its alerts were not cut off    *)
(* (events.ts:49-50).                                                              *)
CleanRunMissedNothing ==
  job.at = "ended" /\ job.code = 0 =>
    /\ standing \subseteq job.recorded
    /\ job.apply => standing \cap ready = {}
    /\ alerts = {}

(* The ledger does not claim a quarantine that did not happen, and a file that was  *)
(* taken out of service without an event was so by a run that failed or has not     *)
(* ended (upload-backfill.ts:79-88).                                               *)
QuarantinesAreAccounted ==
  /\ \A s \in Audited : <<s, "deny">> \in ledger => s \in quarantined
  /\ \A s \in quarantined : <<s, "deny">> \in ledger \/ runs.failed \/ job.at # "ended"

(* What a job reports is true, and what it does not report was not there. *)
JobsReportAll == CleanRunMissedNothing /\ QuarantinesAreAccounted
====
