---------------------------- MODULE WorkerReports ----------------------------
(***************************************************************************)
(* What the worker manager reports while workers come and go: the list of  *)
(* workers, the worker counts of the throughput metrics, and the answer to *)
(* a heartbeat.  Each is read one hash at a time; the pipelines are no     *)
(* transactions.  One report is followed from its first command to its     *)
(* answer, among requests, sweeps and time that go on as before.           *)
(***************************************************************************)
EXTENDS WorkerRegistry

VARIABLES
    report,   \* which report is in progress
    unseen,   \* workers whose hash it has still to read
    missing,  \* workers it leaves out: no hash, or no status to count
    unparsed, \* workers whose hash lacks a field: the answer is 503
    lost      \* history: workers not listed at some moment of the report

reportVars == <<report, unseen, missing, unparsed, lost>>

-----------------------------------------------------------------------------
\* _row_to_response finds the fields it needs.
Whole(w) == w \in described /\ status[w] # "none" /\ beat[w] # Never

ReportInit ==
    /\ Init
    /\ report = "none"
    /\ unseen = {} /\ missing = {} /\ unparsed = {} /\ lost = {}

\* The ids taken from the keys worker:* in place of the set.
WrongListIds(kind) ==
    /\ report = "none"
    /\ report' = kind
    /\ unseen' = {w \in Workers : Exists(w)}
    /\ UNCHANGED <<vars, missing, unparsed, lost>>

\* list_workers and get_throughput_metrics: SMEMBERS.
ListIds(kind) ==
    /\ report = "none"
    /\ report' = kind
    /\ unseen' = members
    /\ UNCHANGED <<vars, missing, unparsed, lost>>

\* update_health: its HSET, after which it reads the hash back.
ReadBack(q) ==
    /\ report = "none"
    /\ WriteHealth(q)
    /\ report' = "heartbeat"
    /\ unseen' = {request[q].worker}
    /\ lost' = {request[q].worker} \ members
    /\ UNCHANGED <<missing, unparsed>>

\* One HGETALL.  An empty hash is left out of the list, but not expected
\* after a heartbeat; without a field, _row_to_response raises KeyError.
ReadRow(w) ==
    /\ report \in {"list", "heartbeat"} /\ w \in unseen
    /\ unseen' = unseen \ {w}
    /\ CASE Whole(w) -> UNCHANGED <<missing, unparsed>>
         [] ~Exists(w) /\ report = "list" ->
                missing' = missing \union {w} /\ UNCHANGED unparsed
         [] OTHER -> unparsed' = unparsed \union {w} /\ UNCHANGED missing
    /\ UNCHANGED <<vars, report, lost>>

\* One HGET of the status.  Without one the worker is in none of the counts.
ReadStatus(w) ==
    /\ report = "counts" /\ w \in unseen
    /\ unseen' = unseen \ {w}
    /\ missing' = IF status[w] = "none" THEN missing \union {w} ELSE missing
    /\ UNCHANGED <<vars, report, unparsed, lost>>

\* What was left out is not forgotten.
WrongAnswerReport ==
    /\ report # "none"
    /\ report' = "none"
    /\ unseen' = {} /\ unparsed' = {} /\ lost' = {}
    /\ UNCHANGED <<vars, missing>>

\* The report is answered; or one of its commands fails, which is a 503 too.
AnswerReport ==
    /\ report # "none"
    /\ report' = "none"
    /\ unseen' = {} /\ missing' = {} /\ unparsed' = {} /\ lost' = {}
    /\ UNCHANGED vars

\* Everything else goes on.
Meanwhile ==
    /\ (\E q \in Slots : Serve(q)) \/ Sweep \/ SweepFails \/ Tick
    /\ lost' = IF report = "none" THEN lost ELSE lost \union (members \ members')
    /\ UNCHANGED <<report, unseen, missing, unparsed>>

ReportNext ==
    \/ \E kind \in {"list", "counts"} : ListIds(kind)
    \/ \E q \in Slots : ReadBack(q)
    \/ \E w \in Workers : ReadRow(w) \/ ReadStatus(w)
    \/ AnswerReport
    \/ Meanwhile

ReportSpec == ReportInit /\ [][ReportNext]_<<vars, reportVars>>

-----------------------------------------------------------------------------
ReportTypeOK ==
    /\ report \in {"none", "list", "counts", "heartbeat"}
    /\ unseen \subseteq Workers /\ missing \subseteq Workers \ unseen
    /\ unparsed \subseteq Workers \ (unseen \union missing)
    /\ lost \subseteq Workers
    /\ report = "none" => unseen \union missing \union unparsed \union lost = {}

(***************************************************************************)
(* A report leaves a worker out, or fails for the sake of its hash, only   *)
(* if that worker was off the list at some moment while the report ran: of *)
(* the workers listed all along, the list has every one, the counts add up *)
(* to them, and a heartbeat is answered with the whole hash, whatever the  *)
(* sweep, other heartbeats and removals do between the reads.              *)
(***************************************************************************)
ReportsMissNobody == missing \union unparsed \subseteq lost
=============================================================================
