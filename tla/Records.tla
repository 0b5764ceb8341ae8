------------------------------- MODULE Records -------------------------------
(***************************************************************************)
(* The typed payloads of a trail and what is read back from them: admission*)
(* tickets and their reconciliation with the issuer, incident records and  *)
(* their reporting window, interventions, decisions and the audit report.  *)
(* A payload either parses as its type says or it does not (a newer shape, *)
(* or a header-only reader): its fields are the ones a reader branches on. *)
(* Times are hours; Naive is a timestamp the reader cannot place.          *)
(***************************************************************************)
EXTENDS Integers, Sequences, FiniteSets, FiniteSetsExt

CONSTANTS
    Null,        \* Python's None
    IncidentId,  \* incident ids
    Incidents,   \* the incident records writers record
    lease_size,  \* tickets per lease
    window_h,    \* the reporting window
    MaxTickets,  \* bound: tickets handed out
    MaxRows,     \* bound: rows that are not tickets
    MaxNow       \* bound: the clock

ASSUME RecordsAssumption ==
    /\ lease_size \in Nat \ {0} /\ window_h \in Nat \ {0} /\ Null \notin IncidentId
    /\ \A rec \in Incidents : /\ rec.incident_id \in IncidentId
                             /\ {rec.confirmed_at, rec.reported_at} \subseteq {Null, -1} \cup Nat
    /\ {MaxTickets, MaxRows, MaxNow} \subseteq Nat

VARIABLES
    rows,     \* the trail's typed rows: [type, ok, rec]
    granted,  \* tickets the issuer has granted: 0 .. granted - 1, whole leases
    next,     \* the next ticket the writer will use
    lost,     \* ghost: tickets whose row was lost
    issued,   \* what the issuer answered when last asked, or Null
    now,      \* the clock
    said      \* what the last command printed and its exit code

recordVars == <<rows, granted, next, lost, issued, now, said>>

TICKET == "admission-ticket"
INCIDENT == "ai-incident"
INTERVENTION == "human-intervention"
DECISION == "ai-decision"

Naive == -1

Row(type, rec) == [type |-> type, ok |-> TRUE, rec |-> rec]
Silent == [cmd |-> "none"]

RecordInit ==
    /\ rows = << >> /\ granted = 0 /\ next = 0 /\ lost = {}
    /\ issued = Null /\ now = 0 /\ said = Silent

RowsOf(type) == {i \in DOMAIN rows : rows[i].type = type}
Unreadable(type) == {i \in RowsOf(type) : ~rows[i].ok}

AppendRow(row) ==
    /\ row.type # TICKET => Cardinality(DOMAIN rows \ RowsOf(TICKET)) < MaxRows
    /\ rows' = Append(rows, row)
    /\ said' = Silent

-----------------------------------------------------------------------------
(* Writers.                                                                *)

\* A row of this type that this reader cannot parse.
ForeignRow(type) ==
    /\ AppendRow([type |-> type, ok |-> FALSE])
    /\ UNCHANGED <<granted, next, lost, issued, now>>

\* A restatement is a whole record; it need not carry what an earlier row did.
record_incident(rec) ==
    /\ AppendRow(Row(INCIDENT, rec))
    /\ UNCHANGED <<granted, next, lost, issued, now>>

InterventionRecord == [decision_ref : {Null, "d1"}]

record_intervention(rec) ==
    /\ AppendRow(Row(INTERVENTION, rec))
    /\ UNCHANGED <<granted, next, lost, issued, now>>

DecisionRecord == [human_oversight : {Null, "mode"}, risk_tier : {Null, "tier"}]

record_decision(rec) ==
    /\ AppendRow(Row(DECISION, rec))
    /\ UNCHANGED <<granted, next, lost, issued, now>>

\* External: the issuer grants a lease when the writer needs its first ticket.
Lease ==
    /\ next = granted /\ granted + lease_size <= MaxTickets
    /\ granted' = granted + lease_size
    /\ said' = Silent
    /\ UNCHANGED <<rows, next, lost, issued, now>>

\* The writer acts under its next ticket: its row is lost, or lands, and then
\* this reader may or may not have the payload bytes (a header-only source).
UseTicket(fate) ==
    /\ next < granted
    /\ next' = next + 1
    /\ IF fate = "lost"
       THEN lost' = lost \cup {next} /\ said' = Silent /\ UNCHANGED rows
       ELSE /\ AppendRow([Row(TICKET, [ticket_id |-> next]) EXCEPT !.ok = fate = "read"])
            /\ UNCHANGED lost
    /\ UNCHANGED <<granted, issued, now>>

Tick_ ==
    /\ now < MaxNow /\ now' = now + 1 /\ said' = Silent
    /\ UNCHANGED <<rows, granted, next, lost, issued>>

-----------------------------------------------------------------------------
(* Tickets.                                                                *)

\* External: the operator asks the issuer which tickets it granted.
AskIssuer ==
    /\ issued' = 0..(granted - 1)
    /\ said' = Silent
    /\ UNCHANGED <<rows, granted, next, lost, now>>

scan_tickets == {rows[i].rec.ticket_id : i \in RowsOf(TICKET) \ Unreadable(TICKET)}

\* Mutant: the newest lease window counts as closed.
window_lo_closed(s) == Max(s) + 1

window_lo(s) == (Max(s) \div lease_size) * lease_size

reconcile_tickets(present, asked) ==
    LET lo == window_lo(asked)
    IN  CASE asked = Null -> [verdict |-> "unverifiable", missing |-> Null, blind_spot |-> Null]
          [] asked = {} -> [verdict |-> "ok", missing |-> {}, blind_spot |-> {}]
          [] OTHER -> [verdict |-> IF \E t \in asked : t < lo /\ t \notin present
                                   THEN "broken" ELSE "ok",
                       missing |-> {t \in asked : t < lo /\ t \notin present},
                       blind_spot |-> {t \in asked : t >= lo /\ t \notin present}]

\* An unread ticket row lifts ok to unverifiable and leaves broken alone.
_reconcile_tickets ==
    LET result == reconcile_tickets(scan_tickets, issued)
        verdict == IF Unreadable(TICKET) # {} /\ result.verdict = "ok"
                   THEN "unverifiable" ELSE result.verdict
    IN  /\ said' = [cmd |-> "tickets", missing |-> result.missing,
                    blind_spot |-> result.blind_spot, asked |-> issued,
                    code |-> CASE verdict = "ok" -> 0 [] verdict = "broken" -> 1 [] OTHER -> 2]
        /\ UNCHANGED <<rows, granted, next, lost, issued, now>>

-----------------------------------------------------------------------------
(* Incidents.                                                              *)

\* Fold the rows in chain order: the newest readable row of an id stands.
scan_incidents ==
    LET folded[n \in 0..Len(rows)] ==
          IF n = 0 THEN << >>
          ELSE IF n \notin RowsOf(INCIDENT) \ Unreadable(INCIDENT) THEN folded[n - 1]
          ELSE [id \in DOMAIN folded[n - 1] \cup {rows[n].rec.incident_id} |->
                  IF id # rows[n].rec.incident_id THEN folded[n - 1][id]
                  ELSE [latest |-> rows[n].rec,
                        rows |-> 1 + (IF id \in DOMAIN folded[n - 1]
                                      THEN folded[n - 1][id].rows ELSE 0)]]
    IN  folded[Len(rows)]

Aware(t) == t \notin {Null, Naive}

window_status(rec, at) ==
    LET confirmed == rec.confirmed_at
        reported == rec.reported_at
    IN  IF ~Aware(confirmed) THEN "unmeasured"
        ELSE IF reported = Null
          THEN IF rec.report_ref # Null \/ at < confirmed THEN "unmeasured"
               ELSE IF at - confirmed <= window_h THEN "window_open"
               ELSE "no_report_recorded_past_window"
        ELSE IF ~Aware(reported) \/ reported < confirmed THEN "unmeasured"
        ELSE IF reported - confirmed <= window_h THEN "report_recorded_within_window"
        ELSE "report_recorded_after_window"

\* Mutant: --since keeps only what it can place.
Kept_placed(rec, since) == since # Null => Aware(rec.confirmed_at) /\ rec.confirmed_at >= since

Kept(rec, since) ==
    (since # Null /\ Aware(rec.confirmed_at)) => rec.confirmed_at >= since

_incidents(since) ==
    LET views == scan_incidents
        listed == {id \in DOMAIN views : Kept(views[id].latest, since)}
    IN  /\ said' = [cmd |-> "incidents", since |-> since,
                    status |-> [id \in listed |-> window_status(views[id].latest, now)],
                    rows |-> [id \in listed |-> views[id].rows],
                    unreadable |-> Unreadable(INCIDENT),
                    code |-> IF Unreadable(INCIDENT) # {} THEN 2 ELSE 0]
        /\ UNCHANGED <<rows, granted, next, lost, issued, now>>

\* A filtered walk leaves out the rows that have no field to match on.
iter_incidents(id) ==
    {i \in RowsOf(INCIDENT) : id # Null => rows[i].ok /\ rows[i].rec.incident_id = id}

-----------------------------------------------------------------------------
(* The audit report's counters.                                            *)

build_report ==
    LET decisions == RowsOf(DECISION) \ Unreadable(DECISION)
        views == scan_incidents
    IN  [entries_total |-> Len(rows),
         decisions_total |-> Cardinality(decisions),
         oversight_unrecorded |->
            Cardinality({i \in decisions : rows[i].rec.human_oversight = Null}),
         risk_tier_unrecorded |-> Cardinality({i \in decisions : rows[i].rec.risk_tier = Null}),
         incidents_total |-> Cardinality(DOMAIN views),
         incidents_no_report_recorded |->
            Cardinality({id \in DOMAIN views : views[id].latest.report_ref = Null}),
         interventions_total |-> Cardinality(RowsOf(INTERVENTION) \ Unreadable(INTERVENTION)),
         malformed |-> Unreadable(DECISION) \cup Unreadable(INCIDENT) \cup Unreadable(INTERVENTION)]

_report ==
    /\ said' = [cmd |-> "report", report |-> build_report]
    /\ UNCHANGED <<rows, granted, next, lost, issued, now>>

RecordNext ==
    \/ \E type \in {INCIDENT, INTERVENTION, DECISION} : ForeignRow(type)
    \/ \E rec \in Incidents : record_incident(rec)
    \/ \E rec \in InterventionRecord : record_intervention(rec)
    \/ \E rec \in DecisionRecord : record_decision(rec)
    \/ Lease \/ AskIssuer \/ Tick_
    \/ \E fate \in {"read", "unread", "lost"} : UseTicket(fate)
    \/ _reconcile_tickets \/ _report
    \/ \E since \in {Null, 0, 1} : _incidents(since)

RecordSpec == RecordInit /\ [][RecordNext]_recordVars

-----------------------------------------------------------------------------
(* Properties.                                                             *)

\* "A ticket the issuer confirms it issued, that never appears on the trail,
\* is ... a named, exact drop": when every ticket row could be read, the named
\* tickets are lost ones, never tickets still to be used, although the issuer
\* was asked before the trail was read; exit 0 leaves no lost ticket of a
\* closed lease unnamed (reconcile_tickets, _reconcile_tickets).
MissingTicketsAreLost ==
    (said.cmd = "tickets" /\ said.missing # Null /\ Unreadable(TICKET) = {}) =>
        /\ said.missing \subseteq lost
        /\ said.code = 0 => lost \cap said.asked \subseteq said.blind_spot
        /\ Cardinality(said.blind_spot) <= lease_size

\* No row that claims a record type is left out of a listing unsaid.  Every
\* readable incident row is folded into a listed view, or its incident's newest
\* row is confirmed before --since; an unread row makes the exit code 2 under
\* every filter; each status is that of the incident's newest row; and the
\* report's counters add up to the rows (scan_incidents, _incidents,
\* window_status, build_report).
ListingsAreComplete ==
    LET Newest(id) == rows[Max(iter_incidents(id))].rec
        Ids == {id \in IncidentId : iter_incidents(id) # {}}
    IN  /\ said.cmd = "incidents" =>
            /\ said.code = 2 <=> Unreadable(INCIDENT) # {}
            /\ \A id \in Ids : IF id \in DOMAIN said.status
                 THEN /\ said.rows[id] = Cardinality(iter_incidents(id))
                      /\ said.status[id] = "no_report_recorded_past_window" =>
                            /\ Newest(id).reported_at = Null /\ Newest(id).report_ref = Null
                            /\ now > Newest(id).confirmed_at + window_h
                      /\ said.status[id] = "report_recorded_within_window" =>
                            Newest(id).reported_at \in
                                Newest(id).confirmed_at..(Newest(id).confirmed_at + window_h)
                 ELSE /\ Aware(Newest(id).confirmed_at)
                      /\ said.since # Null /\ Newest(id).confirmed_at < said.since
        /\ said.cmd = "report" =>
            /\ said.report.incidents_total = Cardinality(Ids)
            /\ Cardinality(RowsOf(INTERVENTION) \cup RowsOf(DECISION) \cup RowsOf(INCIDENT)) =
                 said.report.decisions_total + said.report.interventions_total
                 + Cardinality(said.report.malformed)
                 + Cardinality(UNION {iter_incidents(id) : id \in Ids})

\* What the record commands leave out, they account for.
RecordsAreAccountedFor == MissingTicketsAreLost /\ ListingsAreComplete

==============================================================================
