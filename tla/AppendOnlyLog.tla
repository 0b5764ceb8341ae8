---------------------------- MODULE AppendOnlyLog ----------------------------
(***************************************************************************)
(* What ports/backend.py asks of every storage backend, and AuditLog       *)
(* relies on: one history, extended at its end by one event at a time; an  *)
(* append that returned is in it; an append that raised is not.  An event  *)
(* may also land without anyone being told, when its writer dies.          *)
(***************************************************************************)
EXTENDS HashChain

CONSTANTS Fingerprint  \* the hash_version this build stamps

VARIABLES
    history,   \* the events recorded, as the head's digest commits to them
    returned,  \* events whose append returned
    raised     \* events whose append raised

logVars == <<history, returned, raised>>

InHistory(p) ==
    \E k \in 1 .. Len(history) : history[k].payload_hash = compute_payload_hash(p)

LogInit ==
    /\ history = GENESIS_PREV_HASH
    /\ returned = {}
    /\ raised = {}

Extend(p) ==
    history' = BuildEntry(Len(history), history, p, Fingerprint).entry_hash

\* The event lands at the end and its caller is told, or died.
Land(p) ==
    /\ ~InHistory(p)
    /\ Extend(p)
    /\ returned' \in {returned, returned \cup {p}}
    /\ UNCHANGED raised

\* The append raises: the event is not in the history and never will be.
Refuse(p) ==
    /\ ~InHistory(p)
    /\ raised' = raised \cup {p}
    /\ UNCHANGED <<history, returned>>

LogNext == \E p \in Payload \ raised : Land(p) \/ Refuse(p)

LogSpec == LogInit /\ [][LogNext]_logVars
==============================================================================
