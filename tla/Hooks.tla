-------------------------------- MODULE Hooks --------------------------------
(***************************************************************************)
(* The agent integrations: stdin hooks that are one process per event      *)
(* (claude_code, codex, cursor over _stdin_hook), library listeners that   *)
(* resolve their trail when they are built (langchain, crewai,             *)
(* openai_agents, agt) and hermes plugins that resolve it per event.  An   *)
(* event ends on the trail, in the .drops sidecar beside the segment in    *)
(* play, or on stderr only.                                                *)
(***************************************************************************)
EXTENDS Integers, FiniteSets

CONSTANTS
    Stdin, Listener, Plugin, \* the hosts, by how they resolve their trail
    Remote,      \* the stdin hosts that can write to a chain server
    Governed,    \* the listeners that record an event they cannot read (agt)
    Project,     \* working directories
    Unset,       \* Python's None
    MaxEvents,   \* bound: events
    MaxChanges,  \* bound: changes of the environment
    MaxSegment   \* bound: rotations of a trail

ASSUME HooksAssumption ==
    /\ Remote \subseteq Stdin /\ Governed \subseteq Listener
    /\ {MaxEvents, MaxChanges, MaxSegment} \subseteq Nat
    /\ "url" \notin Listener

VARIABLES
    WAXSEAL_TRAIL, \* the environment variable
    failing,  \* what the file system refuses now: "open", "append", "sidecar"
    built,    \* listener -> the trail resolved when it was built, or Unset
    logs,     \* long-lived hosts: the trails they hold an open log of
    active,   \* trail -> its segment in play
    drops,    \* <<trail, segment>> -> lines of its .drops sidecar
    event,    \* the events so far, in order: function on 1..n
    changes

hookVars == <<WAXSEAL_TRAIL, failing, built, logs, active, drops, event, changes>>

Host == Stdin \cup Listener \cup Plugin
EnvTrail == [kind : {"path", "tilde", "url"}]

\* Trails: what the variable names, a host's default, or a project's own.
Trail == [of : {"env", "url", "collapsed"}]
         \cup [of : Stdin, project : Project \cup {Unset}] \cup [of : Listener \cup Plugin]

HookInit ==
    /\ WAXSEAL_TRAIL = Unset /\ failing = {}
    /\ built = [h \in Listener |-> Unset]
    /\ logs = [h \in Listener \cup Plugin |-> {}]
    /\ active = [t \in Trail |-> 0]
    /\ drops = [s \in Trail \X (0..MaxSegment) |-> 0]
    /\ event = << >> /\ changes = 0

-----------------------------------------------------------------------------
(* Resolution.                                                             *)

routed_trail(h, cwd) == [of |-> h, project |-> cwd]

Default(h, cwd) == IF h \in Stdin THEN routed_trail(h, cwd) ELSE [of |-> h]

\* A value that starts with a tilde is refused and the default used instead.
\* A URL becomes a local path here: Path() collapses its slashes.
resolve_trail(h, cwd) ==
    CASE WAXSEAL_TRAIL = [kind |-> "path"] -> [of |-> "env"]
      [] WAXSEAL_TRAIL = [kind |-> "url"] -> [of |-> "collapsed"]
      [] OTHER -> Default(h, cwd)

_trail_target(h, cwd) ==
    IF h \in Remote /\ WAXSEAL_TRAIL = [kind |-> "url"] THEN [of |-> "url"]
    ELSE resolve_trail(h, cwd)

IsRemote(t) == t = [of |-> "url"]

-----------------------------------------------------------------------------
(* The environment and construction.                                       *)

Change == changes < MaxChanges /\ changes' = changes + 1

SetEnv(value) ==
    /\ Change /\ WAXSEAL_TRAIL' = value
    /\ UNCHANGED <<failing, built, logs, active, drops, event>>

\* External: permissions, a full disk, a missing directory come and go.
FileSystem(refuses) ==
    /\ Change /\ failing' = refuses
    /\ UNCHANGED <<WAXSEAL_TRAIL, built, logs, active, drops, event>>

Construct(h) ==
    /\ built[h] = Unset
    /\ built' = [built EXCEPT ![h] = resolve_trail(h, Unset)]
    /\ UNCHANGED <<WAXSEAL_TRAIL, failing, logs, active, drops, event, changes>>

-----------------------------------------------------------------------------
(* One event.                                                              *)

\* fate: "open" until it ended "chained", "recorded" or "stderr".  Ghosts: clear,
\* nothing was refused while it was handled; mute, the sidecar was when it ended.
Event(h, t, seg, fate) ==
    [host |-> h, trail |-> t, segment |-> seg, fate |-> fate,
     clear |-> failing = {}, mute |-> "sidecar" \in failing]

More_ == Cardinality(DOMAIN event) < MaxEvents
Push(e) == event' = [i \in 1..(Cardinality(DOMAIN event) + 1) |->
                        IF i \in DOMAIN event THEN event[i] ELSE e]

\* FileDropRecorder.record never raises: a sidecar it cannot write stays as is.
record(seg) ==
    drops' = IF "sidecar" \in failing THEN drops ELSE [drops EXCEPT ![seg] = @ + 1]

RecordedFate == IF "sidecar" \in failing THEN "stderr" ELSE "recorded"

\* The stdin text is no JSON object: there is no event to route.
Unreadable_(h) ==
    /\ More_
    /\ Push(Event(h, Unset, 0, "stderr"))
    /\ UNCHANGED <<WAXSEAL_TRAIL, failing, built, logs, active, drops, changes>>

\* An entry WaxsealAuditSink cannot turn into a payload is a loss beside its trail.
_write_one(h) ==
    /\ More_ /\ built[h] # Unset
    /\ Push([Event(h, built[h], 0, RecordedFate) EXCEPT !.clear = FALSE])
    /\ record(<<built[h], 0>>)
    /\ UNCHANGED <<WAXSEAL_TRAIL, failing, built, logs, active, changes>>

TargetOf(h, cwd) == IF h \in Listener THEN built[h] ELSE _trail_target(h, cwd)

\* Only the stdin hooks write segments; the others keep one file.
SegmentOf(h, t) == IF h \in Stdin THEN active[t] ELSE 0

\* Mutant: a trail that cannot be opened is only said on stderr.
OpenFails_silent(h, cwd) ==
    LET t == TargetOf(h, cwd)
    IN  /\ More_ /\ t # Unset /\ "open" \in failing
        /\ h \in DOMAIN logs => t \notin logs[h]
        /\ Push(Event(h, t, SegmentOf(h, t), "stderr"))
        /\ UNCHANGED <<WAXSEAL_TRAIL, failing, built, logs, active, drops, changes>>

\* The trail cannot be opened: a local loss goes beside the segment in play, a
\* remote one has nowhere to go but stderr.
OpenFails(h, cwd) ==
    LET t == TargetOf(h, cwd)
    IN  /\ More_ /\ t # Unset /\ "open" \in failing
        /\ h \in DOMAIN logs => t \notin logs[h]
        /\ IF IsRemote(t)
           THEN Push(Event(h, t, 0, "stderr")) /\ UNCHANGED drops
           ELSE Push(Event(h, t, SegmentOf(h, t), RecordedFate)) /\ record(<<t, SegmentOf(h, t)>>)
        /\ UNCHANGED <<WAXSEAL_TRAIL, failing, built, logs, active, changes>>

\* A long-lived host keeps the log it opened; one it could not open is tried
\* again at the next event.
_get_log(h, t) ==
    /\ t \in logs[h] \/ "open" \notin failing
    /\ logs' = [logs EXCEPT ![h] = @ \cup {t}]

\* The event has a log: the one its host keeps, or a new one, which for a stdin
\* hook may rotate the trail first.
Opens(h, cwd, rotates) ==
    LET t == TargetOf(h, cwd)
    IN  /\ More_ /\ t # Unset
        /\ IF h \in DOMAIN logs THEN _get_log(h, t)
           ELSE "open" \notin failing /\ UNCHANGED logs
        /\ IF rotates /\ h \in Stdin /\ ~IsRemote(t) /\ active[t] < MaxSegment
           THEN active' = [active EXCEPT ![t] = @ + 1]
           ELSE ~rotates /\ UNCHANGED active
        /\ Push(Event(h, t, IF h \in Stdin THEN active'[t] ELSE 0, "open"))
        /\ UNCHANGED <<WAXSEAL_TRAIL, failing, built, drops, changes>>

\* try_append: a failed append is counted once, by the log's own recorder.
try_append(i) ==
    /\ event[i].fate = "open"
    /\ LET e == event[i]
           fails == "append" \in failing
       IN  /\ event' = [event EXCEPT ![i] = [e EXCEPT
                !.fate = IF ~fails THEN "chained"
                         ELSE IF IsRemote(e.trail) THEN "stderr" ELSE RecordedFate,
                !.clear = e.clear /\ failing = {}, !.mute = "sidecar" \in failing]]
           /\ IF fails /\ ~IsRemote(e.trail)
              THEN record(<<e.trail, e.segment>>) ELSE UNCHANGED drops
    /\ UNCHANGED <<WAXSEAL_TRAIL, failing, built, logs, active, changes>>

HookNext ==
    \/ \E v \in EnvTrail \cup {Unset} : SetEnv(v)
    \/ \E r \in SUBSET {"open", "append", "sidecar"} : FileSystem(r)
    \/ \E h \in Listener : Construct(h)
    \/ \E h \in Stdin : Unreadable_(h)
    \/ \E h \in Governed : _write_one(h)
    \/ \E h \in Host, cwd \in Project \cup {Unset} :
          \/ OpenFails(h, cwd)
          \/ \E rotates \in BOOLEAN : Opens(h, cwd, rotates)
    \/ \E i \in DOMAIN event : try_append(i)

HookSpec == HookInit /\ [][HookNext]_hookVars

-----------------------------------------------------------------------------
(* Properties.                                                             *)

\* "every loss labelled on stderr and, where a sidecar location exists, recorded
\* in a .drops file beside the segment actually in play" (_stdin_hook), and the
\* same for the listeners and plugins: a lost event of a local trail has its
\* one line beside the segment it was meant for unless the sidecar itself was
\* refused, the count read back never exceeds the losses, and a host whose
\* trail could not be opened before loses nothing once it can.
LossesAreNeverSilent ==
    LET ended == {i \in DOMAIN event : event[i].fate # "open"}
        local == {i \in ended : event[i].trail # Unset /\ ~IsRemote(event[i].trail)}
        lost == {i \in local : event[i].fate # "chained"}
    IN  /\ \A s \in DOMAIN drops :
             drops[s] = Cardinality({i \in lost : /\ <<event[i].trail, event[i].segment>> = s
                                                 /\ ~event[i].mute})
        /\ \A i \in ended : (event[i].clear /\ event[i].trail # Unset) => event[i].fate = "chained"
==============================================================================
