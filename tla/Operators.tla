------------------------------ MODULE Operators ------------------------------
(***************************************************************************)
(* Who may do what on a chain server: operators, their API keys, the scope *)
(* check in front of every handler and the settings an operator may change *)
(* (domain/operators.py, domain/settings.py, storage/operators_*.py,       *)
(* storage/settings_*.py, api/_auth.py, api/admin.py, api/settings.py and  *)
(* admin_cli.py).                                                          *)
(*                                                                         *)
(* A handler runs on the event loop or on a thread, so another request or  *)
(* an administrator's shell moves between any two of its statements.       *)
(* Tables are Postgres, or dictionaries of the process.                    *)
(***************************************************************************)
EXTENDS Integers, FiniteSets

CONSTANTS
    Client,      \* requests and shells under way at once
    User,        \* usernames
    Key,         \* API keys that may be minted
    Roles,       \* the roles that are given
    Asked,       \* what is asked for: of AdminOp and OtherOp
    Seeds,       \* DEFAULT_SEED: username to role
    Stores,      \* of {"postgres", "memory"}
    MaxCalls     \* bound on the calls made

VARIABLES
    opStore,     \* which store this deployment has
    bootstrap,   \* whether WAXSEAL_API_KEY is set
    ops,         \* the operators, by username
    keys,        \* the API keys, by key
    rowLock,     \* usernames whose row is locked FOR UPDATE
    held,        \* the stored settings
    req,         \* each client's call under way
    revokers,    \* for each key, how many calls said that they revoked it
    argvs,       \* the last ledger-status command line
    calls

opVars == <<opStore, bootstrap, ops, keys, rowLock, held, req, revokers, argvs, calls>>

Scopes == {"trails:read", "head:read", "entries:append", "verify:run",
           "proof:export", "import:write", "keys:manage", "public:read"}

scopes_for_role(role) ==
    CASE role = "admin"   -> Scopes
      [] role = "auditor" -> Scopes \ {"entries:append", "keys:manage"}
      [] role = "writer"  -> {"entries:append", "head:read"}
      [] role = "viewer"  -> {"trails:read", "public:read"}

None == "none"
IdleCall == [pc |-> "idle", tok |-> None, op |-> [name |-> None],
             snap |-> << >>, scopes |-> {}, by |-> None, late |-> FALSE]

\* What a call may ask for.  A field that is not supplied is None.
AdminOp ==
    [name : {"create"}, user : User, role : Roles, email : {None, "mail"}]
    \cup [name : {"update"}, user : User, role : Roles \cup {None},
          active : {"on", "off", None}, email : {None, "mail", "clear"}]
    \cup [name : {"mint"}, user : User]
    \cup [name : {"revoke"}, key : Key]

\* Only a key of the registry with a value of its kind is stored.
Setting == {"ledger_liveness_address", "ledger_bond_address", "ledger_writer_address"}

OtherOp ==
    [name : {"set", "unset"}, setting : Setting]
    \cup [name : {"append", "ledger_status"}]

ASSUME OperatorsAssumption ==
    /\ Asked \subseteq AdminOp \cup OtherOp
    /\ Key \cap {"bootstrap", None} = {}

ScopeOf(op) ==
    CASE op.name = "append" -> "entries:append"
      [] op.name = "ledger_status" -> "verify:run"
      [] OTHER -> "keys:manage"

NewKey(u) == [user |-> u, revoked |-> FALSE]

\* A fresh deployment, or one that is seeded and has its first key.
OpInit ==
    /\ opStore \in Stores /\ bootstrap \in BOOLEAN
    /\ \/ ops = << >> /\ keys = << >>
       \/ /\ ops = [u \in DOMAIN Seeds |-> [role |-> Seeds[u], email |-> None, active |-> TRUE]]
          /\ \E k \in Key, u \in DOMAIN Seeds : keys = [x \in {k} |-> NewKey(u)]
    /\ rowLock = {} /\ held = {}
    /\ req = [c \in Client |-> IdleCall]
    /\ revokers = [k \in Key |-> 0] /\ argvs = {} /\ calls = 0

Goto(c, call) == req' = [req EXCEPT ![c] = call]
Done(c) == Goto(c, IdleCall)

tables == <<ops, keys, rowLock, held, revokers, argvs>>
fixed == <<opStore, bootstrap, calls>>

-----------------------------------------------------------------------------
(* Authorizer.                                                             *)

Revoked(k) == k \in DOMAIN keys /\ keys[k].revoked

\* A request with a bearer token: an API key, the bootstrap key or none.
Arrive(c, tok, op) ==
    /\ req[c].pc = "idle" /\ calls < MaxCalls
    /\ calls' = calls + 1
    /\ Goto(c, [IdleCall EXCEPT !.pc = "arrived", !.tok = tok, !.op = op,
                                !.late = Revoked(tok)])
    /\ UNCHANGED <<opStore, bootstrap, tables>>

has_active_key == \E k \in DOMAIN keys : ~keys[k].revoked

locked == bootstrap \/ has_active_key

\* require: the principal has the scope, or the call is refused.
Admit(c, by, scopes) ==
    IF ScopeOf(req[c].op) \in scopes
    THEN Goto(c, [req[c] EXCEPT !.pc = "act", !.by = by])
    ELSE Done(c)

principal(c) ==
    /\ req[c].pc = "arrived"
    /\ \/ ~locked /\ Admit(c, "open", Scopes)
       \/ locked /\ bootstrap /\ req[c].tok = "bootstrap" /\ Admit(c, "bootstrap", Scopes)
       \/ locked /\ req[c].tok \in Key /\ Goto(c, [req[c] EXCEPT !.pc = "authenticate"])
       \/ locked /\ req[c].tok \notin Key /\ ~(bootstrap /\ req[c].tok = "bootstrap") /\ Done(c)
    /\ UNCHANGED <<tables, fixed>>

\* Postgres reads the key and its operator in one SELECT, memory one after
\* the other.
authenticate(c) ==
    /\ LET k == req[c].tok IN
       \/ /\ req[c].pc = "authenticate"
          /\ IF k \notin DOMAIN keys THEN Done(c)
             ELSE IF opStore = "memory"
             THEN Goto(c, [req[c] EXCEPT !.pc = "operator", !.snap = keys[k]])
             ELSE IF keys[k].revoked \/ ~ops[keys[k].user].active THEN Done(c)
             ELSE Goto(c, [req[c] EXCEPT !.pc = "touch", !.snap = keys[k],
                               !.scopes = scopes_for_role(ops[keys[k].user].role)])
       \/ /\ req[c].pc = "operator"
          /\ LET o == ops[req[c].snap.user]
             IN  IF req[c].snap.revoked \/ ~o.active THEN Done(c)
                 ELSE Goto(c, [req[c] EXCEPT !.pc = "touch",
                                             !.scopes = scopes_for_role(o.role)])
    /\ UNCHANGED <<tables, fixed>>

\* Mutant: Postgres too stores the row that was read.
touched_row(c) == req[c].snap

\* last_used_at: a column of its own in Postgres, the whole record in memory.
touched(c) == IF opStore = "memory" THEN req[c].snap ELSE keys[req[c].tok]

touch(c) ==
    /\ req[c].pc = "touch"
    /\ keys' = [keys EXCEPT ![req[c].tok] = touched(c)]
    /\ Admit(c, "key", req[c].scopes)
    /\ UNCHANGED <<ops, rowLock, held, revokers, argvs, fixed>>

\* The body is not JSON, not an object or holds a wrong role or flag.
MalformedBody(c) ==
    /\ req[c].pc = "act" /\ req[c].by # "shell"
    /\ Done(c)
    /\ UNCHANGED <<tables, fixed>>

\* waxseal-server-admin talks to the store without a key; the dictionaries of
\* the server process are out of its reach.
Shell(c, op) ==
    /\ req[c].pc = "idle" /\ calls < MaxCalls /\ opStore = "postgres"
    /\ calls' = calls + 1
    /\ Goto(c, [IdleCall EXCEPT !.pc = "act", !.op = op, !.by = "shell"])
    /\ UNCHANGED <<opStore, bootstrap, tables>>

-----------------------------------------------------------------------------
(* The operator store.                                                     *)

\* INSERT ... ON CONFLICT DO NOTHING.
create_operator(op) ==
    [u \in DOMAIN ops \cup {op.user} |->
        IF u \in DOMAIN ops THEN ops[u]
        ELSE [role |-> op.role, email |-> op.email, active |-> TRUE]]

\* The shell goes on with an operator that exists: it may correct the email.
post_operator(c) ==
    LET op == req[c].op IN
    /\ req[c].pc = "act" /\ op.name = "create"
    /\ ops' = create_operator(op)
    /\ IF op.user \in DOMAIN ops /\ req[c].by = "shell"
       THEN Goto(c, [req[c] EXCEPT !.pc = "exists"]) ELSE Done(c)
    /\ UNCHANGED <<keys, rowLock, held, revokers, argvs, fixed>>

\* _add_operator of one that exists: only an email that differs is written.
add_operator(c) ==
    /\ req[c].pc = "exists"
    /\ LET op == req[c].op
       IN  IF op.email # None /\ op.email # ops[op.user].email
           THEN Goto(c, [req[c] EXCEPT !.pc = "act",
                    !.op = [name |-> "update", user |-> op.user, role |-> None,
                            active |-> None, email |-> op.email]])
           ELSE Done(c)
    /\ UNCHANGED <<tables, fixed>>

Updated(o, op) ==
    [role   |-> IF op.role = None THEN o.role ELSE op.role,
     email  |-> CASE op.email = "clear" -> None
                  [] op.email = None -> o.email
                  [] OTHER -> op.email,
     active |-> IF op.active = None THEN o.active ELSE op.active = "on"]

\* Mutant: the row is read without FOR UPDATE.
RowFree_unlocked(u) == TRUE

RowFree(u) == u \notin rowLock

\* SELECT ... FOR UPDATE, or the dictionary's entry, which is read and written
\* without a switch in between.
patch_operator(c) ==
    LET op == req[c].op
        u  == op.user
    IN
    /\ req[c].pc = "act" /\ op.name = "update"
    /\ \/ /\ u \notin DOMAIN ops
          /\ Done(c) /\ UNCHANGED <<ops, rowLock>>
       \/ /\ u \in DOMAIN ops /\ opStore = "memory"
          /\ ops' = [ops EXCEPT ![u] = Updated(@, op)]
          /\ Done(c) /\ UNCHANGED rowLock
       \/ /\ u \in DOMAIN ops /\ opStore = "postgres" /\ RowFree(u)
          /\ rowLock' = rowLock \cup {u}
          /\ Goto(c, [req[c] EXCEPT !.pc = "row", !.snap = ops[u]])
          /\ UNCHANGED ops
    /\ UNCHANGED <<keys, held, revokers, argvs, fixed>>

\* UPDATE of the whole row, and COMMIT.
update_operator(c) ==
    LET u == req[c].op.user IN
    /\ req[c].pc = "row"
    /\ ops' = [ops EXCEPT ![u] = Updated(req[c].snap, req[c].op)]
    /\ rowLock' = rowLock \ {u}
    /\ Done(c)
    /\ UNCHANGED <<keys, held, revokers, argvs, fixed>>

\* The connection is lost in the middle: nothing is written.
Rollback(c) ==
    /\ req[c].pc = "row"
    /\ rowLock' = rowLock \ {req[c].op.user}
    /\ Done(c)
    /\ UNCHANGED <<ops, keys, held, revokers, argvs, fixed>>

\* A key nobody has yet.
mint_key(u) ==
    \E k \in Key \ DOMAIN keys :
        keys' = [x \in DOMAIN keys \cup {k} |-> IF x = k THEN NewKey(u) ELSE keys[x]]

post_key(c) ==
    LET u == req[c].op.user IN
    /\ req[c].pc = "act" /\ req[c].op.name = "mint"
    /\ IF u \in DOMAIN ops /\ ~(Key \subseteq DOMAIN keys) THEN mint_key(u) ELSE UNCHANGED keys
    /\ Done(c)
    /\ UNCHANGED <<ops, rowLock, held, revokers, argvs, fixed>>

\* Answers true.
revoke_key(k) ==
    /\ keys' = [keys EXCEPT ![k].revoked = TRUE]
    /\ revokers' = [revokers EXCEPT ![k] = @ + 1]

\* One UPDATE ... WHERE revoked_at IS NULL, or a look and then a write.
post_revoke(c) ==
    LET k == req[c].op.key
        may == k \in DOMAIN keys /\ ~Revoked(k)
    IN
    /\ req[c].op.name = "revoke"
    /\ \/ req[c].pc = "act" /\ ~may /\ Done(c) /\ UNCHANGED <<keys, revokers>>
       \/ req[c].pc = "act" /\ may /\ opStore = "postgres" /\ revoke_key(k) /\ Done(c)
       \/ /\ req[c].pc = "act" /\ may /\ opStore = "memory"
          /\ Goto(c, [req[c] EXCEPT !.pc = "revoking"])
          /\ UNCHANGED <<keys, revokers>>
       \/ req[c].pc = "revoking" /\ revoke_key(k) /\ Done(c)
    /\ UNCHANGED <<ops, rowLock, held, argvs, fixed>>

-----------------------------------------------------------------------------
(* Settings, and the one command whose line is made from them.             *)

put_setting(c) ==
    /\ req[c].pc = "act" /\ req[c].op.name = "set"
    /\ held' = held \cup {req[c].op.setting}
    /\ Done(c)
    /\ UNCHANGED <<ops, keys, rowLock, revokers, argvs, fixed>>

post_reset(c) ==
    /\ req[c].pc = "act" /\ req[c].op.name = "unset"
    /\ held' = held \ {req[c].op.setting}
    /\ Done(c)
    /\ UNCHANGED <<ops, keys, rowLock, revokers, argvs, fixed>>

\* Mutant: the pairing of bond and writer is left to the command.
ledger_status_argv_unpaired(s) ==
    IF "ledger_liveness_address" \notin s THEN {} ELSE {s}

ledger_status_argv(s) ==
    IF \/ "ledger_liveness_address" \notin s
       \/ "ledger_bond_address" \in s /\ "ledger_writer_address" \notin s
    THEN {} ELSE {s}

get_ledger_status(c) ==
    /\ req[c].pc = "act" /\ req[c].op.name = "ledger_status"
    /\ argvs' = ledger_status_argv(held)
    /\ Done(c)
    /\ UNCHANGED <<ops, keys, rowLock, held, revokers, fixed>>

\* The handlers of the other modules run behind the same check.
Append_(c) ==
    /\ req[c].pc = "act" /\ req[c].op.name = "append"
    /\ Done(c)
    /\ UNCHANGED <<tables, fixed>>

OpNext ==
    \E c \in Client :
        \/ \E op \in Asked, tok \in Key \cup {"bootstrap", None} : Arrive(c, tok, op)
        \/ \E op \in Asked \cap AdminOp : Shell(c, op)
        \/ \E u \in DOMAIN Seeds, e \in {None, "mail"} :
              Shell(c, [name |-> "create", user |-> u, role |-> Seeds[u], email |-> e])
        \/ principal(c) \/ authenticate(c) \/ touch(c) \/ MalformedBody(c)
        \/ post_operator(c) \/ add_operator(c)
        \/ patch_operator(c) \/ update_operator(c) \/ Rollback(c)
        \/ post_key(c) \/ post_revoke(c)
        \/ put_setting(c) \/ post_reset(c) \/ get_ledger_status(c) \/ Append_(c)

OpSpec == OpInit /\ [][OpNext]_opVars

-----------------------------------------------------------------------------
(* Properties.                                                             *)

\* "Revoke a key. True if this call revoked it" (ports/operators.py): one call
\* at most says that it revoked a key, and a request that arrives with a
\* revoked key is admitted by nothing but a server that has no key at all,
\* whatever requests and shells are under way.
RevocationStands ==
    /\ \A k \in Key : revokers[k] = (IF Revoked(k) THEN 1 ELSE 0)
    /\ \A c \in Client : req[c].late => req[c].by \in {None, "open"}

\* So it is with Postgres, the store of a deployment.
RevocationHolds == opStore = "postgres" => RevocationStands

\* No update writes back what another one has changed in between: a field of
\* an operator changes in a step of a call that supplied that field.
OnlySuppliedFieldsChange ==
    [][\A u \in DOMAIN ops, f \in {"role", "email", "active"} :
          ops'[u][f] # ops[u][f] =>
              \E c \in Client : /\ req'[c] # req[c] /\ req[c].op.name = "update"
                                /\ req[c].op.user = u /\ req[c].op[f] # None]_opVars

\* A ledger-status that is run can be parsed by the command: it has its
\* liveness contract, and a bond contract only together with a writer, however
\* the settings change meanwhile.
LedgerArgsArePaired ==
    \A s \in argvs : /\ "ledger_liveness_address" \in s
                     /\ "ledger_bond_address" \in s => "ledger_writer_address" \in s

\* A request is answered by a state the store was in: no revoked key admits it,
\* and no half-changed settings make up its command line.
RequestsSeeOneStore == RevocationHolds /\ LedgerArgsArePaired

==============================================================================
