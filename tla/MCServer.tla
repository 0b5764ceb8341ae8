------------------------------ MODULE MCServer ------------------------------
(***************************************************************************)
(* Instances of Operators and ServerReads for TLC.  The two share no       *)
(* state, so a behaviour is explored in which only one of them moves.      *)
(***************************************************************************)
EXTENDS Operators, ServerReads, TLC

MCSeeds == [u \in {"admin"} |-> "admin"]

Correct(role, active, email) ==
    [name |-> "update", user |-> "admin", role |-> role, active |-> active, email |-> email]

MCAsked ==
    {Correct("writer", None, None), Correct(None, "off", "clear"),
     [name |-> "create", user |-> "admin", role |-> "admin", email |-> "mail"],
     [name |-> "mint", user |-> "admin"]}
    \cup [name : {"revoke"}, key : Key]
    \cup {[name |-> "set", setting |-> s] : s \in Setting \ {"ledger_writer_address"}}
    \cup {[name |-> "unset", setting |-> "ledger_bond_address"]}
    \cup [name : {"append", "ledger_status"}]

MCInit == OpInit /\ ReadInit

MCNext ==
    \/ reads = 0 /\ nowR = 0 /\ content = [p \in Path |-> 0] /\ OpNext /\ UNCHANGED readVars
    \/ /\ calls = 0 /\ opStore = "memory" /\ bootstrap /\ ops = << >>
       /\ ReadNext /\ UNCHANGED opVars

MCSpec == MCInit /\ [][MCNext]_<<opVars, readVars>>

Symmetry == Permutations(Client) \cup Permutations(Key)
==============================================================================
