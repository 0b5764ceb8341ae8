------------------------------ MODULE JsonlAsLog ------------------------------
(***************************************************************************)
(* JsonlBackend as an implementation of AppendOnlyLog, the contract of     *)
(* ports/backend.py.  A behaviour is one in which every short write may    *)
(* lose just the newline, or one in which none does: only the latter       *)
(* implement the contract.                                                 *)
(***************************************************************************)
EXTENDS JsonlBackend

VARIABLE whole  \* no short write leaves a line that lacks only its newline

wholeVars == <<vars, whole>>

WholeInit == Init /\ whole \in BOOLEAN

WholeNext ==
    /\ Next /\ UNCHANGED whole
    /\ whole => ~(unterminated' /\ rows'[Len(rows')] # Unparseable)

WholeSpec ==
    WholeInit /\ [][WholeNext]_wholeVars /\ \A w \in Writer : WF_vars(Append_(w))

Log == INSTANCE AppendOnlyLog WITH
          history <- IF whole THEN HeadHistory ELSE GENESIS_PREV_HASH,
          returned <- IF whole THEN returned ELSE {},
          raised <- IF whole THEN raised ELSE {}

\* The file is one append-only history with exact outcomes: each event lands
\* once, at the end; what returned is in it, what raised is not (JSONLBackend
\* as a WriterBackend of ports/backend.py).  Stated of the behaviours in which
\* no short write leaves a line that lacks nothing but its newline.
RefinesAppendOnlyLog == Log!LogSpec
==============================================================================
