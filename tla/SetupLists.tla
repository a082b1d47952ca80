------------------------------ MODULE SetupLists ------------------------------
(***************************************************************************)
(* The tables behind the lists of the organisation: lookups (nationalities,*)
(* buildings, banks, ...), whose pages check a code against deleted rows   *)
(* too and empty the cached lists after a save, and units (branches,       *)
(* departments, cost centers), whose pages do neither; Django's admin,     *)
(* which saves lookups too, does neither.  A worker may die between any two*)
(* steps of a page, and so between a save and the emptying.  The lists are *)
(* cached by get_cached_list, under one name for the page of the           *)
(* organisation and for the form of an employee, though the one lists all  *)
(* rows and the other those in use.  Each start of the server swaps the    *)
(* code and the name of units that look entered the wrong way round.       *)
(***************************************************************************)
EXTENDS Naturals, Sequences, SequencesExt

CONSTANTS
    Lookups, Units,     \* tables
    Rows,               \* primary keys
    Labels, Digits,     \* codes and names, and those of digits only
    Entered,            \* what the forms of each table enter
    Servers,            \* threads that serve a page
    MaxChanges,         \* bound: changes of rows
    NoEntry

Tables == Lookups \cup Units
Entry == [code : Labels, name : Labels, on : BOOLEAN, deleted : BOOLEAN]

ASSUME SetupAssumption ==
    /\ Lookups \cap Units = {} /\ Digits \subseteq Labels /\ MaxChanges \in Nat
    /\ Entered \in [Tables -> SUBSET {v \in Entry : ~v.deleted}]

VARIABLES
    table,      \* table[t][r]: a row, or NoEntry
    list,       \* list[t]: what is cached, or NoEntry
    page,       \* what each thread is doing
    late,       \* late[t]: history: the list was stored by a page that read older rows
    untold,     \* untold[t]: history: a change since then that empties no list: made
                \* in the admin, or its worker died before it could
    changes
setupVars == <<table, list, page, late, untold, changes>>

AtRest == [op |-> "idle"]

SetupInit ==
    /\ table = [t \in Tables |-> [r \in Rows |-> NoEntry]]
    /\ list = [t \in Tables |-> NoEntry]
    /\ page = [p \in Servers |-> AtRest]
    /\ late = [t \in Tables |-> FALSE] /\ untold = late /\ changes = 0

There(t) == {r \in Rows : table[t][r] # NoEntry}
Undeleted(t) == {r \in There(t) : ~table[t][r].deleted}
InUse(t) == {r \in Undeleted(t) : table[t][r].on}
Listing(t, S) == {<<r, table[t][r]>> : r \in S}

-----------------------------------------------------------------------------
(* A page shows a list: the cached one, whoever computed it, or its own,      *)
(* which it reads and stores.                                                 *)
ReadList(p, t) ==
    /\ page[p] = AtRest /\ list[t] = NoEntry
    /\ \E S \in {Undeleted(t), InUse(t)} :
         page' = [page EXCEPT ![p] = [op |-> "store", of |-> t, seen |-> Listing(t, S)]]
    /\ UNCHANGED <<table, list, late, untold, changes>>

Current(t, l) == l \in {Listing(t, Undeleted(t)), Listing(t, InUse(t))}
StoreList(p) ==
    /\ page[p].op = "store"
    /\ list' = [list EXCEPT ![page[p].of] = page[p].seen]
    /\ late' = [late EXCEPT ![page[p].of] = ~Current(page[p].of, page[p].seen)]
    /\ untold' = [untold EXCEPT ![page[p].of] = FALSE]
    /\ page' = [page EXCEPT ![p] = AtRest]
    /\ UNCHANGED <<table, changes>>

ExpireList(t) ==
    /\ list[t] # NoEntry /\ list' = [list EXCEPT ![t] = NoEntry]
    /\ late' = [late EXCEPT ![t] = FALSE]
    /\ UNCHANGED <<table, page, untold, changes>>

-----------------------------------------------------------------------------
(* The form of a row: its code is looked up first and saved later; the        *)
(* database refuses a code twice, in deleted rows too.                        *)
CodeTaken(t, r, c, S) == \E q \in S \ {r} : table[t][q].code = c
LookupAccepts(t, r, v) == ~CodeTaken(t, r, v.code, There(t))
UnitAccepts(t, r, v) == ~CodeTaken(t, r, v.code, Undeleted(t))
CheckRow(p, t, r, v, empties) ==
    /\ page[p] = AtRest /\ changes < MaxChanges
    /\ r \in Undeleted(t) \/ table[t][r] = NoEntry
    /\ page' = [page EXCEPT ![p] =
         [op |-> "save", of |-> t, row |-> r, value |-> v, empties |-> empties]]
    /\ UNCHANGED <<table, list, late, untold, changes>>
LookupForm(p, t, r, v) == LookupAccepts(t, r, v) /\ CheckRow(p, t, r, v, TRUE)
UnitForm(p, t, r, v) == UnitAccepts(t, r, v) /\ CheckRow(p, t, r, v, FALSE)
AdminForm(p, t, r, v) == UnitAccepts(t, r, v) /\ CheckRow(p, t, r, v, FALSE)

\* A page of a lookup that has changed a row deletes the cached lists next; the others
\* are done.  A refused code is reported for lookups and ends in an error page else.
Mutant_Changed(p, t, r, empties) ==
    /\ page' = [page EXCEPT ![p] =
         IF empties /\ r \notin There(t) THEN [op |-> "clear", of |-> t] ELSE AtRest]
    /\ untold' = [untold EXCEPT ![t] = @ \/ ~empties]
    /\ changes' = changes + 1
Changed(p, t, r, empties) ==
    /\ page' = [page EXCEPT ![p] = IF empties THEN [op |-> "clear", of |-> t] ELSE AtRest]
    /\ untold' = [untold EXCEPT ![t] = @ \/ ~empties]
    /\ changes' = changes + 1
SaveRow(p) ==
    /\ page[p].op = "save" /\ changes < MaxChanges
    /\ LET t == page[p].of  r == page[p].row  v == page[p].value IN
       IF CodeTaken(t, r, v.code, There(t))
       THEN page' = [page EXCEPT ![p] = AtRest] /\ UNCHANGED <<table, untold, changes>>
       ELSE \E q \in IF r \in There(t) THEN {r} ELSE Rows \ There(t) :
              \* form.save writes the whole row, as it was loaded if deleted since then
              /\ table' = [table EXCEPT ![t][q] = v]
              /\ Changed(p, t, q, page[p].empties)
    /\ UNCHANGED <<list, late>>

RemoveRow(p, t, r, empties) ==
    /\ page[p] = AtRest /\ changes < MaxChanges /\ r \in Undeleted(t)
    /\ empties => t \in Lookups
    /\ table' = [table EXCEPT ![t][r].deleted = TRUE]
    /\ Changed(p, t, r, empties)
    /\ UNCHANGED <<list, late>>

\* A worker is killed, with what its page was doing.
WorkerDies(p) ==
    /\ page[p] # AtRest /\ page' = [page EXCEPT ![p] = AtRest]
    /\ untold' = IF page[p].op = "clear" THEN [untold EXCEPT ![page[p].of] = TRUE] ELSE untold
    /\ UNCHANGED <<table, list, late, changes>>

\* invalidate_setup_cache deletes every list
ClearLists(p) ==
    /\ page[p].op = "clear"
    /\ list' = [t \in Tables |-> NoEntry] /\ late' = [t \in Tables |-> FALSE]
    /\ untold' = [t \in Tables |-> FALSE]
    /\ page' = [page EXCEPT ![p] = AtRest]
    /\ UNCHANGED <<table, changes>>

-----------------------------------------------------------------------------
(* fix_swapped_code_name, over the units in any order (by their name or code  *)
(* when the command starts); a swap that the database refuses is skipped.     *)
Swaps(row) == row.name \in Digits /\ row.code \notin Digits
SwapRow(rows, r) ==
    LET row == rows[r] IN
    IF Swaps(row) /\ \A q \in DOMAIN rows \ {r} : rows[q] = NoEntry \/ rows[q].code # row.name
    THEN [rows EXCEPT ![r].code = row.name, ![r].name = row.code]
    ELSE rows
Swapped(t, order) == FoldLeft(SwapRow, table[t], order)

FixSwapped ==
    /\ changes < MaxChanges /\ \A p \in Servers : page[p] = AtRest
    /\ \E order \in [Units -> UNION {SetToSeqs(Undeleted(t)) : t \in Units}] :
         /\ \A t \in Units : order[t] \in SetToSeqs(Undeleted(t))
         /\ table' = [t \in Tables |-> IF t \in Units THEN Swapped(t, order[t]) ELSE table[t]]
    /\ table' # table
    /\ changes' = changes + 1
    /\ untold' = [t \in Tables |-> untold[t] \/ t \in Units]
    /\ UNCHANGED <<list, late, page>>

-----------------------------------------------------------------------------
SetupNext ==
    \/ \E p \in Servers :
         \/ StoreList(p) \/ SaveRow(p) \/ ClearLists(p) \/ WorkerDies(p)
         \/ \E t \in Tables :
              \/ ReadList(p, t)
              \/ \E r \in Rows, empties \in BOOLEAN : RemoveRow(p, t, r, empties)
         \/ \E t \in Lookups, r \in Rows : \E v \in Entered[t] :
              LookupForm(p, t, r, v) \/ AdminForm(p, t, r, v)
         \/ \E t \in Units, r \in Rows : \E v \in Entered[t] : UnitForm(p, t, r, v)
    \/ \E t \in Tables : ExpireList(t)
    \/ FixSwapped

SetupSpec == SetupInit /\ [][SetupNext]_setupVars

SetupTypeOK ==
    /\ table \in [Tables -> [Rows -> Entry \cup {NoEntry}]]
    /\ \A t \in Tables : list[t] = NoEntry \/ list[t] \subseteq Rows \X Entry
    /\ late \in [Tables -> BOOLEAN] /\ untold \in [Tables -> BOOLEAN]
    /\ changes \in 0..MaxChanges

Clearing(t) == \E p \in Servers : page[p].op = "clear" /\ page[p].of = t

\* The cached list of a lookup is the one a page would compute now, of all rows or of
\* those in use, except in these cases, each of which ends when the list expires or the
\* lists are deleted: the page that stored it had read it before a change; a page has
\* changed a row of it and is about to delete the lists; or, since it was stored, a row
\* was saved in the admin, which deletes no list, or the worker of a page died between
\* the save and the deletion (get_cached_list, invalidate_setup_cache).
ListIsFresh ==
    \A t \in Lookups :
      list[t] = NoEntry \/ late[t] \/ untold[t] \/ Clearing(t) \/ Current(t, list[t])
=============================================================================
