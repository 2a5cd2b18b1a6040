----------------------- MODULE FunctionRegistryTable -----------------------
(***************************************************************************)
(* The function_registry table and the one operation that writes it,       *)
(* save_function_registry_rows (repository.py).  A save is one MERGE,      *)
(* which Delta commits or refuses as a whole; the caller that loses its    *)
(* answer makes the same call again.                                       *)
(***************************************************************************)
EXTENDS SequencesExt

CONSTANTS
  FunctionNames,
  Saves,     \* calls: [rows |-> sequence of FunctionRegistryRow, update_existing]
  NoSave

ASSUME SavesAssumption ==
  NoSave \notin Saves /\ \A save \in Saves : save.rows \in Seq(ToSet(save.rows))

VARIABLES
  function_rows,   \* function name -> its rows in the table
  last_save        \* the last call made

registryVars == <<function_rows, last_save>>

RegistryInit ==
  /\ function_rows = [n \in FunctionNames |-> <<>>]
  /\ last_save = NoSave

\* ON target.function_name = source.function_name
RowsNaming(n, rows) ==
  FlattenSeq([i \in DOMAIN rows |->
                IF rows[i].function_name = n THEN <<rows[i]>> ELSE <<>>])

\* Delta refuses to update a row that two source rows match; it does insert both
\* of two source rows that match none.
Ambiguous(table, save) ==
  /\ save.update_existing
  /\ \E n \in FunctionNames : table[n] # <<>> /\ Len(RowsNaming(n, save.rows)) > 1

MergedBlindly(table, save) ==   \* mutant: rows are inserted whether matched or not
  [n \in FunctionNames |-> table[n] \o RowsNaming(n, save.rows)]
Merged(table, save) ==
  [n \in FunctionNames |->
     LET source == RowsNaming(n, save.rows)
     IN  IF source = <<>> THEN table[n]
         ELSE IF table[n] = <<>> THEN source
         ELSE IF save.update_existing THEN [i \in DOMAIN table[n] |-> source[1]]
         ELSE table[n]]

SaveFunctionRegistryRows(save) ==
  /\ last_save' = save
  /\ function_rows' = IF Ambiguous(function_rows, save) THEN function_rows
                      ELSE Merged(function_rows, save)

RegistryNext == \E save \in Saves : SaveFunctionRegistryRows(save)
RegistrySpec == RegistryInit /\ [][RegistryNext]_registryVars

-----------------------------------------------------------------------------
\* README.md:971-981: a call repeated because its answer was lost adds no second
\* row and changes none, also when the call itself names a function twice.
RetriedSaveAddsNothing ==
  [][last_save' = last_save => function_rows' = function_rows]_registryVars
=============================================================================
