------------------------------ MODULE PushList ------------------------------
(***************************************************************************)
(* The table of pushes in the window of client_gui/src and the dialog that *)
(* filters it: every check box changed replaces the filter of its column   *)
(* in MultiFilterProxyModel, which then decides about each row.            *)
(*                                                                         *)
(* A row is the words of its columns; time and text, which no box filters, *)
(* are left out.  contains() is equality here, for no word on a box is     *)
(* part of another word of its column.                                     *)
(***************************************************************************)
EXTENDS Naturals, Sequences

CONSTANT MaxRows  \* bound on the pushes received

ASSUME RowsAssumption == MaxRows \in Nat

Enumerator == 0 .. 2  \* of PushPriority, PushCategory and PushSource
PriorityColumn == 1
CategoryColumn == 2
SourceColumn == 3
Columns == {PriorityColumn, CategoryColumn}  \* the columns with boxes

pushPriorityToString(p) == <<"Normal", "High", "Critical">>[p + 1]
pushCategoryToString(c) == <<"Notification", "Warning", "Error">>[c + 1]
pushSourceToString(s) == <<"Source1", "Warning", "Source3">>[s + 1]

\* checkboxMapping: the words on the boxes of a column.
Boxes(column) ==
  IF column = PriorityColumn THEN {"Normal", "High", "Critical"}
                             ELSE {"Notification", "Warning", "Error"}

VARIABLES
  rows,     \* model_
  checked,  \* the words of the checked boxes
  filters   \* filters_: the words of each column that is in the map

list_vars == <<rows, checked, filters>>

ListInit ==
  /\ rows = <<>>
  /\ checked = Boxes(PriorityColumn) \cup Boxes(CategoryColumn)
  /\ filters = <<>>

handlePushReceived(priority, category, source) ==
  /\ Len(rows) < MaxRows
  /\ rows' = Append(rows, <<pushPriorityToString(priority),
                            pushCategoryToString(category),
                            pushSourceToString(source)>>)
  /\ UNCHANGED <<checked, filters>>

\* Mutant: a column whose boxes are all cleared keeps its last filter.
setColumnFilter_Variant(column, words) ==
  filters' = IF words # {}
             THEN [c \in DOMAIN filters \cup {column} |->
                     IF c = column THEN words ELSE filters[c]]
             ELSE filters

\* onFilterChanged, enabled if there is any word.
setColumnFilter(column, words) ==
  filters' = IF words # {}
             THEN [c \in DOMAIN filters \cup {column} |->
                     IF c = column THEN words ELSE filters[c]]
             ELSE [c \in DOMAIN filters \ {column} |-> filters[c]]

\* A box is clicked: updateFilter collects the checked boxes of its column.
updateFilter(column, box) ==
  /\ checked' = IF box \in checked THEN checked \ {box} ELSE checked \cup {box}
  /\ setColumnFilter(column, checked' \cap Boxes(column))
  /\ UNCHANGED rows

filterAcceptsRow(row) == \A column \in DOMAIN filters : row[column] \in filters[column]

ListNext ==
  \/ \E p, c, s \in Enumerator : handlePushReceived(p, c, s)
  \/ \E column \in Columns : \E box \in Boxes(column) : updateFilter(column, box)

ListSpec == ListInit /\ [][ListNext]_list_vars

\* The table shows what the boxes say, however often they were changed and whether a
\* push arrived before or after: a row is shown exactly if the box of its word is
\* checked in each column; a column without any checked box hides nothing
\* (filters_dialog.cpp:47).
FilterIsBoxes ==
  \A i \in DOMAIN rows :
    filterAcceptsRow(rows[i]) <=>
      \A column \in Columns :
        checked \cap Boxes(column) # {} => rows[i][column] \in checked

=============================================================================
