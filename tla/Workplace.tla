------------------------------- MODULE Workplace -------------------------------
(***************************************************************************)
(* What the modules of the office have in common: the staff ids, the       *)
(* handlers that may be in flight, the value for a column that is null,    *)
(* and what TypeORM and the lists of the API do with rows (external).      *)
(***************************************************************************)
EXTENDS Naturals, FiniteSets, Sequences

CONSTANTS
    Staff,    \* ids of rows of table staff
    Slots,    \* how many handlers may be in flight
    None      \* null

\* findAndCount with skip (page - 1) * limit and take limit, on the rows in
\* the order of the query
PageShifted(rows, page, limit) ==
    SubSeq(rows, page * limit + 1,
           IF (page + 1) * limit < Len(rows) THEN (page + 1) * limit ELSE Len(rows))
Page(rows, page, limit) ==
    SubSeq(rows, (page - 1) * limit + 1,
           IF page * limit < Len(rows) THEN page * limit ELSE Len(rows))

\* Math.ceil(total / limit)
TotalPages(total, limit) == (total + limit - 1) \div limit

\* Math.round((100 * part) / whole), 0 of nothing
Percent(part, whole) ==
    IF whole = 0 THEN 0 ELSE (200 * part + whole) \div (2 * whole)

\* The row after the write of a save that wants a row and whose look found one
Merge(row, was, want) ==
    [k \in DOMAIN row |-> IF want[k] # was[k] THEN want[k] ELSE row[k]]
================================================================================
