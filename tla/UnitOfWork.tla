------------------------------ MODULE UnitOfWork ------------------------------
(***************************************************************************)
(* How a request's changes reach a row.  A session keeps the first copy it *)
(* reads of a row, changes that copy, and flushes the columns whose value  *)
(* differs from it (SQLAlchemy's unit of work, as app/core/database.py     *)
(* configures it).                                                         *)
(***************************************************************************)

\* Faulty variant: the UPDATE carries every column.
WriteWhole(current, old, new) == new

\* old: the copy read; new: the copy as the handler leaves it; current: the row meanwhile.
Write(current, old, new) ==
    [c \in DOMAIN current |-> IF new[c] = old[c] THEN current[c] ELSE new[c]]
===============================================================================
