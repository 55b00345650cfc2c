---------------------------- MODULE CustomerPages ----------------------------
(***************************************************************************)
(* The administrator's list of customers, ten on a page.  The page number  *)
(* comes from a button, which stays in the chat while customers are added  *)
(* and deleted: any number may be asked for, whatever the list is now.     *)
(***************************************************************************)
EXTENDS Integers

PerPage == 10

TotalPages(total) == IF total > 0 THEN (total + PerPage - 1) \div PerPage ELSE 1

Pages(total) == 0..TotalPages(total) - 1

\* The page that is shown when page is asked for.
Clamped(page, total) ==
    IF page < 0 THEN 0
    ELSE IF page >= TotalPages(total) THEN TotalPages(total) - 1 ELSE page

\* The slice customers[start:end] of the sorted list.
PageStart(page, total) == Clamped(page, total) * PerPage
PageEnd(page, total) ==
    IF PageStart(page, total) + PerPage > total THEN total
    ELSE PageStart(page, total) + PerPage

\* The customers on it, numbered from 1.
Shown(page, total) == PageStart(page, total) + 1 .. PageEnd(page, total)

\* The pages its buttons lead to: the one before and the one after it, where
\* there are such.
Pager(page, total) ==
    LET p == Clamped(page, total) IN
    {q \in {p - 1, p + 1} : 0 <= q /\ q < TotalPages(total)}

-----------------------------------------------------------------------------
\* The slice lies in the list, and is empty only if the list is: no button,
\* however old, ends the bot's process or shows an empty page (menu.go:148).
SliceInBounds(page, total) ==
    /\ 0 <= PageStart(page, total)
    /\ PageStart(page, total) <= PageEnd(page, total)
    /\ PageEnd(page, total) <= total
    /\ total > 0 => Shown(page, total) # {}

\* Every customer is on exactly one page.
OnOnePage(i, total) ==
    \E p \in Pages(total) :
        i \in Shown(p, total) /\ \A q \in Pages(total) : i \in Shown(q, total) => q = p
=============================================================================
