------------------------- MODULE MCBotConversation -------------------------
(* The conversations as they are; besides, the pages of the list, for lists *)
(* of up to three pages and buttons of up to two pages more.                *)
EXTENDS BotConversation, CustomerPages

ASSUME PagesAssumption ==
    \A total \in 0..31 :
        /\ \A page \in -1..5 : SliceInBounds(page, total) /\ Pager(page, total) \subseteq Pages(total)
        /\ \A i \in 1..total : OnOnePage(i, total)
=============================================================================
