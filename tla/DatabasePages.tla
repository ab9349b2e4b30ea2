---------------------------- MODULE DatabasePages ----------------------------
(* The page allocation of a database file: the bitset of used pages on page   *)
(* 0 (DatabaseMetaPage), which every structure of the file takes its pages    *)
(* from and gives them back to (Database::acquireNewPage, releasePage).       *)
EXTENDS Integers

CONSTANT MaxPageNum      \* DatabaseMetaPage::MAX_PAGE_NUM, 32768 in the code

ASSUME MaxPageNumAssumption == MaxPageNum \in Nat /\ MaxPageNum >= 2

PageIds == 0 .. MaxPageNum - 1
NoPage  == -1

\* DatabaseMetaPage::makeInit: page 0 is the meta page, page 1 the SysIndexPage.
InitialPages == {0, 1}

\* Database::isPageUsed; Database::getPage throws for any other page.
IsPageUsed(used, p) == p = 0 \/ p \in used

\* DatabaseMetaPage::acquireNewPage takes the lowest free page, or throws.
HasFreePage(used) == PageIds \ used # {}
NewPage(used) ==
    CHOOSE p \in PageIds \ used : \A q \in PageIds \ used : p <= q
=============================================================================
