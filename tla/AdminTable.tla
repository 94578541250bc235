----------------------------- MODULE AdminTable -----------------------------
(***************************************************************************)
(* smart-static, jquery.table.min.js on the page of the users (user.jsp):  *)
(* the table an administrator sees in the browser, with its pages, its     *)
(* checkboxes, its buttons and their confirmation dialog.  The lists are   *)
(* fetched synchronously; the operations are posted asynchronously, and    *)
(* each reloads the table when its answer is there.                        *)
(*                                                                         *)
(* One table, over the users of UserAccounts, which the server's threads   *)
(* change meanwhile.  A page and the number of rows are read at once; the  *)
(* search form is empty.  External: bootbox, whose dialog is modal.        *)
(***************************************************************************)
EXTENDS UserAccounts, Sequences

CONSTANTS
    PageSizes,      \* options.pagination.pageSizes
    DefaultSize,    \* settings.pageSize of a page that is opened
    MaxPage         \* bound: pages turned back one by one

ASSUME PageAssumption == PageSizes \subseteq Nat \ {0} /\ DefaultSize \in PageSizes
ASSUME TableBounds == MaxPage \in Nat

Op == {"enable", "disable", "delete", "resetPassword"}
Confirmed == {"delete", "resetPassword"}

VARIABLES
    page,           \* settings.pageNo; text when it was read from a button
    pageSize, list, rowCount, pageCount,    \* settings
    shown,          \* the rows of list are in the page
    checked,        \* rows whose box is checked
    dialog,         \* the operation to confirm, and (history) the users it was asked for
    posts           \* operations on their way; when done, the table is yet to reload

settings == <<page, pageSize, list, rowCount, pageCount>>
table == <<settings, shown, checked>>
tableVars == <<accounts, events, table, dialog, posts>>

Request == [op : Op, ids : SUBSET Id, asked : SUBSET Id, done : BOOLEAN]

TableTypeOK ==
    /\ AccountsTypeOK
    /\ page \in [no : Nat, text : BOOLEAN]
    /\ pageSize \in PageSizes
    /\ list \in Seq(Id) /\ Len(list) <= MaxUsers
    /\ rowCount \in 0..MaxUsers /\ pageCount \in 0..MaxUsers
    /\ shown \in BOOLEAN
    /\ checked \subseteq DOMAIN list /\ (checked # {} => shown)
    /\ dialog \in [op : Confirmed, asked : SUBSET Id] \cup {None}
    /\ posts \in SUBSET Request

-----------------------------------------------------------------------------
\* The server's answer to list

\* ORDER BY createTime DESC
Place(i) == Cardinality({j \in Present : j >= i})

\* LIMIT (no - 1) * size, size
Page(no, size) ==
    LET first == (no - 1) * size
        ids == {i \in Present : Place(i) \in (first + 1)..(first + size)}
    IN  [k \in 1..Cardinality(ids) |->
            CHOOSE i \in ids : Place(i) = first + k]

Pages(count, size) == (count + size - 1) \div size

\* ajaxData: settings are extended with an answer; one without data (an error of the
\* server, say) leaves them and the old rows are shown again; with no answer none are.
AjaxData(p, size, old) ==
    \/ /\ page' = [no |-> p.no, text |-> FALSE]
       /\ pageSize' = size
       /\ list' = Page(p.no, size)
       /\ rowCount' = Cardinality(Present)
       /\ pageCount' = Pages(Cardinality(Present), size)
       /\ shown' = TRUE
       /\ UNCHANGED events
    \/ /\ Event
       /\ page' = p
       /\ pageSize' = size
       /\ list' = old.list /\ rowCount' = old.rowCount /\ pageCount' = old.pageCount
       /\ shown' \in BOOLEAN

Settings == [list |-> list, rowCount |-> rowCount, pageCount |-> pageCount]

\* Mutant of Load: the boxes stay checked.
LoadOver(p, size, old) == AjaxData(p, size, old) /\ checked' = {k \in checked : k <= Len(list')}

\* reload: clear, then load; bodyHandler unchecks every box.
Load(p, size, old) == AjaxData(p, size, old) /\ checked' = {}

-----------------------------------------------------------------------------
\* Pages

Number(n) == [no |-> n, text |-> FALSE]

\* The dialog is modal.
Free == dialog = None

TurnTo(p, size) ==
    /\ Free
    /\ Load(p, size, Settings)
    /\ UNCHANGED <<accounts, dialog, posts>>

\* The page is opened: its script runs anew, and generate loads.
Generate ==
    /\ Free
    /\ Load(Number(1), DefaultSize, [list |-> <<>>, rowCount |-> 0, pageCount |-> 0])
    /\ UNCHANGED <<accounts, dialog, posts>>

Search == TurnTo(Number(1), pageSize)

FirstPage == page.no > 1 /\ TurnTo(Number(1), pageSize)

PreviousPage == page.no \in 2..MaxPage /\ TurnTo(Number(page.no - 1), pageSize)

\* + appends the digit 1 to a page number that is text.
NextNumber == IF page.text THEN 10 * page.no + 1 ELSE page.no + 1

NextPage == page.no < pageCount /\ TurnTo([page EXCEPT !.no = NextNumber], pageSize)

LastPage == page.no < pageCount /\ TurnTo(Number(pageCount), pageSize)

OffsetSize == 3

\* A numbered button, whose html is text; OffsetSize of them before the page and behind it.
NumberButton(n) ==
    /\ \/ n \in 1..(page.no - 1) /\ n >= page.no - OffsetSize
       \/ n \in NextNumber..(NextNumber + OffsetSize - 1) /\ n <= pageCount
    /\ n <= MaxPage
    /\ TurnTo([no |-> n, text |-> TRUE], pageSize)

\* Mutant of ChangeSize: the page number stays.
ChangeSizeHere(size) == size # pageSize /\ TurnTo(page, size)

ChangeSize(size) == size # pageSize /\ TurnTo(Number(1), size)

-----------------------------------------------------------------------------
\* Boxes, buttons and dialog

Check(k) ==
    /\ Free /\ shown /\ k \in DOMAIN list
    /\ checked' = IF k \in checked THEN checked \ {k} ELSE checked \cup {k}
    /\ UNCHANGED <<accounts, events, settings, shown, dialog, posts>>

\* The box in the table's head.
CheckAll ==
    /\ Free /\ shown /\ list # <<>>
    /\ checked' \in {{}, DOMAIN list}
    /\ UNCHANGED <<accounts, events, settings, shown, dialog, posts>>

\* getSelectedItemKeys
Selected(ks) == {list[k] : k \in ks}

\* ajaxRequest: the rows that are checked now.
Post(op, ids, asked) ==
    /\ Event
    /\ posts' = posts \cup {[op |-> op, ids |-> ids, asked |-> asked, done |-> FALSE]}

\* ajax: at least one row; some operations are to be confirmed.
Ajax(op, ks) ==
    /\ ks # {}
    /\ IF op \in Confirmed
       THEN dialog' = [op |-> op, asked |-> Selected(ks)] /\ UNCHANGED <<posts, events>>
       ELSE Post(op, Selected(ks), Selected(ks)) /\ UNCHANGED dialog

\* A button above the table.
Tool(op) ==
    /\ Free
    /\ Ajax(op, checked)
    /\ UNCHANGED <<accounts, table>>

\* A button in row k, which checks this row only.  A row shows one of enable and disable,
\* but the buttons above the table can do the same.
Operate(op, k) ==
    /\ Free /\ shown /\ k \in DOMAIN list
    /\ checked' = {k}
    /\ Ajax(op, {k})
    /\ UNCHANGED <<accounts, settings, shown>>

Confirm ==
    /\ ~Free
    /\ Post(dialog.op, Selected(checked), dialog.asked)
    /\ dialog' = None
    /\ UNCHANGED <<accounts, table>>

Cancel ==
    /\ ~Free
    /\ dialog' = None
    /\ UNCHANGED <<accounts, events, table, posts>>

-----------------------------------------------------------------------------
\* Requests

\* The server does what is posted; no ids are refused (NOT_BLANK).
Handle(p) ==
    /\ p \in posts /\ ~p.done
    /\ posts' = (posts \ {p}) \cup {[p EXCEPT !.done = TRUE]}
    /\ CASE p.ids = {}              -> UNCHANGED accounts
         [] p.op = "delete"         -> DeleteById(p.ids)
         [] p.op = "resetPassword"  -> ResetPassword(p.ids)
         [] OTHER                   -> Enable(p.ids, p.op = "enable")
    /\ UNCHANGED <<events, table, dialog>>

\* It does not reach the server.
Fail(p) ==
    /\ p \in posts /\ ~p.done
    /\ Event
    /\ posts' = (posts \ {p}) \cup {[p EXCEPT !.done = TRUE]}
    /\ UNCHANGED <<accounts, table, dialog>>

\* complete: the table is reloaded, whatever the answer, and whether or not a dialog is open.
After(p) ==
    /\ p \in posts /\ p.done
    /\ posts' = posts \ {p}
    /\ Load(page, pageSize, Settings)
    /\ UNCHANGED <<accounts, dialog>>

-----------------------------------------------------------------------------

TableInit ==
    /\ AccountsInit
    /\ page = Number(1)
    /\ pageSize = DefaultSize
    /\ list = <<>> /\ rowCount = 0 /\ pageCount = 0
    /\ shown = FALSE /\ checked = {}
    /\ dialog = None /\ posts = {}

TableNext ==
    \/ AccountsNext /\ UNCHANGED <<table, dialog, posts>>
    \/ Generate \/ Search \/ FirstPage \/ PreviousPage \/ NextPage \/ LastPage
    \/ \E n \in 1..MaxPage : NumberButton(n)
    \/ \E size \in PageSizes : ChangeSize(size)
    \/ CheckAll
    \/ \E k \in DOMAIN list : Check(k)
    \/ \E op \in Op : Tool(op)
    \/ \E op \in Op, k \in DOMAIN list : Operate(op, k)
    \/ Confirm \/ Cancel
    \/ \E p \in posts : Handle(p) \/ Fail(p) \/ After(p)

TableSpec == TableInit /\ [][TableNext]_tableVars

-----------------------------------------------------------------------------
\* What is promised of the table

\* What is posted, when an answer that was under way reloads the table behind the dialog
\* (lines 478-482, 535-540), is for the users it was asked for, or for nobody.
PostsWhatWasAsked == \A p \in posts : p.ids \in {p.asked, {}}

InRange == page.no = 1 \/ page.no <= pageCount

\* The table leaves its range of pages only when there are fewer users than it knew of,
\* past a page number that is text, or when it counts pages of a size it no longer has,
\* the answer to ChangeSize having failed (paginationHandler, lines 303-339).
StaysInRange ==
    [][InRange /\ ~InRange' =>
         \/ Cardinality(Present) < rowCount
         \/ page.text
         \/ pageCount # Pages(rowCount, pageSize)]_tableVars
=============================================================================
