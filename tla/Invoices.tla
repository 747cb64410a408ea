------------------------------ MODULE Invoices ------------------------------
(***************************************************************************)
(* The invoices of one customer company (hr/payment/invoices.py,           *)
(* hr/utils/utils.py, core/models/core.py Invoice) and their copies in the *)
(* accounting service (myob/tasks.py): approved time sheets are billed by  *)
(* a nightly task or by a request to recreate an invoice, invoices are     *)
(* approved or deleted by requests, sent by sync_invoice, and marked paid  *)
(* once the accounting service has closed them.  A job offer that is       *)
(* deleted takes its time sheets with it, and these their lines.           *)
(*                                                                         *)
(* Nothing here runs in a transaction, so a step is one statement.  The    *)
(* lines of an invoice are a bag of time sheets: a sheet has one rate, and *)
(* the total is the number of lines.  Day 1 is a Monday and the first of a *)
(* month of 31 days.                                                       *)
(***************************************************************************)
EXTENDS Integers, FiniteSets, FiniteSetsExt

CONSTANTS
  Sheets, Invoices, Workers,
  NoInvoice, NoSheet,
  Day,        \* the date of each time sheet's shift
  Group,      \* its jobsite or candidate, whichever the rule separates
  Rules,      \* the invoice rules to consider: [separation, period, ref]
  MaxTasks,   \* bound on the tasks and requests begun
  Nights,     \* the days on which something happens, the first of them first
  MaxFaults   \* bound on the tasks that die between two statements

Separations == {"one_invoice", "per_jobsite", "per_candidate"}
Periods == {"daily", "weekly", "fortnightly", "monthly"}

ASSUME InvoicesAssumption ==
  /\ NoInvoice \notin Invoices /\ NoSheet \notin Sheets
  /\ IsFiniteSet(Sheets) /\ IsFiniteSet(Invoices)
  /\ Day \in [Sheets -> Nat \ {0}] /\ Nights \subseteq Nat \ {0} /\ Nights # {}
  /\ Rules \subseteq [separation : Separations, period : Periods, ref : Nat]
  /\ MaxFaults \in Nat /\ MaxTasks \in Nat

VARIABLES
  rule,     \* the company's invoice rule
  today,
  ready,    \* the sheets submitted by the candidate and approved
  row,      \* the Invoice rows
  lines,    \* the InvoiceLine rows: how many of each sheet an invoice has
  counter,  \* InvoiceRule.starting_number
  remote,   \* the documents of the accounting service for each invoice
  job,      \* what each worker is doing
  gone,     \* the sheets deleted with their job offer
  tasks, faults, \* tasks begun, tasks that died
  overlap, mixed, broken, skipped, cut  \* history, see below

\* overlap: two generations of invoices ran at the same time.
\* mixed: the invoices a second worker began to work on while one still was.
\* broken: the invoices a task died on, or could not compare with the remote.
\* skipped: the invoices not sent because the company file is disabled.
\* cut: the invoices that lost the line of a sheet deleted with its job offer.
history == <<overlap, mixed, broken, skipped>>
business == <<rule, today, ready, gone, cut>>
bounds == <<tasks, faults>>
vars == <<business, row, lines, counter, remote, job, bounds, history>>

SyncStates == {"not_synced", "sync_scheduled", "syncing", "synced", "sync_failed"}
Rows == [state : {"none", "live", "deleted"}, number : Nat, date : Nat,
         approved : BOOLEAN, sync : SyncStates, paid : BOOLEAN, total : Nat]
Bags == [Sheets -> Nat]
Empty == [s \in Sheets |-> 0]
NoRow == [state |-> "none", number |-> 0, date |-> 0, approved |-> FALSE,
          sync |-> "not_synced", paid |-> FALSE, total |-> 0]
Groups == {{s \in Sheets : Group[s] = Group[r]} : r \in Sheets}

Generating == {"select", "number", "rule", "insert", "old", "delete", "bulk", "total"}
Syncing == {"schedule", "get", "mark", "compare", "post", "put", "fail", "done"}
Requests == {"approve", "destroy"}

\* A worker: its step, its invoice, whether that was given to the task, the
\* day up to which it bills, the groups it has still to do, the sheets and the
\* old lines it has read, a number it has read, the remote documents it saw,
\* its copy of the row, and the sheet it was queued for, if that was not billed.
Jobs == [at : {"idle"} \cup Generating \cup Syncing \cup Requests,
         on : Invoices \cup {NoInvoice}, given : BOOLEAN, to : Int,
         groups : SUBSET (SUBSET Sheets), todo : SUBSET Sheets, old : Bags, num : Nat,
         seen : [copies : Nat, lines : Nat], copy : Rows,
         for : Sheets \cup {NoSheet}]
Idle == [at |-> "idle", on |-> NoInvoice, given |-> FALSE, to |-> 0,
         groups |-> {}, todo |-> {}, old |-> Empty, num |-> 0,
         seen |-> [copies |-> 0, lines |-> 0], copy |-> NoRow, for |-> NoSheet]

\* The rows, documents and workers have their values.
TypeOK ==
  /\ rule \in Rules /\ today \in Nights /\ ready \subseteq Sheets
  /\ row \in [Invoices -> Rows] /\ lines \in [Invoices -> Bags]
  /\ counter \in Nat
  /\ remote \in [Invoices -> [copies : Nat, lines : Nat]]
  /\ job \in [Workers -> Jobs] /\ faults \in 0..MaxFaults /\ tasks \in 0..MaxTasks
  /\ overlap \in BOOLEAN /\ mixed \subseteq Invoices
  /\ broken \subseteq Invoices /\ skipped \subseteq Invoices
  /\ gone \subseteq Sheets /\ cut \subseteq Invoices

Init ==
  /\ rule \in Rules /\ today = Min(Nights) /\ ready = {}
  /\ row = [i \in Invoices |-> NoRow] /\ lines = [i \in Invoices |-> Empty]
  /\ counter = 1
  /\ remote = [i \in Invoices |-> [copies |-> 0, lines |-> 0]]
  /\ job = [w \in Workers |-> Idle] /\ faults = 0 /\ tasks = 0
  /\ overlap = FALSE /\ mixed = {} /\ broken = {} /\ skipped = {}
  /\ gone = {} /\ cut = {}

-----------------------------------------------------------------------------

Live(i) == row[i].state = "live"
Count(i) == SumFunction(lines[i])
Billed(s) == \E i \in Invoices : lines[i][s] > 0
Busy(i) == {w \in Workers : job[w].at # "idle" /\ job[w].on = i}

\* The worker takes a step, or ends its task.
Goto(w, j) == job' = [job EXCEPT ![w] = j]
At(w, step) == Goto(w, [job[w] EXCEPT !.at = step])
End(w) == Goto(w, Idle)

\* A worker begins to work on invoice i: with another there, they are mixed.
Begin(w, i, j) ==
  /\ job[w].at = "idle" /\ tasks < MaxTasks
  /\ tasks' = tasks + 1
  /\ Goto(w, j)
  /\ mixed' = IF i \in Invoices /\ Busy(i) # {} THEN mixed \cup {i} ELSE mixed

-----------------------------------------------------------------------------
(* Dates and the choice of the sheets *)

Weekday(d) == (d - 1) % 7            \* date.weekday(): Monday is 0
MonthDay(d) == ((d - 1) % 31) + 1
Monday(d) == d - Weekday(d)

\* InvoiceRule.last_invoice_created; 0 is None.
LastInvoice == Max({0} \cup {row[i].date : i \in {k \in Invoices : Live(k)}})

\* The fortnight from day f, or a later one, that get_invoice_dates finds for
\* day d: it moves on while more than 14 days are spent.
Fortnight(f, d) == IF d - f > 14 THEN f + 14 * ((d - f - 1) \div 14) ELSE f

\* get_invoice_dates: the period of the invoice that day d belongs to.
InvoiceDates(d) ==
  CASE rule.period = "daily" -> [from |-> d, to |-> d + 1]
    [] rule.period = "weekly" -> [from |-> Monday(d), to |-> Monday(d) + 7]
    [] rule.period = "fortnightly" ->
         LET f == IF LastInvoice = 0 THEN Monday(d)
                  ELSE Fortnight(Monday(LastInvoice), d)
         IN [from |-> f, to |-> f + 14]
    [] rule.period = "monthly" ->
         [from |-> d - MonthDay(d) + 1, to |-> d - MonthDay(d) + 31]

\* Mutant of Billable: the sheets that have lines are billed too.
BillableAgain(to) == {s \in ready : Day[s] < to}

\* InvoiceService.generate_invoice: the sheets it takes, however old.
Billable(to) == {s \in ready : Day[s] < to /\ ~Billed(s)}

\* All the sheets at once, those of each jobsite, or those of each candidate
\* with something to bill.
GroupsToDo(to) ==
  CASE rule.separation = "one_invoice" -> {Sheets}
    [] rule.separation = "per_jobsite" -> Groups
    [] rule.separation = "per_candidate" -> {g \in Groups : g \cap Billable(to) # {}}

\* get_invoice: an invoice with a line of the period, and of the sheet's group.
Matching(s, d) ==
  {i \in Invoices : Live(i) /\ \E r \in Sheets :
     /\ lines[i][r] > 0 /\ Day[r] \in d.from..(d.to - 1)
     /\ rule.separation # "one_invoice" => Group[r] = Group[s]}
Latest(S) == {i \in S : \A k \in S : row[k].date <= row[i].date}

-----------------------------------------------------------------------------
(* Generation of invoices *)

\* Mutant of Denied: an approved invoice is updated.
DeniedUnlessSynced(i) ==
  row[i].paid \/ row[i].sync \in {"sync_scheduled", "syncing", "synced"}

\* generate_invoice (task): the invoices it leaves alone.
Denied(i) ==
  \/ row[i].paid \/ row[i].approved
  \/ row[i].sync \in {"sync_scheduled", "syncing", "synced"}

Start(w, i, to, s) ==
  /\ Begin(w, i, [Idle EXCEPT !.at = "select", !.on = i, !.given = i # NoInvoice,
                              !.to = to, !.groups = GroupsToDo(to),
                              !.for = IF s \in ready /\ ~Billed(s) THEN s ELSE NoSheet])
  /\ overlap' = (overlap \/ \E v \in Workers : job[v].at \in Generating)
  /\ UNCHANGED <<business, row, lines, counter, remote, faults, broken, skipped>>

\* recreate_invoice queues generate_invoice for a sheet: it updates the latest
\* invoice of the sheet's period, unless that is denied, or creates one.
Recreate(w, s) ==
  /\ Day[s] <= today
  /\ LET d == InvoiceDates(Day[s])
         found == Latest(Matching(s, d))
     IN IF found = {} THEN Start(w, NoInvoice, d.to, s)
        ELSE \E i \in found : ~Denied(i) /\ Start(w, i, d.to, s)

\* generate_invoices, at night: the period that has just ended, if any.
NightDates ==
  CASE rule.period = "daily" -> {[from |-> today - 1, to |-> today]}
    [] rule.period = "weekly" /\ Weekday(today) = rule.ref - 1 ->
         LET to == today - rule.ref IN {[from |-> to - 6, to |-> to]}
    [] rule.period = "monthly" /\ MonthDay(today) = rule.ref ->
         LET to == today - rule.ref IN {[from |-> to - MonthDay(to) + 1, to |-> to]}
    [] rule.period = "fortnightly" ->
         LET from == IF LastInvoice = 0 THEN today - rule.ref - 14
                     ELSE LastInvoice - rule.ref
         IN {d \in {[from |-> from, to |-> from + 14]} :
               Weekday(d.from) = 0 /\ today = d.to + rule.ref}
    [] OTHER -> {}

\* It bills the period if no invoice has a line of it, a fortnight always.
Nightly(w) ==
  \E d \in NightDates :
    /\ rule.period = "fortnightly" \/ ~\E i \in Invoices, s \in Sheets :
         Live(i) /\ lines[i][s] > 0 /\ Day[s] \in d.from..d.to
    /\ Start(w, NoInvoice, d.to, NoSheet)

\* Mutant of Select: it stops at a group with nothing to bill.
SelectUntilNone(w, g) ==
  /\ job[w].at = "select" /\ g \in job[w].groups
  /\ LET todo == Billable(job[w].to) \cap g
         next == IF todo = {} THEN "select"
                 ELSE IF job[w].given THEN "old" ELSE "number"
     IN Goto(w, [job[w] EXCEPT !.at = next, !.todo = todo,
                               !.groups = IF todo = {} THEN {} ELSE @ \ {g}])
  /\ UNCHANGED <<business, row, lines, counter, remote, bounds, history>>

\* generate_invoice and _prepare_invoice: the sheets of one group, if any.
Select(w, g) ==
  /\ job[w].at = "select" /\ g \in job[w].groups
  /\ LET todo == Billable(job[w].to) \cap g
         next == IF todo = {} THEN "select"
                 ELSE IF job[w].given THEN "old" ELSE "number"
     IN Goto(w, [job[w] EXCEPT !.at = next, !.todo = todo, !.groups = @ \ {g}])
  /\ UNCHANGED <<business, row, lines, counter, remote, bounds, history>>

Finish(w) ==
  /\ job[w].at = "select" /\ job[w].groups = {} /\ End(w)
  /\ UNCHANGED <<business, row, lines, counter, remote, bounds, history>>

\* Invoice.save of a new invoice: the rule is read, its number counted up and
\* written back, and the row inserted.
ReadRule(w) ==
  /\ job[w].at = "number"
  /\ Goto(w, [job[w] EXCEPT !.at = "rule", !.num = counter])
  /\ UNCHANGED <<business, row, lines, counter, remote, bounds, history>>

\* Mutant of SaveRule: the number is not counted up.
SaveRuleKept(w) ==
  /\ job[w].at = "rule" /\ At(w, "insert")
  /\ UNCHANGED <<business, row, lines, counter, remote, bounds, history>>

SaveRule(w) ==
  /\ job[w].at = "rule" /\ At(w, "insert")
  /\ counter' = job[w].num + 1
  /\ UNCHANGED <<business, row, lines, remote, bounds, history>>

Insert(w) ==
  /\ job[w].at = "insert"
  /\ \E i \in Invoices :
       /\ row[i].state = "none"
       /\ row' = [row EXCEPT ![i] = [NoRow EXCEPT !.state = "live",
                                       !.number = job[w].num, !.date = today]]
       /\ Goto(w, [job[w] EXCEPT !.at = "old", !.on = i, !.num = 0])
  /\ UNCHANGED <<business, lines, counter, remote, bounds, history>>

\* The lines on the invoice before: none of them is among the new ones, which
\* are of sheets without a line, so all of them are outdated.
ReadLines(w) ==
  /\ job[w].at = "old"
  /\ Goto(w, [job[w] EXCEPT !.at = "delete", !.old = lines[job[w].on]])
  /\ UNCHANGED <<business, row, lines, counter, remote, bounds, history>>

\* Mutant of DeleteLine: that the line is gone already is not noticed.
DeleteLineTwice(w, s) ==
  LET j == job[w] IN
  /\ j.at = "delete" /\ j.old[s] > 0
  /\ Goto(w, [j EXCEPT !.old[s] = @ - 1])
  /\ lines' = [lines EXCEPT ![j.on][s] = @ - 1]
  /\ UNCHANGED <<business, row, counter, remote, bounds, history>>

DeleteLine(w, s) ==
  LET j == job[w] IN
  /\ j.at = "delete" /\ j.old[s] > 0
  /\ Goto(w, [j EXCEPT !.old[s] = @ - 1])
  /\ lines' = [lines EXCEPT ![j.on][s] = IF @ = 0 THEN 0 ELSE @ - 1]
  /\ UNCHANGED <<business, row, counter, remote, bounds, history>>

\* bulk_create: it fails, and the task with it, if the invoice or one of the
\* sheets was deleted.
InsertLines(w) ==
  LET j == job[w] IN
  /\ j.at = "delete" /\ j.old = Empty
  /\ IF Live(j.on) /\ j.todo \cap gone = {}
     THEN /\ lines' = [lines EXCEPT ![j.on] =
                         [s \in Sheets |-> @[s] + (IF s \in j.todo THEN 1 ELSE 0)]]
          /\ Goto(w, [j EXCEPT !.at = "total", !.todo = {}])
          /\ UNCHANGED broken
     ELSE End(w) /\ broken' = broken \cup {j.on} /\ UNCHANGED lines
  /\ UNCHANGED <<business, row, counter, remote, bounds, overlap, mixed, skipped>>

\* Mutant of SaveTotal: the total is not written.
SaveTotalKept(w) ==
  LET j == job[w] IN
  /\ j.at = "total"
  /\ Goto(w, [j EXCEPT !.at = "select", !.on = IF j.given THEN @ ELSE NoInvoice])
  /\ UNCHANGED <<business, row, lines, counter, remote, bounds, history>>

\* AbstractOrder.save with update_fields; then the next group, which has a new
\* invoice unless one was given.
SaveTotal(w) ==
  LET j == job[w] IN
  /\ j.at = "total"
  /\ IF Live(j.on)
     THEN /\ row' = [row EXCEPT ![j.on].total = Count(j.on)]
          /\ Goto(w, [j EXCEPT !.at = "select", !.on = IF j.given THEN @ ELSE NoInvoice])
     ELSE End(w) /\ UNCHANGED row
  /\ UNCHANGED <<business, lines, counter, remote, bounds, history>>

-----------------------------------------------------------------------------
(* sync_invoice *)

\* set_sync_status, which fails, and the task with it, if the row is deleted.
SetSync(w, status, next) ==
  IF Live(job[w].on)
  THEN /\ row' = [row EXCEPT ![job[w].on].sync = status]
       /\ next
  ELSE End(w) /\ UNCHANGED row

\* Requests and approvals queue it for any invoice; one that is being sent is
\* left alone.
BeginSync(w, i) ==
  /\ Live(i) /\ row[i].sync \notin {"sync_scheduled", "syncing"}
  /\ Begin(w, i, [Idle EXCEPT !.at = "schedule", !.on = i])
  /\ UNCHANGED <<business, row, lines, counter, remote, faults,
                 overlap, broken, skipped>>

Schedule(w) ==
  /\ job[w].at = "schedule" /\ SetSync(w, "sync_scheduled", At(w, "get"))
  /\ UNCHANGED <<business, lines, counter, remote, bounds, history>>

\* The documents of the accounting service under the number of invoice i.
Documents(i) == {k \in Invoices : remote[k].copies > 0 /\ row[k].number = row[i].number}
Copies(i) == SumFunctionOnSet([k \in Invoices |-> remote[k].copies], Documents(i))

Get(w) ==
  LET j == job[w] IN
  /\ j.at = "get"
  /\ \/ /\ Documents(j.on) = {}
        /\ Goto(w, [j EXCEPT !.at = "mark"])
     \/ \E k \in Documents(j.on) :
          Goto(w, [j EXCEPT !.at = "mark", !.seen =
                     [copies |-> Copies(j.on), lines |-> remote[k].lines]])
  /\ UNCHANGED <<business, row, lines, counter, remote, bounds, history>>

Mark(w) ==
  /\ job[w].at = "mark" /\ SetSync(w, "syncing", At(w, "compare"))
  /\ UNCHANGED <<business, lines, counter, remote, bounds, history>>

\* More than one document is a failure, none is posted, one with fewer lines
\* updated; with more lines the task ends and the status stays.
Compare(w) ==
  LET j == job[w]
      next == CASE j.seen.copies > 1 -> "fail"
                [] j.seen.copies = 0 -> "post"
                [] j.seen.copies = 1 /\ j.seen.lines < Count(j.on) -> "put"
                [] j.seen.copies = 1 /\ j.seen.lines = Count(j.on) -> "done"
                [] OTHER -> "idle"
  IN
  /\ j.at = "compare"
  /\ IF next = "idle" THEN End(w) /\ broken' = broken \cup {j.on}
     ELSE Goto(w, [j EXCEPT !.at = next, !.seen = Idle.seen]) /\ UNCHANGED broken
  /\ UNCHANGED <<business, row, lines, counter, remote, bounds,
                 overlap, mixed, skipped>>

\* Mutant of Answer: an error in the response is not looked at.
AnswerAny(w, sent) ==
  /\ At(w, "done")
  /\ \/ remote' = sent /\ UNCHANGED skipped
     \/ UNCHANGED <<remote, skipped>>
     \/ skipped' = skipped \cup {job[w].on} /\ UNCHANGED remote

\* sync_to_myob returns without a call when the company file is disabled, and
\* the caller does not look; a response that is an error raises ValueError.
Answer(w, sent) ==
  \/ At(w, "done") /\ remote' = sent /\ UNCHANGED skipped
  \/ At(w, "fail") /\ UNCHANGED <<remote, skipped>>
  \/ At(w, "done") /\ skipped' = skipped \cup {job[w].on} /\ UNCHANGED remote

Post(w) ==
  LET i == job[w].on IN
  /\ job[w].at = "post"
  /\ Answer(w, [remote EXCEPT ![i].copies = @ + 1, ![i].lines = Count(i)])
  /\ UNCHANGED <<business, row, lines, counter, bounds, overlap, mixed, broken>>

Put(w) ==
  /\ job[w].at = "put"
  /\ \E k \in Documents(job[w].on) :
       Answer(w, [remote EXCEPT ![k].lines = Count(job[w].on)])
  /\ UNCHANGED <<business, row, lines, counter, bounds, overlap, mixed, broken>>

Fail(w) ==
  /\ job[w].at = "fail" /\ SetSync(w, "sync_failed", End(w))
  /\ UNCHANGED <<business, lines, counter, remote, bounds, history>>

\* Mutant of Done: an invoice that was sent keeps its status.
DoneKept(w) ==
  /\ job[w].at = "done" /\ End(w)
  /\ UNCHANGED <<business, row, lines, counter, remote, bounds, history>>

Done(w) ==
  /\ job[w].at = "done" /\ SetSync(w, "synced", End(w))
  /\ UNCHANGED <<business, lines, counter, remote, bounds, history>>

-----------------------------------------------------------------------------
(* Requests, payments and time *)

\* A request reads an invoice to approve it, or to delete it if not approved.
BeginRequest(w, i, what) ==
  /\ Live(i) /\ (what = "destroy" => ~row[i].approved)
  /\ Begin(w, i, [Idle EXCEPT !.at = what, !.on = i, !.copy = row[i]])
  /\ UNCHANGED <<business, row, lines, counter, remote, faults,
                 overlap, broken, skipped>>

\* ApproveInvoiceView: every column of the copy is saved, with a new total; a
\* row that is gone is inserted again.
Approve(w) ==
  LET j == job[w] IN
  /\ j.at = "approve" /\ End(w)
  /\ row' = [row EXCEPT ![j.on] = [j.copy EXCEPT !.approved = TRUE, !.total = Count(j.on)]]
  /\ UNCHANGED <<business, lines, counter, remote, bounds, history>>

\* InvoiceViewset.perform_destroy, with the lines.
Destroy(w) ==
  LET i == job[w].on IN
  /\ job[w].at = "destroy" /\ End(w)
  /\ row' = [row EXCEPT ![i].state = "deleted"]
  /\ lines' = [lines EXCEPT ![i] = Empty]
  /\ UNCHANGED <<business, counter, remote, bounds, history>>

\* check_unpaid_invoices: the customer has paid document k, the accounting
\* service has closed it, and the invoices with its number are paid.
CheckUnpaid(k) ==
  /\ remote[k].copies > 0
  /\ row' = [i \in Invoices |->
       IF Live(i) /\ k \in Documents(i) THEN [row[i] EXCEPT !.paid = TRUE] ELSE row[i]]
  /\ row' # row
  /\ UNCHANGED <<business, lines, counter, remote, job, bounds, history>>

\* A sheet is approved by the supervisor, on its day or later.
SheetReady(s) ==
  /\ s \notin ready \cup gone /\ Day[s] <= today
  /\ ready' = ready \cup {s}
  /\ UNCHANGED <<rule, today, gone, cut, row, lines, counter, remote, job, bounds, history>>

NextDay ==
  /\ \E d \in Nights : d > today
  /\ today' = Min({d \in Nights : d > today})
  /\ UNCHANGED <<rule, ready, gone, cut, row, lines, counter, remote, job, bounds, history>>

\* JobOfferViewset.perform_destroy: the offer's sheet goes, and with it its line
\* on whatever invoice, approved or sent; neither the total nor the accounting
\* service hears of it.  Of a sheet that is not approved no invoice knows.
DeleteSheet(s) ==
  /\ s \in ready /\ tasks < MaxTasks /\ tasks' = tasks + 1
  /\ ready' = ready \ {s} /\ gone' = gone \cup {s}
  /\ cut' = cut \cup {i \in Invoices : lines[i][s] > 0}
  /\ lines' = [i \in Invoices |-> [lines[i] EXCEPT ![s] = 0]]
  /\ UNCHANGED <<rule, today, row, counter, remote, job, faults, history>>

\* A task dies between two statements: it raises, or its worker is killed.  It
\* is acknowledged when it begins, and not run again.  Before its first write
\* it leaves nothing behind.
Die(w) ==
  /\ job[w].at \notin {"idle", "number", "rule", "schedule"} \cup Requests
  /\ faults < MaxFaults
  /\ faults' = faults + 1
  /\ broken' = broken \cup ({job[w].on} \ {NoInvoice})
  /\ End(w)
  /\ UNCHANGED <<business, row, lines, counter, remote, tasks, overlap, mixed, skipped>>

Generation(w) ==
  \/ \E s \in Sheets : Recreate(w, s) \/ DeleteLine(w, s)
  \/ Nightly(w) \/ (\E g \in SUBSET Sheets : Select(w, g)) \/ Finish(w)
  \/ ReadRule(w) \/ SaveRule(w) \/ Insert(w) \/ ReadLines(w)
  \/ InsertLines(w) \/ SaveTotal(w)

Sync(w) ==
  \/ \E i \in Invoices : BeginSync(w, i)
  \/ Schedule(w) \/ Get(w) \/ Mark(w) \/ Compare(w) \/ Post(w) \/ Put(w)
  \/ Fail(w) \/ Done(w)

Request(w) ==
  \/ \E i \in Invoices, what \in Requests : BeginRequest(w, i, what)
  \/ Approve(w) \/ Destroy(w)

Next ==
  \/ \E w \in Workers : Generation(w) \/ Sync(w) \/ Request(w) \/ Die(w)
  \/ \E k \in Invoices : CheckUnpaid(k)
  \/ NextDay \/ \E s \in Sheets : SheetReady(s) \/ DeleteSheet(s)

Spec == Init /\ [][Next]_vars

-----------------------------------------------------------------------------

\* A sheet is on one invoice only, once, unless two generations overlapped:
\* that a sheet has no line is read before its line is inserted.
BilledOnce ==
  ~overlap => \A s \in Sheets : SumFunction([i \in Invoices |-> lines[i][s]]) <= 1

\* No two invoices have one number, unless two generations overlapped: the
\* accounting service is asked by number.
NumbersUnique ==
  ~overlap => \A i, k \in Invoices :
    row[i].state # "none" /\ row[k].state # "none" /\ row[i].number = row[k].number
      => i = k

\* The total of an invoice is that of its lines once no task is changing it,
\* unless a task died on it or two worked on it; with the line of a sheet that
\* was deleted the total stays, and is too high.
TotalOfLines ==
  \A i \in Invoices : Live(i) /\ Busy(i) = {} /\ i \notin broken \cup mixed
    => row[i].total >= Count(i) /\ (i \notin cut => row[i].total = Count(i))

\* An approved invoice keeps every line whose sheet is not deleted with its job
\* offer, and gets no other, unless it was approved while a task had already
\* begun to update it.
ApprovedKeepsLines ==
  [][\A i \in Invoices : Live(i) /\ row[i].approved /\ i \notin mixed
       => /\ row'[i].state = "live"
          /\ \A s \in Sheets \ (gone' \ gone) : lines'[i][s] = lines[i][s]
          /\ \A s \in gone' \ gone : lines'[i][s] <= lines[i][s]]_vars

\* An invoice that is scheduled or being sent has a task that sends it, unless
\* one failed: such an invoice is never sent again.
SyncingHasTask ==
  \A i \in Invoices :
    Live(i) /\ row[i].sync \in {"sync_scheduled", "syncing"} /\ i \notin mixed \cup broken
      => Busy(i) # {}

\* An invoice shown as synced is at the accounting service, once and with all
\* its lines, unless the company file is disabled, two tasks mixed on it, or
\* another invoice may have its number; the line of a sheet that was deleted
\* stays there.
SyncedIsSent ==
  \A i \in Invoices :
    Live(i) /\ row[i].sync = "synced" /\ ~overlap /\ i \notin mixed \cup skipped
      => /\ remote[i].copies = 1 /\ remote[i].lines >= Count(i)
         /\ i \notin cut => remote[i].lines = Count(i)

\* The days that their own period misses, since it bills the days before d: the
\* last of a month, and the last of the fifteen that get_invoice_dates gives to
\* a fortnight, which moves on after more than 14 days.
Missed(s, d) ==
  \/ rule.period = "monthly" /\ MonthDay(Day[s]) = 31
  \/ rule.period = "fortnightly" /\ Day[s] = d

\* No invoice was deleted, not even one that an approval, saved from a copy read
\* before, inserted again without its lines.
Intact ==
  \A i \in Invoices :
    row[i].state # "deleted" /\ (Live(i) /\ row[i].approved => i \notin mixed)

\* A request to recreate the invoice of an approved sheet that is not billed
\* bills it, if the sheet is not deleted, nothing else was generating and no
\* invoice deleted.  Two cases are lost: a missed day, and a given invoice that
\* holds several groups, where each group deletes the lines of the one before.
RecreateBills ==
  [][\A w \in Workers :
       /\ job[w].at = "select" /\ job'[w].at = "idle" /\ job[w].groups = {}
       /\ job[w].for \notin {NoSheet} \cup gone /\ ~overlap /\ Intact
       /\ ~Missed(job[w].for, job[w].to)
       /\ rule.separation = "one_invoice" \/ ~job[w].given
       => Billed(job[w].for)]_vars

\* The docstring of get_invoice: an invoice is found "to update with new
\* timesheets", so the sheets it has stay on it, if they are not deleted.
UpdateKeepsLines ==
  [][\A i \in Invoices, s \in Sheets :
       lines[i][s] > 0 /\ row'[i].state = "live" /\ s \notin gone' => lines'[i][s] > 0]_vars
=============================================================================
