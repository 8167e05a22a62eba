# SailsPipeline: formal models

SailsPipeline is a multi-tenant CRM for cruise travel agencies: a FastAPI backend over MySQL (SQLAlchemy,
`src/backend/app`), a React client (`src/frontend/src`) and public pages that clients reach by a mailed link. This
directory holds TLA+ models of the places where several people, threads, browser calls or late answers act on the same
data, the TLC configurations that check them on small instances, and TLAPS proofs of the results that hold for every
size.

Contents: [Inventory](#inventory), [How the backend executes](#how-the-backend-executes),
[How the client executes](#how-the-client-executes), [Modules](#modules), [Runs](#runs),
[Where code and words differ](#where-code-and-words-differ), [Proofs](#proofs), [Not modelled](#not-modelled),
[Plan](#plan).

## Inventory

Paths are relative to `src/backend/app`; "services" are in `services/`. "Correct when" is what a model of the part has to
show.

| Component | State it keeps | Operations | Interacts with | Hard behaviour | Correct when |
|---|---|---|---|---|---|
| Group inventory reservation (`group_inventory_reservation_service`) | `cabins_reserved` of an inventory, `group_inventory_reservation_applied` of a request | lock, check and add the cabins of a request that closes as purchased | called by `update_request` before it writes the request | row locks, several inventories, refusal at the second, lock cycles | all cabins or none; never more than remain; once per purchase; every handler ends |
| Group blocks and linkage (`agency_group_service`) | groups, inventories, bookings of a request, the request's group and inventory links | create, edit, delete an inventory; validate links; turn an intake into bookings | reservation, request intake | absolute writes of counts read earlier; delete cascades | reserved within allocated; links point to live inventories |
| Request lifecycle (`request_service`) | status, close reason, links, audit rows | create, update (closes), reopen, detail | reservation, rollup queue, workflows, primary passenger | unlocked check, then write; a GET that writes | a purchase stays closed; nothing changes on a closed request |
| Live workflows (`workflow_service`, `tc_workflow_service`, `workflow_helpers`) | one row per started workflow, one per task | start, update, end, update a task, side effects, automatic completion | templates, Master Terms portal, request status | a unique index and no locks; snapshots; write skew | one active workflow; ended ones frozen; a finished one completed; follow-ups dated |
| Rollup cache (`agency_rollup_service`, `agency_rollup_scheduler`) | two cached rows per agency, an in-process set of agency ids | queue, drain, refresh, first view, daily refresh | every handler that writes what is counted | commit before queueing; a snapshot older than the turn; restart loses the queue | no refresh is lost; counts go back only where two refreshes race; every write shows in the end |
| Marketing campaigns (`marketing_campaign_service`) | campaign rows | create, update, delete, each followed by a refresh in the request thread | rollup cache | two refreshers of one row | as for the cache |
| Master Terms portal (`tc_service`, `tc_portal_service`) | tokens PENDING/COMPLETED/EXPIRED, one agreement per client | send, validate, accept, status check | workflows (completes tasks), e-mail | resend against accept, expiry, two accepts | one live token; one agreement; the task follows the agreement |
| Card authorization (`cc_auth_service`) | token, encrypted card | send, validate, complete, reveal, purge | e-mail, proposed cruises | the same, and a purge against completion | a superseded link records nothing; purged data stays purged |
| Insurance waivers (`insurance_service`) | waiver token, signatures, tracking status, annual policy | send, sign, complete, annual confirm and clear | e-mail, passengers | the same, and several signers | tracking agrees with the waiver on file |
| Workflow templates (`workflow_template_service`, `workflow_template_seed`, `agency_custom_task_service`) | templates, ordered tasks, custom tasks | create, insert, move, transfer, delete, archive, reset, seed | live workflows | renumbering from different snapshots; key uniqueness without a constraint | a template is one list, a key is placed once; archive ends what runs |
| Proposed cruises (`proposed_cruise_record_service`, `proposed_cruise_helpers`) | cruise, rooms, pricing | create, accept, deposit, reject, room assignment | rollup queue, passengers | length of rooms against cabins needed; a passenger removed under a stale dialog | a passenger is in one room at most, within its limit, and of the request |
| Subscription and trials (`subscription_service`, `subscription_gatekeeper`, `trial_scheduler`) | subscription state, end of trial | lock by scheduler, login or middleware; activate from the Bridge | every CRM route | a lock computed before an activation | an activated agency is not locked by its old trial |
| Bridge (`bridge_service`, `bridge_launch_service`) | platform invitations, agencies | invite, cancel, accept, change state | subscription, seeding | accept races | one agency per invitation |
| Team and invitations (`agency_invite_service`, `agent_capability_service`) | users, roles, invitations, capabilities | invite, accept, cancel, change role, deactivate | rollup queue, auth | two administrators; two accepts | an agency keeps an active super user |
| Registration, password reset, login (`public_registration_service`, `password_reset_service`, `auth_service`) | users, reset token | register, issue, reset | e-mail, rate limit | token reuse, username races | a reset token works once |
| Tenant isolation (`tenant_context`, `database`, middleware) | agency id of the request context | rewrite SELECTs | every query | context across threads | no row of another agency is read |
| Passengers and client import | clients, links to requests | edit, import | requests, insurance | primary passenger mirrored in the request | request and primary agree |
| Communications and e-mail (`communication_service`, `email_service`) | drafts and sent messages, e-mail log | draft, send, archive | external e-mail | e-mail out, commit fails | sent at most once |
| Client: task panels (`WorkflowsSection`, the `*TaskPanel`s) | the form, the task modal, the request as loaded last | save every record, then the follow-up, the task, the close, a silent reload | request, cruises, workflows | a chain that fails half-way, a modal dismissed during it, a second chain | a task that is Done has its records stored; nobody waits for ever |
| Client: travel insurance (`TravelInsuranceTaskPanel`) | fetched status, annual policy, waiver link | poll, save the policy, send the waiver, record the result, complete | insurance service, waiver portal | two pictures of one request, each late; the server checks nothing | goes on only with the check on record |
| Client: rooms of a cruise (`ProposedCruiseModal`, `proposedCruiseRooms`) | rooms, passengers, what is believed stored | assign, save a room, save the cruise | proposed cruises | two handlers merge two answers into one form | every payload legal; what was typed elsewhere stays |
| Client: pages of records (notes, content, passengers, quotes, cruises, campaigns, groups, ledger, templates, tasks, team, clients) | list, open record, confirmation, dialog form | add, open, edit, save, remove, restore | one service each | a fetch before an edit; dialogs dismissed during a save | the record that is open is the one that is stored |
| Client: lists, searches, reports, copilot | query, page, answer | type, turn pages, refresh, export | read-only services | late answers, debounce, clamping of pages | what is shown answers what is asked |
| Client: intake and workspace (`App`, `RequestForm`, `RequestWorkspace`) | view, form, group dialogs | begin, pick a group, create with a note, open, save, close | requests, groups, notes | an answer after the view has turned; dependent fields | one intake, one request; no text in another request |
| Client: portal pages (`*PortalPage`, `ResetPasswordPage`, register pages) | the link in a tab, its form | load, submit, send, reveal, purge | the portals' services | two tabs, a link sent again, a lost answer | a link acts once; thanks are true |
| Client: settings, profile, Bridge | one form each | save | one service each | - | - |
| Attachments, branding, AI services, reports, analytics, dashboards, audit | files, external calls, queries | - | - | external input and output | - |

## How the backend executes

All the modules rest on the same reading of the code.

* FastAPI runs each `def` handler on a thread of its pool, with a SQLAlchemy session of its own (`database.py:23`,
  `get_db`). A handler that raises, or whose connection is lost, ends in `db.close()`: a rollback.
* MySQL runs at REPEATABLE READ. Plain queries read the snapshot taken by the transaction's first read, so everything a
  handler reads is modelled by one **Begin** action. `with_for_update()` reads the committed row and holds its lock to the
  end; the only code that uses it is the reservation.
* The session does not autoflush (`database.py:14`). `commit()` sends `UPDATE`s of those columns whose value the handler
  changed, over whatever was committed since: the operators `Dirty`, `FlushRequest`, `FlushBlock`, `FlushTask`, `Flushed`.
* Unique indexes and foreign keys are checked against committed rows when the statement runs.
* There is one server process, with two background threads (rollups, trials). Its memory holds the rollup queue.
* An `async def` handler runs on the event loop and gives it up only at an `await`. The routes of the portals await nothing
  between reading a link and committing it, so each is one step; they await the e-mail, which goes out after the commit.
  The two invitations are accepted by `def` handlers: there anything may happen between check and commit.

Every variable that is a table holds the **committed** rows. What a handler read and means to write is in `tx[s]`
(`job[o]` for a refresh). Running a model with one session (`Sessions = {s1}`) gives the serial executions, with two
sessions the interleaved ones.

## How the client executes

* A browser page has one thread. An event handler runs to its first `await`; then anything else may run: other handlers,
  timers, answers of other calls. A handler with several awaits is a chain; the chains in flight are `runs` (`calls`),
  each with the values its closure caught, and each answer is an action. Answers come in any order, and a call may be
  refused, or fail with or without its effect on the server.
* An answer acts on the state of the page as it is then. What the code does against late answers (a sequence number, a
  `cancelled` flag, a `useEffect` that is undone, nothing) is part of each component's habits; nothing is assumed.
* A component that is unmounted hears nothing any more (`own = FALSE`), but its calls still reach the server. A state
  setter of a parent that stays mounted still works.
* The agent may do whatever a control permits when it is enabled. Nearly all dialogs disable their buttons during a save and
  leave the backdrop live, so a dialog can be left with its save in flight. Where a property only holds for an agent who
  waits, the behaviour is chosen at the start (`hasty`) and the property says so.
* Other agents change the server's data between any two answers (`Elsewhere`).

In these modules `srv` (or a name of its own in a composition) is the server, `props` what the page loaded last, `ui`,
`panel`, `modal`, `view` or `app` the state of the component, and `runs` the calls in flight.

## Modules

| Module | Models | Extends / uses |
|---|---|---|
| `GroupReservation` | group inventories, the requests that buy from them, row locks | - |
| `CabinSale` | what a purchase promises: one atomic sale, all or nothing | instantiated by `GroupReservation` |
| `MC_GroupReservation` | payload sets for TLC | `GroupReservation` |
| `GroupReservationProofs` | type correctness, what the row locks protect; what one session at a time keeps of reservations | `GroupReservation`, TLAPS |
| `CabinSaleProofs` | that the sessions implement `CabinSale`, that a purchase reserves what is booked and is never lost; that one session at a time counts what is sold | `GroupReservationProofs` |
| `RequestWorkflow` | the live workflows of one request, their tasks, the Master Terms acceptance, template archiving, closing and reopening | - |
| `MC_RequestWorkflow` | templates and payloads for TLC | `RequestWorkflow` |
| `RequestWorkflowProofs` | type correctness, at most one active workflow; what one handler at a time keeps of tasks, dates and endings | `RequestWorkflow`, TLAPS |
| `AgencyRollup` | the rollup cache, its queue and scheduler | - |
| `MC_AgencyRollup` | which writes the handlers make | `AgencyRollup` |
| `RollupProofs` | type correctness, rows go back only by the race of a campaign refresh, no refresh is lost | `AgencyRollup`, TLAPS |
| `TemplateTasks` | the numbered task rows of an agency's workflow templates | SequencesExt |
| `TaskLists` | what those pages promise: a template is a list | instantiated by `MC_AgentPages` |
| `RecordPages` | thirteen pages of records with their dialogs | - |
| `Lists` | searches, reports, pickers, histories, the copilot | - |
| `MC_AgentPages` | composition of the three screens above | `RecordPages`; `Lists`, `TemplateTasks`, `TaskLists` |
| `TemplateProofs` | the numbered rows of a template are a list: lemmas on places, and one per handler | `MC_AgentPages`, TLAPS |
| `AgentPagesProofs` | dialogs save their own record, what was asked for is shown, typed text stays, templates are lists | `TemplateProofs` |
| `TaskPanels` | six task panels, their modal and section | - |
| `InsuranceTask` | the travel insurance panel, service and waiver | - |
| `CruiseRooms` | the dialog of a proposed cruise and its rooms | - |
| `MC_AgentTasks` | composition of these screens | `TaskPanels`; `InsuranceTask`, `CruiseRooms` |
| `AgentTasksProofs` | a Done task is stored, busy panels, the check on record, legal rooms, what was typed | `MC_AgentTasks`, TLAPS |
| `RequestIntake` | intake, group picker, workspace, and the views around them | - |
| `PortalLinks` | mailed links of six kinds, the tabs they are open in, their sender, the card vault | - |
| `MC_AgentForms` | composition of these screens | `RequestIntake`; `PortalLinks` |
| `AgentFormsProofs` | a link works and acts once; whole forms, one request per intake, no text stored as another's | `MC_AgentForms`, TLAPS |

The three `MC_Agent` modules put screens side by side that share no state: `screen` says which is studied in a
behaviour, and the variables of the others are `Off`. What joins them in the program is the server, which each of them has
for the tables it uses.

**GroupReservation.** `requests`, `bookings` and `blocks` are the committed rows of `travel_requests`,
`travel_request_group_bookings` and `agency_group_inventory`; `lock` owns the row locks of inventories. `update_request`
is `UpdateRequestBegin` (reads the request, decides whether it closes as purchased and what that reserves), one
`ReserveInventory` or `ReserveRefused` per inventory, and `UpdateRequestCommit`. Inventories are locked in any order: the
code follows the order of the request's bookings, which is theirs to choose. `LockWaitAborted` is InnoDB's deadlock
detection or lock wait timeout, `RowGone` a foreign key or an UPDATE that finds its row deleted, `Disconnect` any failure.
`CreateBlock` is one step because an INSERT depends on nothing the other handlers write. Staff edits and deletions read
without a lock and wait for it at their write. Order numbers, prices, categories and audit rows are left out.

**CabinSale** has no locks and no sessions: `Offer`, then `Take` or `Decline`. The refinement maps the demand of an
update handler to an offer, so the steps that lock are stutters and the commit is the sale.

**RequestWorkflow.** One travel request. Handlers of agents (`StartBegin`, `UpdateWorkflowBegin`, `UpdateTaskBegin`), the
client's portal (`AcceptBegin`), a status check that completes the terms task (`CheckBegin`), an owner who archives a
template (`ArchiveBegin`) and a GET that fills in due dates (`ViewBegin`) each read in Begin and write in `Commit`. A
commit is refused (`Refused`) by the unique index on the active workflow of a request (`SlotFree`) and by the foreign key
of new tasks to a template's tasks, which archiving deletes (`TemplateKept`). Times are `null`, `set` or, inside a
handler, `now`; the four task keys are the ones the code treats specially and one that it does not. Results, notes, and
who did what are left out, and so is the audit of a request's `updated_at`.

**AgencyRollup.** The counts are abstracted to version numbers: `data[a][c]` counts the committed writes to a column and
a cached row holds the versions its snapshot saw, so that "older" is a comparison. A write and the queueing after it are
two steps (`Write`, `Schedule`), as are the query, the save and the reload of a refresh. The reload matters: it opens the
transaction the next agency of a pass is read from.

**TemplateTasks and TaskLists.** `tasks` are the rows of `agency_task_templates` with their `sequence_order`, `status` and
`successor` columns of `agency_workflow_templates`, `custom` the agency's task definitions. Each action is a whole handler with
everything it calls: inserting shifts the orders behind the position, deleting and transferring number a template anew, a reset
deletes and seeds, a list GET creates the recommended templates and fills those that are empty. A key is placed on one live template.
There is one editor at a time: nothing in this code locks, and two inserts at one position give two rows one
order. In serial executions the repair of duplicates (`Deduped`) is the identity (`NothingToDedupe` proves it); it mends rows that
two seeds or two editors left. The ids of new rows are random, so `Inserted` takes any that are free, and the rows that one INSERT adds
come in any order of ids.
`TaskLists` is the promise without numbers: `Put`, `Drop`, `Move` and `Transfer` one task, the others keep their order, and no key
is put where another list has it. The refinement maps a template to its rows in order of number and id. The default tasks and
the successors are constants (`WORKFLOW_TASK_TEMPLATES`, `WORKFLOW_SUCCESSORS`): a task's `sort_order` is its position, and the
run has two short lists of them.

**RecordPages.** One machine with a record of habits per page (`PageOf`) and per dialog (`Dialog`): who keeps the saving flag,
whether a record is fetched before or inside its dialog, whether an answer is dropped when the dialog closes, what a save is
followed by, which buttons a row offers (`Row`). The habits are read from each page; the actions are the handlers they all
have: `Open`, `Add`, edit, save, remove, restore, confirm, dismiss, and the answers. `srv.from[i]` is a ghost: the record
whose text record `i` holds. Only the client's side of a save is modelled: `Stored` is what the handlers of the API have in common,
that the text they are sent becomes the record's.

**Lists.** The same for whatever is searched and paged: how a late answer is told (`guard`), the debounce, what an empty search
does, whether a page number is clamped to what the server has, what a failure leaves on screen.

**TaskPanels.** A save is a chain (`Saving`): the changed records one after another, then the follow-up task, the task, the
close, a silent reload. The chain carries the values it started with; what it compares them to is what the workspace loaded, which
may be old. The modal can be closed while it runs and the panel opened again: chains overlap, except that the response panel is
studied with one (`Single`), whose save also uploads a file and closes the request: two of those are beyond the time of a run.

**InsuranceTask.** The panel's fetched status, the workspace's quotes and result, and the server's row are three variables.
Handlers run one beside another as the panel permits; `Overlap = {"poll"}` names those that start by themselves while another runs.

**CruiseRooms.** `handleSaveRoom` of the dialog and the handler of the page nest: the page's stores and reloads, then the dialog's
merges the answer into its form. `srv` has two stored cruises and the dialog may turn to the other one between them. The server
takes a save whose rooms keep the rules (`Legal`) and whose passengers are of the request by now (`validate_proposed_cruise_passengers`);
`party` has the passengers of the request and those the page shows, which differ from `delete_passenger` of another agent, which
also empties their places in every room, to the next reload. A save that is refused is `Failed`.

**RequestIntake.** The form's dependent fields (client and contact, destination and details, lead source and its extra, group
with its line and dates; `born` is the client whose birth date the form has, which `patchForm` leaves when a contact is typed), the views of `App.tsx`, the group prompt and picker, create with a note, and the workspace. A chain is
deaf when its component is gone, except the handlers of `App`, which always act.

**PortalLinks.** Links of one `kind` for one recipient: `Lapse` is the clock, `SendElsewhere` a colleague who sends another, `send_email`
the e-mail that succeeds or fails after the commit, `complete` the submission in a tab, `accept_invitation`/`accept_commit` the two steps
of an acceptance in a thread, `Lose` a lost request or answer. The vault is the page where an agent reveals and purges a card.

## Runs

All bounds are the CONSTANTS of the `.cfg` files. `CHECK_DEADLOCK FALSE` is given where rows are never deleted and ids
run out, so that an instance stops; the rollup scheduler never stops and is checked for deadlock.

| Run | Instance | Shows |
|---|---|---|
| `group_concurrent` | 2 sessions, 2 requests, 2 inventories of 2 cabins, staff edits | `LocksProtectReads`: a count read FOR UPDATE is still the committed one at commit. `SaleSpec`: the purchase refines `CabinSale`. `BookingsReservedOnClose`: the step that marks a reservation applied adds exactly the bookings. |
| `group_serial` | 1 session, payloads for every column the reservation reads, edits of allocations | `ReservedIsSold` (the count is the number of cabins that were purchased), `ReservedWithinAllocated`, `PurchasedBookingsReserved`, `PurchasedStaysClosed`, `DeletesOnlyUnreserved` |
| `group_liveness` | 2 sessions that lock both inventories in any order | `EveryHandlerEnds` under fairness, `SalesKept` |
| `workflow_concurrent` | 2 handlers, 2 workflows, one template with the follow-up pair | `TypeOK`, `OneActive`; `ViewChangesDatesOnly` |
| `workflow_serial` | 1 handler, 1 workflow, every payload, two templates | `DoneIsCompleted`, `TaskDatesFollow` (follow-ups dated, Done stamped), `ArchivedHasNoActive`, `OverStaysOver` (an ended workflow is frozen, a closed request starts nothing) |
| `rollup_queue` | 2 agencies, 1 handler, 2 writes per column | `TypeOK`, `NoLostRefresh` |
| `rollup_daily` | 1 agency without cached rows, 1 handler whose campaign write refreshes in its own thread, 2 writes per column, one database error or restart | `RowsRegressOnlyByRace` (counts go back only where a campaign refresh races another of the row), `EveryWriteShows` |
| `agent_pages` | 2 records, 2 calls; lists of 2 queries and 2 pages; 3 templates (two recommended), 3 task rows, 1 custom key | `PagesTypeOK`; `SavesAreRight` (no record stored with another's text, one save in flight); `ShownIsWhatWasAsked`; `DialogKeepsTyped`; `TemplatesAreLists` (refinement of `TaskLists`, and a task lands where it was asked to) |
| `agent_tasks` | 2 records, 2 chains; 2 rooms, 2 passengers, limits to 2; 1 quote | `TasksTypeOK`; `TaskDoneIsStored`; `BusyHasCause`; `InsuranceCheckIsOnRecord`; `RoomSavesAreLegal` (payloads keep the rules of rooms, stored rooms hold passengers of the request); `TypedIsKept` |
| `agent_forms` | 3 requests, 2 intakes, 2 groups, 2 handlers; 2 links (3 invitations), 2 tabs | `FormsTypeOK`; `FormIsWhole`; `IntakeMakesOne`; `RequestKeepsItsText`; `OneLinkWorks`; `LinkActsOnce`; `ThanksAreTrue` |

Why the bounds are enough to be interesting. Two sessions are what every race in this code takes: one reads, the other
commits, the first commits. Two inventories give a lock cycle and a refusal after a successful lock; two cabins let one
purchase succeed and the next be refused. Two workflows are what `OneActive` is about; a third would only repeat the
second. Two writes to a column tell a refresh that saw the first from one that saw both, and two agencies are needed for
the snapshot that one agency's reload opens for the next. One fault reaches every place where a refresh is dropped.
Symmetry is used for sessions, requests, workflows, agencies and handlers, where no property names one, and never in a
run with a liveness property. On the client, two records are what it takes to store one as the other, and two calls what
it takes for answers to overtake each other; the lists need an answer of two pages to be left on a page that is gone. Three
task rows are an insert between two. Two links and two tabs are a link sent again while it is open; a third invitation lets
two be live at once, which is possible for agents only. `CHECK_DEADLOCK FALSE` in these three runs: an agent may stop,
and links are used up.

Fairness. `GroupReservation!FairSpec` assumes weak fairness of `Advance(s)`: a handler thread keeps being scheduled, and
InnoDB ends a lock cycle or a long wait by itself. `AgencyRollup!FairSpec` assumes that the scheduler thread and the
handlers keep running and that days pass; nothing is assumed about faults, which are bounded by `MaxFaults`. The client modules
assume no fairness: an agent may stop and a call may stay unanswered. In its stead `BusyHasCause` and `ShownIsWhatWasAsked` say that
whatever shows "saving" or "loading" has a call or a timer in flight that takes it off.

Each property of a passing run has a mutant beside the definition it changes ("Mutant: ..."): a dropped guard, a read
without its lock, a flag that is not recorded. TLC finds the property violated when the mutant replaces the definition.

## Where code and words differ

Two runs have `f_` in the name of their configuration and expect a violation of one property, each a sentence of the
repository that the code does not keep:

* `group_link_close`: one PATCH that sets the inventory link and closes as purchased reserves nothing, because the
  reservation reads the request before the payload is applied (`request_service.py:697`).
* `template_reset`: "Workflow restored to the product default ... task sequence" (`workflow_template_service.py:147`), and
  `test_workflow_reset.py:42` asserts it; but the keys that are already there are looked up in a collection that SQLAlchemy
  loaded before its rows were deleted (`workflow_template_seed.py:29`), so a template that had its default tasks is left without them.
  The next GET of the list fills it if it is empty, not if it is half empty.

TLC finds four more, with a change of constants or a property that no run checks:

* Two concurrent closes of one request both find `group_inventory_reservation_applied` false and both reserve:
  `ReservedIsSold` with `Sessions = {s1, s2}` in `group_serial`. A lock, or a second read, of the request row would settle it.
* Two handlers finish the last two tasks, each sees the other's task open, and the workflow stays active with every task done;
  it then blocks the next one until somebody ends it: `DoneIsCompleted` with `Sessions = {s1, s2}`, `Workflows = {w1}`,
  `TaskKeys <- MCTermsAndResponse`, `TaskUpdates <- MCFinish`, `WorkflowStatuses <- MCTerminate` in `workflow_serial`.
* `start_workflow` looks for open terms tasks before its own are flushed, so an Enter Trip in CRM workflow starts with the
  task open although the agreement is on file: `EnterTripStartsSynced` of `RequestWorkflow` in `workflow_serial`. The next status
  check completes it.
* A client that was linked and typed over leaves its birth date: `patchForm` (`RequestForm.tsx:69-75`) drops `primary_passenger_id` and
  keeps `first_passenger_date_of_birth`, `App.tsx:328` sends it, and `request_service.py:567-580` stores it on the new passenger.
  "Edit the requestor contact fields below to enter someone new instead" (`RequestForm.tsx:510-512`) invites to it.
  `BirthDateIsTheContacts` of `RequestIntake` with its `Spec` and the sizes of `AgentForms.cfg`: link a client, type, create. `FormIsWhole`
  therefore claims the birth date of linked clients only.

A race that is checked, not excluded: a campaign handler refreshes the dashboard row in its own thread
(`marketing_campaign_service.py:40`) and can write older counts over a row the scheduler has just saved. `RowsRegressOnlyByRace` says
what exactly is lost by it (`Overtaken`: the column moved on between the row that the late refresh read and the row that it replaces)
and that nothing else takes a row back; `EveryWriteShows` of the same run, that the daily refresh repairs it.

The serial runs show what the code keeps when nothing interleaves. With `Sessions = {s1, s2}` in the same
configurations TLC finds these properties violated, all by a check on a snapshot followed by a write:

* `ReservedWithinAllocated`: a staff edit (`agency_group_service.py:599`) is validated before a purchase commits.
* `PurchasedStaysClosed`: a reopen (`request_service.py:438`) passes its check before the request is reopened and purchased
  by another session.
* `DeletesOnlyUnreserved`: an inventory is reserved between the check and the DELETE (`agency_group_service.py:649`).
* `OverStaysOver`, `ArchivedHasNoActive`: the request is closed, the workflow ended, or the
  template archived, after a handler read it as open, active or present.
* `TaskDatesFollow`: a date is cleared by one handler while another completes the communication; the next GET of the
  request repairs it, which is what `ViewBegin` is for.

`NoLostRefresh` needs `Fresh = {}` and `MaxFaults = 0`: with a first view beside the scheduler, the scheduler's INSERT
fails on the primary key and the agency, already drained, is not queued again (`agency_rollup_service.py:191`);
`EveryWriteShows` says that the daily refresh covers this too.

Other observations, read from the code and not runs: `src/README.md:262` promises that completing Research starts
Communicate Research, but no code reads `successor_template_id` to start anything. Clearing `group_id` does not clear the row's
`group_inventory_id` (`request_service.py:715` changes the payload after it was applied). The unique violation of a second
active workflow is raised by the flush inside `_snapshot_live_workflow`, outside the `try` of `start_workflow`, so the client
gets a 500 instead of the 400 written for it. The index itself is in `src/db/init.sql` and `src/db/migrate_workflow_engine.sql` but not
in `models.py`: a database made by `create_all` alone does not have it (the mutant `NoIndex`).

Workflow templates, read from the code. Two editors at once leave two rows with one order, or one key twice, because each
numbers from its own snapshot; nothing refuses the second commit. After a reset the orders may have gaps, and an insert
counts a gap as a position (hence `Numbered` in `PlacedWhereAsked`). Seeding an emptied recommended template on a GET, and a
reset, do not ask whether a default task was transferred to another template: it then exists twice in the agency, which
`assert_task_key_available_for_agency` refuses everywhere else.

The client, read from the code:

* Intake and workspace. The message for a note that failed after its request was created (`App.tsx:358`) is never rendered. The
  workspace is not keyed by `requestId`, so an answer of a create, or a refresh, can arrive in the workspace of another
  request: `RequestKeepsItsText` is stated for an agent who waits. A silent refresh discards unsaved edits. A save of the
  workspace sends attribution unsanitised. The hint of `workflowForm.ts:262` is not enforced.
* Task panels. Any error message resets the reservation numbers typed in the cabin hold panel. The passenger and address panels
  decide which records changed against the request as loaded last, so a retry may send again or skip. The backdrop closes the
  task modal during a save, and the late answer closes whatever modal is open then. In the response panel the close of the
  request swallows its error, and "All options were rejected" (line 417) can be shown when one was accepted.
* Cruises. Saving a room resets unsaved assignments of the other rooms; "Rejected" can be stored without a reason; the answer of a
  room can be merged into the form of another cruise.
* Pages and lists. Notes, content and group blocks fetch a record for editing without a guard, so the dialog can open on a record
  that was not clicked last (`ShownIsWhatWasAsked` is stated where there is no such fetch). `GroupInventoryEditModal.tsx:118` says
  that saving failed when only the reload did. Several lists have no guard against late answers, and reports do not clamp
  their page.
* Insurance. Clearing the annual policy sets the tracking to pending whatever waiver is on file; refreshes that overtake
  each other leave a stale status; the server never checks `can_complete`.
* Portals and invitations. Any failure to load a link is shown as an expired one; a lost answer followed by another try says that
  the link is no longer active although the first try was recorded. `_assert_email_available_for_agency` looks at one
  unused invitation, whichever the database returns first, so two can be pending, and two live ones block each other. A
  revoked invitation may still make the account that a thread was making.
* Nothing renders `CommunicationsSection`, `AttachmentsSection`, `TaskLibraryModal`, `WorkflowTaskMoveModal` and
  `WorkflowTaskPickerModal`; they are not modelled.

## Proofs

Checked by TLAPS for any sets of sessions, requests, inventories, workflows, templates, agencies, handlers, links and tabs, for
any numbers of records, rooms, passengers, quotes, intakes, queries, pages and calls, and for any payloads that satisfy the named assumptions:
`SentinelAssumption`, `PayloadAssumption`, `WorkflowAssumption`, `RollupAssumption` say that sentinels are not ids and that payloads
have their types; `NItemsAssumption`, `NRunsAssumption`, `RoomsAssumption`, `SizesAssumption`, `ListSizesAssumption` that sizes are numbers;
`DefaultsAssumption` that the default tasks of a template are a list with a key once, as in `WORKFLOW_TASK_TEMPLATES`, and
`RoomAssumption` that the bound on rows, which the code does not have, leaves room for the longest of these lists. What a theorem
assumes beyond these is in its `ASSUME`. The invariants of the client were checked by TLC on the state space of their run first.

* `GroupReservationProofs!TypeCorrect`: `Spec => []TypeOK`, by one lemma per handler. The part of `TypeOK` that is not a
  type, that a handler in flight names the row it writes, is what a commit needs.
* `GroupReservationProofs!ReadsProtected`: `Spec => []LocksProtectReads`. `LocksProtectReads` is inductive together with
  `TypeOK`. It is stated per session and inventory (`Held`); a step either keeps the lock, the count and the reading of an
  inventory (`OpenKeepsLocks`), takes it (`ReserveKeepsLocks`) or lets go (`FinishKeepsLocks`). The argument that a commit
  disturbs no other session is that it writes only rows it holds, and a row has one holder. Staff writes wait for the lock.
* `CabinSaleProofs!ImplementsCabinSale`: `Spec => SaleSpec`. A handler that starts is an `Offer`, one that rolls back
  declines, reserving a row is a stutter. `UpdateRequestCommit` is `Take`: it holds every inventory it demands
  (`Unreserved` is empty), so by `LocksProtectReads` the counts it read there are the committed ones, and adding to them
  is one atomic sale within what remains. Staff commits are `StaffWrites`, or stutters where no column changed.
* `CabinSaleProofs!ReservesBookings`: `Spec => BookingsReservedOnClose`. The bookings are read before any lock, so the proof needs
  what may happen to them in between (`Intentions`): a request that is being created is known to its own handler only
  (`CreatesAlone`), so the bookings of a present request never grow, and one that vanished did so because its inventory was
  deleted (`MeansBookings`). A handler that holds every inventory it demands has found all of them live, so nothing vanished.
  `Intentions` was checked as an invariant of `group_concurrent` before it was proved.
* `CabinSaleProofs!SalesAreKept`: `Spec => []SalesKept`, if no payload of staff sets `cabins_reserved` (`CountsNotEdited`; a staff member may
  otherwise write any count). Cabins are a set of pairs of a request and one of its cabins, so that lemmas on finite sets count them
  (`CabinsGrow`, `CabinsShrink`, `CabinsAdd`) and no sum is needed. Only the step that marks a reservation applied adds cabins, and what it adds
  to the count is `ReservesBookings`. The strengthening is `References`, what requests refer to is present: an inventory starts
  with nothing bought, and one that is deleted takes its bookings along.
* `CabinSaleProofs!SerialCountsWhatIsSold`: `Spec => []ReservedIsSold` for at most one session (`Sequential`), if staff edits no counts,
  inventories start unreserved (`NothingReservedYet`) and no payload changes the inventory or the cabins of the request it closes
  (`ClosesKeepLink`; `group_f_link_close` shows what becomes of one that does). The strengthening is `SellsOnce`: an applied request is closed as
  purchased, so no handler that reopens or updates it gets past its guard, an update in flight still has the row it read, and
  a deletion in flight the bookings and links it saw. All were checked on `group_serial` before they were proved.
* `RequestWorkflowProofs!TypeCorrect`: `Spec => []TypeOK`, from lemmas on the operators on tasks.
* `RequestWorkflowProofs!AtMostOneActive`: `Spec => []OneActive`. Only a commit changes workflow rows, it changes one, and
  a row it makes active was not active when the handler read it, so the handler's write is subject to the unique
  index. Nothing else protects it: without the index the property fails.

* `GroupReservationProofs`, with `Sessions = {s}`: `SerialWithinAllocated`, `SerialPurchasesReserved`, `SerialPurchasedStaysClosed`,
  `SerialDeletesUnreserved`. The strengthening is `Fresh`: what the handler checked when it began is still so when it commits. It is
  needed because each of these checks is made on a snapshot, and it is exactly what a second session breaks. With `TypeOK` and
  `LocksProtectReads` it is inductive; the two action properties follow from the same invariant and the step.
* `RequestWorkflowProofs`, with `Sessions = {s}`: `SerialInv` says that the handler's snapshot is what is committed and that tasks are
  stamped and dated, which gives `SerialDates`, `SerialEndedFrozen`, `SerialClosedStartsNothing` and their conjunction
  `SerialOverStaysOver`. `EndsInv` adds that a workflow with every task done has ended; with `"Active" \notin WorkflowStatuses`, since
  an agent may otherwise reactivate a finished workflow by hand, it gives `SerialDoneIsCompleted` and `SerialArchivedHasNoActive`.
  `ViewsChangeDatesOnly` holds for any sessions: `ViewInv` says that a GET means to change due dates only.
* `RollupProofs`: `RollupTypeCorrect`; `RowsTakenBackOnlyByRace`, without hypotheses, so for any handlers, campaign refreshes,
  faults and first views: by `RowsInv` a snapshot never exceeds the data, and the row of a table that no handler refreshes (`Private`)
  is updated by the scheduler alone, which began from the row it overwrites; in a shared table a save writes the columns that differ
  from the row it read (`SavedIsSnapshot`), so a column that goes back had moved on since (`SaveRegresses`);
  `NoRefreshLost`, if nothing fails and no row is viewed for the first time (`NothingFails`): by `QueueInv` a
  row that is behind has its agency queued, drained and not yet read, or a write about to queue it.
* `AgentTasksProofs`, over `MCSpec`: one invariant per screen, and a screen that is not studied stays off.
  `PanelInv`: a chain in flight has yet to send, with values that settle it, every record that it had on screen and does not find
  settled (`RunFine`); a settled record stays settled, also for whoever still shows or sends an older reading (`StaysSettled`); a
  Done task has the records of the save that ended it settled (`StoredWhole`); a panel is busy with one save of its own (`OneSave`),
  and after a closed request is left only reloads go on (`LeftForGood`). Overlapping chains and retries after a lost answer are why
  they are needed: a record that is skipped as settled may have been stored by another chain, which is still running.
  `InsuranceInv`: wherever the check is gone by, in the panel, in a request that is loaded or about to be shown, in a task that is
  being completed, it is on record (`Recorded`), and each flag has a handler that takes it off (`Caused`). `RoomsInv` says that what the
  dialog believes to be stored is legal by itself, so that merging one room into it is legal, whatever is in the form of the
  others (`MergeIsLegal`), and that stored rooms hold passengers of the request (`RoomsOfParty`), which every accepted save and every
  removal keep (`AppliedIsOfParty`, `FewerKeep`).
  From them `TasksAreTyped`, `DoneTasksAreStored`, `BusyTasksHaveCause`, `CheckedInsuranceIsOnRecord`, `RoomsAreSavedLegally` and the
  action property `TypedStays`.
* `AgentFormsProofs`, over `MCSpec`, has the links and the intake. `PortalInv` has the pending link unique (`OnePending`), every use
  recorded (`UsedOnce`), and says what a tab and a sender know. From it `PortalOneLink`, `PortalActsOnce` and `PortalThanks`. The
  acceptance in a thread is why it is needed: a link that was checked may have been used meanwhile, and only the unique
  account refuses the second commit. `IntakeInv` relates every handler in flight to what is in view (`RunFine`): one of the workspace
  is heard only there, and by a patient agent for the request in view only; what is confirmed has the bookings of its group; a request
  is made by the intake of its number. `OneMaking` (one request is being made at a time, which is what the flag of the form is for)
  and `NoteIsDue` (an intake that has made its request and is still on screen waits for its note) are why an intake that is
  submitted again finds no request of its number. From it, with `PortalInv`, `FormsAreTyped`; then `FormsAreWhole` (of a linked client: its contact and its birth date), `IntakesMakeOne`,
  `TextStaysItsOwn`.
* `AgentPagesProofs`, over `MCSpec`: the habits of the thirteen pages and of the lists enter as facts on finitely many records
  (`PageFacts`, `DialogFacts`, `KindFacts`); the steps are proved from them, for every page at once.
  `RecordsInv`: the form holds the text of the record it is saved to (`DialogFine`), and so does a save that was not sent (`CallFine`);
  a dialog that drops what comes late has no fetch of its own but the one it waits for (`FetchesKnown`); where the page keeps a
  flag, the one save (`OneSave`) or its late reload (`LateSave`) is what the flag stands for; and what an agent who waits for answers can
  have in flight (`Patience`), which is why nothing that arrives closes a dialog with text in it.
  `ListInv`: a list that guards its calls hears one at most, and that one was made for what the controls ask now (`OneLive`), by the
  sequence, by the cancelled flag or because the input is locked; a spinner has such a call or a timer that makes one (`SpinnerEnds`).
  A list at rest then shows the last answer it heard (`Matches`), on a page that this answer has, since a guarded list that
  has pages clamps. TLC found `ListInv` and `RecordsInv` to hold on all states of `agent_pages`.
  From them `DialogsSaveRight`, `ShownIsAskedFor` and the action property `TypedTextStays`; with `TemplatesInv` of the next
  paragraph `PagesAreTyped`.
* `TemplateProofs`, and from it `AgentPagesProofs!EditsKeepLists`: `MCSpec => TemplatesAreLists`, that every handler that edits the
  templates is a step of `TaskLists` and puts a task where it was asked to go. Four layers:
  * The place of a row is one more than the number of rows before it, so the lemmas count finite sets: places are the numbers
    from 1 to the number of rows, each once, and `Ordered` is a sequence of the rows of the template (`PlaceInRange`,
    `PlaceIsInjective`, `PlaceIsTaken`, `OrderedInOrder`).
  * Two sets of rows that agree but for one row (`SameBut`: the same templates and keys, the same order among the others)
    have lists that agree but for one element. Whether that row is only there before, only after, or in both at two places
    decides whether the list is `RemoveAt`, `InsertAt` or both in turn. Shifting and renumbering keep
    the order among the rows they touch, so a chain of them is one `SameBut` (`SameButChain`).
  * `RowsInv` is the strengthening: rows are of live templates only; within one template their numbers differ (two rows
    with one number would be ordered by their random ids, and exchanging the numbers of neighbours would move neither) and are
    at most `NTasks` plus the number of rows; and no key is there twice, which is why `Deduped` has nothing to do. Numbers are not
    1 to n: a reset leaves gaps, which an edit closes only where it renumbers, so the bound has to grow with each row. TLC found
    `TemplatesInv`, which is `RowsInv` with the types, to hold on all states of `agent_pages`.
  * One lemma per handler shows `RowsInv` again and the step of `TaskLists` (`PlaceTaskSteps`, `TransferSteps`, `SetOrderSteps`,
    `MoveTaskSteps`, `DeleteTaskSteps`, `SeedSteps`, `ResetSteps`, `ArchiveSteps`, ...); `TemplatesSteps` and `TemplatesStay` put them together.

Only model-checked: the two liveness properties (`EveryHandlerEnds`, `EveryWriteShows`: they need fairness and ENABLED). Every invariant and action
property of the passing runs has its theorem, under the hypotheses that its run meets. Beyond the prover here is also induction over data; the models are
written so that none is needed: what would be a fold is a set that is counted.

## Not modelled

* Subscriptions and trials: the scheduler, a login and the middleware lock an agency by one UPDATE from a snapshot which nothing
  refuses, so an activation from the Bridge in between is overwritten. No property of that race holds and the
  rest is one assignment.
* Roles, capabilities and the last active super user: `update_agency_user` checks an administrator only against changing himself.
* Pricing and payment due dates of cruises, the return on investment of campaigns: arithmetic on one row.
* Two editors of one workflow template, and the migration of workflows of earlier versions
  (`_dedupe_live_workflow_tasks`): current code does not create what it repairs.
* Several travellers who sign one waiver; the document, the encryption of cards, the text of terms.
* Tenant isolation is a filter on queries; every module is about one agency or names its agencies.
* Passengers, notes, communications, attachments and branding on the server: one row or one file per call. What the client
  does with them is modelled.
* AI services, e-mail bodies, reports and exports, parsing of imports, layout; the pages for settings, profile and Bridge.
* Schema, declarations, deployment: the indexes and foreign keys that decide commits are cited where they do.

## Plan

Done: `GroupReservation` with `CabinSale`; `AgencyRollup`; `RequestWorkflow`; `PortalLinks`; `TemplateTasks` with `TaskLists`; the
client modules; theorems for all of them.

Next, in this order:

1. Coupling: an acceptance of `PortalLinks` as the `AcceptBegin` of `RequestWorkflow`, in one module.
2. Several signers of a waiver; the import of clients.
