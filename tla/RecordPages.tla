---------------------------- MODULE RecordPages -----------------------------
(***************************************************************************)
(* The pages of the client that list records and edit them in dialogs:     *)
(* notes, e-mails, attachments, passengers, quotes and cruises of a        *)
(* request; campaigns, group blocks and their ledger, workflow templates,  *)
(* tasks, the team and the client registry.                                *)
(*                                                                         *)
(* They are one machine with different habits.  A page keeps its list, the *)
(* record being edited and a confirmation; its dialog keeps the form.  The *)
(* habits (who keeps the "saving" flag, whether a record is fetched before *)
(* it is edited, what happens after a save) are a record per page and per  *)
(* dialog, and what a row of the list offers is an operator per page.      *)
(*                                                                         *)
(* The agent may be hasty: every dialog disables its Cancel button during  *)
(* a save and nearly all leave the backdrop live.                          *)
(***************************************************************************)
EXTENDS Naturals, FiniteSets

CONSTANTS
    NItems,  \* records (record 1 is the primary passenger, the agent itself)
    NRuns    \* calls in flight at once

ASSUME NItemsAssumption == NItems \in Nat \ {0}
ASSUME NRunsAssumption == NRuns \in Nat \ {0}

VARIABLES
    srv,    \* the records of the server, and whose text each one holds
    props,  \* the records as the page loaded them last
    ui,     \* the page, its dialog and its confirmation
    runs    \* the calls in flight

vars == <<srv, props, ui, runs>>

Items == 1 .. NItems
Runs == 1 .. NRuns

-----------------------------------------------------------------------------
(* The habits of a page *)

(***************************************************************************)
(*  creates  the page has an "add" dialog                                  *)
(*  fetch    "none", "inside" the open dialog, or "before" it opens        *)
(*  drops    an answer is dropped when its dialog was closed meanwhile     *)
(*  shares   one dialog component serves "add" and "edit"                  *)
(*  after    "closes" the dialog and reloads before it is done,            *)
(*           "stays" open on what was saved, or leaves it to the "dialog"  *)
(*  throws   a failed reload counts as a failed save                       *)
(*  removed  what a removal makes of a record                              *)
(*  evicts   the removal closes the editor of that record                  *)
(***************************************************************************)
PlainPage ==
    [creates |-> TRUE, fetch |-> "none", drops |-> FALSE, shares |-> TRUE,
     after |-> "closes", throws |-> FALSE, removed |-> "absent", evicts |-> FALSE]

NotesPage == [PlainPage EXCEPT !.fetch = "inside"]

ContentPage == [PlainPage EXCEPT !.fetch = "inside", !.shares = FALSE, !.evicts = TRUE]

AttachmentReader ==
    [PlainPage EXCEPT !.creates = FALSE, !.fetch = "inside", !.drops = TRUE]

PassengersPage == [PlainPage EXCEPT !.shares = FALSE, !.evicts = TRUE]

InsurancePage == PlainPage

CruisesPage == [PlainPage EXCEPT !.removed = "ended"]

CampaignsPage ==
    [PlainPage EXCEPT !.shares = FALSE, !.after = "dialog", !.removed = "ended"]

GroupsPage == [CampaignsPage EXCEPT !.fetch = "before"]

LedgerPage == [PlainPage EXCEPT !.shares = FALSE, !.after = "dialog", !.throws = TRUE]

TemplatesPage == [CampaignsPage EXCEPT !.removed = "absent"]

TasksPage == TemplatesPage

TeamPage ==
    [PlainPage EXCEPT !.creates = FALSE, !.removed = "ended", !.evicts = TRUE]

ClientsPage == [PlainPage EXCEPT !.removed = "ended"]

\* The client dialog loads its own record, and drops an answer that comes late.
ClientRecord ==
    [ClientsPage EXCEPT !.fetch = "inside", !.drops = TRUE, !.after = "stays"]

PageOf ==
    [notes |-> NotesPage, content |-> ContentPage, attachments |-> AttachmentReader,
     passengers |-> PassengersPage, insurance |-> InsurancePage, cruises |-> CruisesPage,
     campaigns |-> CampaignsPage, groups |-> GroupsPage, ledger |-> LedgerPage,
     templates |-> TemplatesPage, tasks |-> TasksPage, team |-> TeamPage,
     clients |-> ClientRecord]

Pages == DOMAIN PageOf

(***************************************************************************)
(* The habits of a dialog                                                  *)
(*  frozen  its inputs are disabled while the page is saving or loading    *)
(*  owns    it keeps the saving flag itself, and clears it when it closes  *)
(*  sticky  the backdrop is dead during a save                             *)
(*  inline  the editor is a row: editing another one replaces it           *)
(*  after   "detaches": closes at once, the page reloads by itself;        *)
(*          "reloads": waits for the page's reload, then closes            *)
(***************************************************************************)
Modal == [frozen |-> TRUE, owns |-> FALSE, sticky |-> FALSE, inline |-> FALSE, after |-> "page"]
OwnFlag == [Modal EXCEPT !.owns = TRUE, !.after = "detaches"]

NoteModal == Modal
CommunicationModal == Modal
InboundEmailModal == Modal
QuotedInsuranceModal == Modal
ProposedCruiseModal == Modal
PassengerPickerModal == Modal
PassengerEditor == [Modal EXCEPT !.inline = TRUE]
TeamMemberEditor == [Modal EXCEPT !.inline = TRUE, !.frozen = FALSE]
ClientModal == Modal
MarketingCampaignModal == OwnFlag
GroupShellModal == OwnFlag
WorkflowTemplateEditModal == OwnFlag
GroupInventoryEditModal == [OwnFlag EXCEPT !.after = "reloads"]
CreateWorkflowModal == [OwnFlag EXCEPT !.after = "reloads"]
TaskInventoryEditModal == [OwnFlag EXCEPT !.after = "reloads"]
CustomTaskBuilderModal == [OwnFlag EXCEPT !.after = "reloads"]
AddTaskToWorkflowModal == [OwnFlag EXCEPT !.after = "reloads", !.sticky = TRUE]

Dialog(p, mode) ==
    CASE p = "notes"      -> NoteModal
      [] p = "content"    -> CommunicationModal
      [] p = "insurance"  -> QuotedInsuranceModal
      [] p = "cruises"    -> ProposedCruiseModal
      [] p = "passengers" -> IF mode = "edit" THEN PassengerEditor ELSE PassengerPickerModal
      [] p = "team"       -> TeamMemberEditor
      [] p = "clients"    -> ClientModal
      [] p = "campaigns"  -> MarketingCampaignModal
      [] p = "groups"     -> GroupShellModal
      [] p = "ledger"     -> GroupInventoryEditModal
      [] p = "templates"  -> IF mode = "edit" THEN WorkflowTemplateEditModal
                                              ELSE CreateWorkflowModal
      [] p = "tasks"      -> CASE mode = "edit"  -> TaskInventoryEditModal
                               [] mode = "place" -> AddTaskToWorkflowModal
                               [] OTHER          -> CustomTaskBuilderModal
      [] OTHER            -> Modal

Habits == PageOf[ui.page]
Box == Dialog(ui.page, ui.dialog)

After(p, mode) ==
    IF PageOf[p].after = "dialog" THEN Dialog(p, mode).after ELSE PageOf[p].after

-----------------------------------------------------------------------------
(***************************************************************************)
(* State.  A record is "live", "kept" (an accepted cruise) or "ended"      *)
(* (sent, rejected, stopped, archived, deactivated).  The form of the      *)
(* dialog holds the text of record of, and a save goes to record on (0: a  *)
(* new one); asked is the record whose row was clicked.  list is what the  *)
(* page shows: the cruise cards show a decision before it is stored.       *)
(***************************************************************************)
States == {"absent", "live", "kept", "ended"}
Modes == {"view", "edit", "create", "place"}

Idle == [kind |-> "idle"]
Awaited == {"fetch", "save", "remove", "restore"}

\* own: the dialog that began the call is still open; sent: the record is
\* stored and the list is being reloaded; evict and list were captured when
\* the call began.
RunSet ==
    [kind : Awaited \cup {"reload"}, item : 0 .. NItems, of : 0 .. NItems,
     mode : Modes, own : BOOLEAN, sent : BOOLEAN,
     evict : BOOLEAN, list : {<<>>} \cup [Items -> States]]

TypeOK ==
    /\ srv.rec \in [Items -> States] /\ srv.from \in [Items -> 0 .. NItems]
    /\ props \in [Items -> States]
    /\ ui.page \in Pages /\ ui.hasty \in BOOLEAN /\ ui.list \in [Items -> States]
    /\ ui.dialog \in Modes \cup {"none"}
    /\ {ui.asked, ui.on, ui.of, ui.pending, ui.removing} \subseteq 0 .. NItems
    /\ {ui.typed, ui.saving, ui.loading} \subseteq BOOLEAN
    /\ ui.dialog = "none" => ~ ui.typed
    /\ \A r \in Runs : runs[r] # Idle => runs[r] \in RunSet

\* In the content page the e-mails an agent pasted in have their own dialog.
Inbound(i) == ui.page = "content" /\ i = NItems

\* The component that shows a mode.  A late answer closes, or fills, whatever
\* its component shows by now.
Slot(mode, i) ==
    IF mode = "view" THEN "viewer"
    ELSE CASE ui.page = "content" -> IF mode = "create" \/ Inbound(i) THEN "inbound" ELSE "outbound"
           [] Habits.shares -> "editor"
           [] OTHER -> mode

ShownSlot == IF ui.dialog = "none" THEN "none" ELSE Slot(ui.dialog, ui.asked)
Shows(run) == ShownSlot = Slot(run.mode, run.item)

\* Variant: whoever keeps the saving flag, it is cleared when a dialog closes.
ShutFree(u) ==
    [u EXCEPT !.dialog = "none", !.asked = 0, !.on = 0, !.of = 0, !.typed = FALSE,
              !.loading = @ /\ ~ Habits.drops, !.saving = FALSE]

\* Variant: the form is not reset.
ShutUnreset(u) ==
    [u EXCEPT !.dialog = "none", !.asked = 0, !.on = 0, !.of = 0,
              !.loading = @ /\ ~ Habits.drops, !.saving = @ /\ ~ Box.owns]

Shut(u) ==
    [u EXCEPT !.dialog = "none", !.asked = 0, !.on = 0, !.of = 0, !.typed = FALSE,
              !.loading = @ /\ ~ Habits.drops, !.saving = @ /\ ~ Box.owns]

\* The form effect of a dialog: it takes the record and its text together.
\* Variant: the text that is being typed is not replaced.
RefilledHalf(u, i) == [u EXCEPT !.on = i]
Refilled(u, i) == [u EXCEPT !.on = i, !.of = i, !.typed = FALSE]

-----------------------------------------------------------------------------
(* What a row offers *)

NotesRow(i) == {"view", "edit"}
ContentRow(i) == {"edit"} \cup IF props[i] = "live" \/ Inbound(i) THEN {"remove"} ELSE {}
AttachmentRow(i) == {"view"}
InsuranceRow(i) == {"edit"}
CampaignRow(i) == {"edit"} \cup IF props[i] = "live" THEN {"remove"} ELSE {}
GroupRow(i) == CampaignRow(i)
LedgerRow(i) == {"edit", "remove"}
TemplateRow(i) == {"edit", "remove", "restore"}
TaskRow(i) == {"edit", "place", "remove", "restore"}

PassengerRow(i) ==
    {"edit"} \cup
    IF ~ ui.saving /\ ui.removing = 0 /\ i # 1 /\ Cardinality({j \in Items : props[j] # "absent"}) > 1
      THEN {"remove"} ELSE {}

\* A proposed cruise is accepted or rejected on its card.
CruiseRow(i) == {"edit"} \cup IF ui.list[i] = "live" THEN {"remove", "restore"} ELSE {}

TeamRow(i) ==
    {"edit"} \cup IF props[i] = "ended" THEN {"restore"} ELSE IF i = 1 THEN {} ELSE {"remove"}

ClientRow(i) ==
    {"view", "edit"} \cup IF props[i] = "ended" THEN {"restore"} ELSE {"remove"}

Row(i) ==
    IF ui.list[i] = "absent" THEN {}
    ELSE CASE ui.page = "notes"       -> NotesRow(i)
           [] ui.page = "content"     -> ContentRow(i)
           [] ui.page = "attachments" -> AttachmentRow(i)
           [] ui.page = "passengers"  -> PassengerRow(i)
           [] ui.page = "insurance"   -> InsuranceRow(i)
           [] ui.page = "cruises"     -> CruiseRow(i)
           [] ui.page = "campaigns"   -> CampaignRow(i)
           [] ui.page = "groups"      -> GroupRow(i)
           [] ui.page = "ledger"      -> LedgerRow(i)
           [] ui.page = "templates"   -> TemplateRow(i)
           [] ui.page = "tasks"       -> TaskRow(i)
           [] ui.page = "team"        -> TeamRow(i)
           [] OTHER                   -> ClientRow(i)

-----------------------------------------------------------------------------
(* Opening, typing, closing *)

Free == {r \in Runs : runs[r] = Idle}
Flying(kind) == {r \in Runs : runs[r].kind = kind}

Call(kind, item, mode) ==
    [kind |-> kind, item |-> item, of |-> IF kind = "save" THEN ui.of ELSE 0,
     mode |-> mode, own |-> kind \in {"fetch", "save"},
     sent |-> FALSE, evict |-> FALSE, list |-> <<>>]

\* What the handler of a decision captured, to roll the cards back.
Shown == IF ui.page = "cruises" THEN props ELSE <<>>

Begin(run) ==
    \E r \in Free : /\ \A q \in Free : r <= q
                    /\ runs' = [runs EXCEPT ![r] = run]

Disowned(rs) == [r \in Runs |-> IF rs[r] = Idle THEN Idle ELSE [rs[r] EXCEPT !.own = FALSE]]

\* A patient agent waits for the answers to what it began.
May == ui.hasty \/ \A k \in Awaited : Flying(k) = {}

Clear == ui.dialog = "none" \/ Box.inline
Creatable == {i \in Items : srv.rec[i] = "absent" /\ (ui.page = "content" => Inbound(i))}

Add ==
    /\ May /\ Habits.creates /\ ui.dialog = "none" /\ ui.pending = 0 /\ Creatable # {}
    /\ ui' = [Refilled(ui, 0) EXCEPT !.dialog = "create",
                                     !.loading = @ /\ ~ Habits.drops]
    /\ runs' = Disowned(runs)
    /\ UNCHANGED <<srv, props>>

\* The record is at hand, is loaded inside the open dialog, or before it opens.
Open(i, mode) ==
    /\ May /\ mode \in Row(i) /\ ui.pending = 0
    /\ ui.dialog = "none" \/ (ui.dialog = mode /\ Box.inline)
    /\ CASE Habits.fetch = "none" ->
              /\ ui' = [Refilled(ui, i) EXCEPT !.dialog = mode, !.asked = i]
              /\ runs' = Disowned(runs)
         [] Habits.fetch = "inside" ->
              /\ ui' = [Refilled(ui, 0) EXCEPT !.dialog = mode, !.asked = i, !.loading = TRUE]
              /\ Begin(Call("fetch", i, mode))
         [] OTHER ->
              /\ Begin(Call("fetch", i, mode)) /\ UNCHANGED ui
    /\ UNCHANGED <<srv, props>>

\* "Edit" in the viewer.  The client dialog loads the record again.
EditViewed ==
    /\ May /\ ui.dialog = "view" /\ ui.on # 0 /\ "edit" \in Row(ui.on)
    /\ IF Habits.drops
         THEN /\ ui' = [ui EXCEPT !.dialog = "edit", !.loading = TRUE]
              /\ \E r \in Free :
                    /\ \A q \in Free : r <= q
                    /\ runs' = [Disowned(runs) EXCEPT ![r] = Call("fetch", ui.asked, "edit")]
         ELSE ui' = [ui EXCEPT !.dialog = "edit"] /\ UNCHANGED runs
    /\ UNCHANGED <<srv, props>>

Type ==
    /\ ui.dialog \in {"edit", "create", "place"} /\ ui.pending = 0
    /\ ui.on # 0 \/ ui.dialog = "create"
    /\ IF Box.frozen THEN ~ ui.saving /\ ~ ui.loading ELSE May
    /\ ui' = [ui EXCEPT !.typed = TRUE]
    /\ UNCHANGED <<srv, props, runs>>

Dismiss ==
    /\ ui.dialog # "none" /\ ui.pending = 0
    /\ IF Box.sticky \/ ~ ui.hasty THEN ~ ui.saving /\ ~ ui.loading ELSE TRUE
    /\ ui' = Shut(ui)
    /\ runs' = Disowned(runs)
    /\ UNCHANGED <<srv, props>>

Submit ==
    /\ ui.dialog \in {"edit", "create", "place"} /\ ui.pending = 0
    /\ ~ ui.saving /\ ~ ui.loading
    /\ ui.on = 0 => ui.typed /\ ui.dialog = "create"
    /\ Begin(Call("save", ui.on, ui.dialog))
    /\ ui' = [ui EXCEPT !.saving = TRUE]
    /\ UNCHANGED <<srv, props>>

-----------------------------------------------------------------------------
(* Removals, which a second dialog confirms, and what is done at one click *)

Ask(i) ==
    /\ May /\ "remove" \in Row(i) /\ ui.pending = 0 /\ ui.removing # i
    /\ Clear \/ (i = ui.on /\ Habits.evicts /\ ~ ui.saving /\ ~ ui.loading)
    /\ ui' = [ui EXCEPT !.pending = i]
    /\ UNCHANGED <<srv, props, runs>>

KeepIt ==
    /\ ui.pending # 0
    /\ IF ui.hasty /\ ui.page # "cruises" THEN TRUE ELSE ui.removing = 0
    /\ ui' = [ui EXCEPT !.pending = 0]
    /\ UNCHANGED <<srv, props, runs>>

\* The cards of the cruises show a decision at once.
Decided(u, i, state) ==
    [u EXCEPT !.removing = i, !.list[i] = IF u.page = "cruises" THEN state ELSE @]

RemoveIt ==
    /\ ui.pending # 0 /\ ui.removing # ui.pending
    /\ Begin([Call("remove", ui.pending, "edit")
               EXCEPT !.evict = Habits.evicts /\ ui.on = ui.pending, !.list = Shown])
    /\ ui' = Decided(ui, ui.pending, Habits.removed)
    /\ UNCHANGED <<srv, props>>

\* Accept, reactivate, reset, move: no dialog.  The client list has no flag for it.
Restore(i) ==
    /\ May /\ "restore" \in Row(i) /\ Clear /\ ui.pending = 0
    /\ ui.page = "clients" \/ ui.removing # i
    /\ Begin([Call("restore", i, "edit") EXCEPT !.list = Shown])
    /\ ui' = IF ui.page = "clients" THEN ui ELSE Decided(ui, i, "kept")
    /\ UNCHANGED <<srv, props>>

-----------------------------------------------------------------------------
(* Answers *)

Awaits(run) ==
    [run EXCEPT !.sent = TRUE, !.of = 0, !.evict = FALSE, !.list = <<>>]

\* A call that closes the dialog leaves no call of that dialog's behind.
Becomes(r, run) ==
    LET rs == [runs EXCEPT ![r] = run]
    IN  runs' = IF ui'.dialog = "none" THEN Disowned(rs) ELSE rs

Done(r) == Becomes(r, Idle)

\* The finally of a handler clears the flag of its own component.
Released(u, run) ==
    CASE run.kind = "save" ->
            [u EXCEPT !.saving = @ /\ Dialog(u.page, run.mode).owns /\ ~ Shows(run)]
      [] run.kind \in {"remove", "restore"} -> [u EXCEPT !.removing = 0]
      [] OTHER -> u

Closed(run) == IF Shows(run) THEN Shut(ui) ELSE ui

\* An effect that was cleaned up drops the answer of its fetch.
Deaf(run) == Habits.drops /\ ~ run.own

Fetched(r) ==
    /\ runs[r].kind = "fetch"
    /\ LET run == runs[r]
           i == run.item
           heard == \/ ui.page = "notes" /\ ui.dialog # "none"
                    \/ Shows(run)
       IN  \/ /\ Deaf(run) /\ UNCHANGED ui
           \/ /\ ~ Deaf(run) /\ srv.rec[i] # "absent"
              /\ IF Habits.fetch = "before"
                   THEN /\ ui.dialog \in {"none", "edit"}
                        /\ ui' = [Refilled(ui, i) EXCEPT !.dialog = "edit", !.asked = i]
                   ELSE ui' = [(IF heard THEN Refilled(ui, i) ELSE ui) EXCEPT !.loading = FALSE]
           \/ /\ ~ Deaf(run)
              /\ ui' = IF Habits.fetch = "before" THEN ui
                       ELSE [(IF Habits.drops THEN ui ELSE Closed(run)) EXCEPT !.loading = FALSE]
    /\ Done(r)
    /\ UNCHANGED <<srv, props>>

\* The text of the form is stored as that of the record: `of` is the record whose
\* text the form was filled with, or 0 when it was begun blank.
Stored(run, i) ==
    [srv EXCEPT !.rec[i] = IF run.item = 0 THEN "live" ELSE @,
                !.from[i] = IF run.item = 0 /\ run.of = 0 THEN i ELSE run.of]

\* What the handler of a save does once the record is stored.
Settled(r) ==
    LET run == runs[r]
        after == After(ui.page, run.mode)
    IN  CASE after = "reloads" -> UNCHANGED ui /\ Becomes(r, Awaits(run))
          [] after = "closes"  -> /\ ui' = Closed(run)
                                  /\ Becomes(r, Awaits(run))
          [] after = "stays" /\ run.mode = "edit" /\ ui.dialog \in {"view", "edit"} ->
                /\ runs' = [Disowned(runs) EXCEPT ![r] = Call("fetch", ui.asked, "view")]
                /\ ui' = [Refilled(ui, run.item) EXCEPT !.dialog = "view", !.saving = FALSE,
                                                        !.loading = TRUE]
          [] OTHER -> /\ ui' = Released(Closed(run), run)
                      /\ Becomes(r, Call("reload", 0, "view"))

Saved(r) ==
    /\ runs[r].kind = "save" /\ ~ runs[r].sent
    /\ LET run == runs[r]
       IN  \E i \in IF run.item = 0 THEN Creatable
                    ELSE {j \in {run.item} : srv.rec[j] # "absent"} :
               srv' = Stored(run, i) /\ Settled(r)
    /\ UNCHANGED props

\* A call is refused, or its answer is lost.
Refused(r) ==
    /\ runs[r].kind \in {"save", "remove", "restore"} /\ ~ runs[r].sent
    /\ \/ UNCHANGED srv
       \/ /\ runs[r].kind = "save" /\ runs[r].item # 0 /\ srv.rec[runs[r].item] # "absent"
          /\ srv' = Stored(runs[r], runs[r].item)
    /\ ui' = [Released(ui, runs[r]) EXCEPT !.list = IF ui.page = "cruises" /\ runs[r].kind # "save"
                                                      THEN runs[r].list ELSE @]
    /\ Done(r)
    /\ UNCHANGED props

Removed(r) ==
    /\ runs[r].kind = "remove" /\ ~ runs[r].sent /\ srv.rec[runs[r].item] # "absent"
    /\ srv' = [srv EXCEPT !.rec[runs[r].item] = Habits.removed]
    /\ ui' = [(IF runs[r].evict THEN Shut(ui) ELSE ui) EXCEPT !.pending = 0]
    /\ Becomes(r, Awaits(runs[r]))
    /\ UNCHANGED props

Restored(r) ==
    /\ runs[r].kind = "restore" /\ ~ runs[r].sent /\ srv.rec[runs[r].item] # "absent"
    /\ srv' = [srv EXCEPT !.rec[runs[r].item] = IF ui.page = "cruises" THEN "kept" ELSE "live"]
    /\ UNCHANGED <<props, ui>>
    /\ Becomes(r, Awaits(runs[r]))

\* The list is loaded again, or is not: what awaits it goes on all the same,
\* except where a failed reload counts as a failed save.
Reloaded(r) ==
    /\ runs[r] # Idle /\ (runs[r].sent \/ runs[r].kind = "reload")
    /\ LET run == runs[r]
           waits == run.kind = "save" /\ After(ui.page, run.mode) = "reloads"
           closed == Released(IF waits THEN Closed(run) ELSE ui, run)
       IN  \/ props' = srv.rec /\ ui' = [closed EXCEPT !.list = srv.rec]
           \/ props' = props /\ ui' = IF Habits.throws THEN Released(ui, run) ELSE closed
    /\ Done(r)
    /\ UNCHANGED srv

ReloadElsewhere ==
    /\ Flying("reload") = {}
    /\ Begin(Call("reload", 0, "view"))
    /\ UNCHANGED <<srv, props, ui>>

\* Another agent removes a record, where records are ever removed.
Elsewhere ==
    /\ ui.page \notin {"notes", "attachments", "insurance"}
    /\ \E i \in Items :
          /\ srv.rec[i] \notin {"absent", Habits.removed}
          /\ srv' = [srv EXCEPT !.rec[i] = Habits.removed,
                                !.from[i] = IF Habits.removed = "absent" THEN i ELSE @]
    /\ UNCHANGED <<props, ui, runs>>

-----------------------------------------------------------------------------
Init ==
    /\ \E rec \in [Items -> {"absent", "live"}] :
        /\ srv = [rec |-> rec, from |-> [i \in Items |-> i]]
        /\ props = rec
        /\ \E p \in Pages, h \in BOOLEAN :
            ui = [page |-> p, hasty |-> h, list |-> rec, dialog |-> "none", asked |-> 0,
                  on |-> 0, of |-> 0, typed |-> FALSE, saving |-> FALSE, loading |-> FALSE,
                  pending |-> 0, removing |-> 0]
    /\ runs = [r \in Runs |-> Idle]

Answer(r) ==
    Fetched(r) \/ Saved(r) \/ Refused(r) \/ Removed(r) \/ Restored(r) \/ Reloaded(r)

Agent ==
    \/ Add \/ EditViewed \/ Type \/ Dismiss \/ Submit \/ KeepIt \/ RemoveIt
    \/ \E i \in Items : Ask(i) \/ Restore(i) \/ \E m \in {"view", "edit", "place"} : Open(i, m)

Next == Agent \/ Elsewhere \/ ReloadElsewhere \/ \E r \in Runs : Answer(r)

Spec == Init /\ [][Next]_vars

-----------------------------------------------------------------------------
(* Properties *)

\* No record is ever stored with the text of another: not by an answer that
\* arrives in the dialog of another record, nor by the save after it.
NoCrossWrite == \A i \in Items : srv.rec[i] # "absent" => srv.from[i] = i

\* Where the page keeps the saving flag, one save is in flight at most: the
\* backdrop, another record and a failed reload do not let a second one begin.
\* A dialog that keeps its own flag needs an agent that waits.
SavesOnce ==
    ~ ui.hasty \/ (\A m \in Modes : ~ Dialog(ui.page, m).owns)
        => Cardinality(Flying("save")) <= 1

Sheltered == {"insurance", "cruises", "clients"}

\* What the agent typed is lost only by what the agent did to it: it closed the
\* dialog, it turned to another row, it removed the record, or its own save was
\* stored.  A hasty agent can rely on it only where inputs are disabled as long as
\* anything is in flight that could close the dialog or replace the form.
KeepsTyped ==
    ui.typed /\ ~ ui'.typed /\ (ui.hasty => ui.page \in Sheltered) =>
        \/ Dismiss
        \/ \E i \in Items : Open(i, "edit")
        \/ \E r \in Runs : /\ runs'[r] # runs[r]
                           /\ \/ runs[r].kind = "save" /\ runs[r].own
                              \/ runs[r].kind = "remove" /\ runs[r].item = ui.on

\* A dialog whose fetch is dropped when it closes, and one that needs no fetch,
\* shows the record whose row was clicked.
ShownIsAsked ==
    ui.dialog # "none" /\ ui.on # 0 /\ (Habits.fetch = "none" \/ ui.page = "attachments")
        => ui.on = ui.asked
=============================================================================
