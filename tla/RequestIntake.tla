---------------------------- MODULE RequestIntake -----------------------------
(***************************************************************************)
(* The two forms of a cruise request: the intake of a new one, standard or *)
(* out of a group block, and the workspace of one that exists.  They are   *)
(* one component with the form as its only state; what surrounds it is the *)
(* application: its views, its login, the dialogs that lead to a group.    *)
(*                                                                         *)
(* A handler of the application lives as long as the page does: whatever   *)
(* the agent turned to meanwhile, its answer resets the form and sets the  *)
(* view.  A handler of the workspace is deaf once the workspace is left.   *)
(***************************************************************************)
EXTENDS Naturals, FiniteSets

CONSTANTS
    NRequests,  \* requests; request 1 is there from the start
    NForms,     \* intakes that are begun
    NGroups,    \* group blocks
    NRuns       \* handlers in flight at once

ASSUME SizesAssumption == {NRequests, NForms, NGroups, NRuns} \subseteq Nat

VARIABLES
    srv,   \* the requests of the server: whose text each holds, which intake made it
    app,   \* the views, the form and the dialogs
    runs   \* the handlers in flight

vars == <<srv, app, runs>>

Requests == 1 .. NRequests
Forms == 1 .. NForms
Groups == 1 .. NGroups
Runs == 1 .. NRuns

(***************************************************************************)
(* The fields of the form that depend on each other; 0 and "none" are what *)
(* was typed, or left blank.                                               *)
(*   client   the contact and the birth date of a client on file, and the  *)
(*            link to it; the birth date has no field on the screen         *)
(*   place    a destination and the details of a destination               *)
(*   lead     a source of the lead and what was filled in for one: who     *)
(*            referred, which campaign; the mode of intake works the same  *)
(*   group    a group block, its bookings, and whose line and dates it has *)
(* No edit touches two of these parts, so a behaviour edits one of them.   *)
(***************************************************************************)
Parts == {"client", "place", "lead", "group"}
Regions == {"caribbean", "alaska"}
Places == Regions \cup {"other"}
Asking == {"referral", "campaign"}
Clients == {1, 2}

Blank ==
    [link |-> 0, contact |-> 0, born |-> 0, place |-> "none", details |-> "none", source |-> "none",
     extra |-> "none", group |-> 0, bookings |-> 0, trip |-> 0]

Content ==
    [link : Clients \cup {0}, contact : Clients \cup {0}, born : Clients \cup {0}, place : Places \cup {"none"},
     details : Regions \cup {"none"}, source : Asking \cup {"none"},
     extra : Asking \cup {"none"}, group : 0 .. NGroups, bookings : 0 .. NGroups,
     trip : 0 .. NGroups]

Whole(f) ==
    /\ f.link # 0 => f.contact = f.link /\ f.born = f.link
    /\ f.details \in {"none", f.place}
    /\ f.extra \in {"none", f.source}
    /\ f.bookings = f.group /\ (f.group # 0 => f.trip = f.group)

\* What a request has on file: one place, one source; the agent edits it to the others.
\* The form of the workspace has no link and no group in it: its dates are like typed ones.
OnFile(part) ==
    CASE part = "place" -> [Blank EXCEPT !.place = "alaska", !.details = "alaska"]
      [] part = "lead"  -> [Blank EXCEPT !.source = "referral", !.extra = "referral"]
      [] OTHER          -> Blank

Views == {"login", "dashboard", "new", "edit"}
Dialogs == {"prompt", "picker", "inventory"}
Idle == [kind |-> "idle"]
Kinds == {"load", "save", "close", "upload", "create", "note", "board", "options", "confirm"}

TypeOK ==
    /\ srv \in [Requests -> [from : 0 .. NRequests, by : 0 .. NForms]]
    /\ app.view \in Views /\ app.part \in Parts /\ app.form \in Content
    /\ {app.request, app.from} \subseteq 0 .. NRequests
    /\ {app.id, app.last} \subseteq 0 .. NForms /\ app.told \subseteq Forms
    /\ {app.draft, app.picked, app.options} \subseteq 0 .. NGroups /\ app.dialogs \subseteq Dialogs
    /\ {app.note, app.submitting, app.hasty, app.loading, app.shown, app.saving,
        app.closing, app.uploading} \subseteq BOOLEAN
    /\ \A r \in Runs : runs[r] # Idle =>
          /\ runs[r].kind \in Kinds /\ runs[r].own \in BOOLEAN /\ runs[r].note \in BOOLEAN
          /\ runs[r].request \in 0 .. NRequests /\ runs[r].group \in 0 .. NGroups
          /\ runs[r].payload \in Content

-----------------------------------------------------------------------------
(* Edits of the form *)

\* What is typed in a contact field leaves the client that was linked, but for the birth date.
patchForm(f, contact) == [f EXCEPT !.contact = contact, !.link = 0]
contactFields(f) == {patchForm(f, 0)}
linkExistingClient(f) == {[f EXCEPT !.contact = k, !.link = k, !.born = k] : k \in Clients}
\* The contact of the client that was linked stays.
clearLinkedClient(f) == {[f EXCEPT !.link = 0, !.born = 0]}

updateDestination(f) == {[f EXCEPT !.place = d, !.details = "none"] : d \in Places}
toggleDestinationDetail(f) ==
    {[f EXCEPT !.details = d] : d \in {"none"} \cup ({f.place} \cap Regions)}

\* Variant: what belonged to another source is emptied, not left out.
KeptEmpty(extra, source) == IF extra = source THEN extra ELSE ""
Kept(extra, source) == IF extra = source THEN extra ELSE "none"
updateLeadSource(f) == {[f EXCEPT !.source = s, !.extra = Kept(@, s)] : s \in Asking \cup {"none"}}
LeadFields(f) == {[f EXCEPT !.extra = e] : e \in {"none"} \cup ({f.source} \cap Asking)}

\* The line and the dates of a group are locked.
Locked == app.draft # 0
LineFields(f) == IF Locked THEN {} ELSE {[f EXCEPT !.trip = 0]}

DateFields(f) == IF Locked THEN {} ELSE {[f EXCEPT !.trip = 0]}

Edited(f) ==
    CASE app.part = "client" -> contactFields(f) \cup linkExistingClient(f) \cup clearLinkedClient(f)
      [] app.part = "place"  -> updateDestination(f) \cup toggleDestinationDetail(f)
      [] app.part = "lead"   -> updateLeadSource(f) \cup LeadFields(f)
      [] OTHER               -> LineFields(f) \cup DateFields(f)

\* Details are sent for the regions only.
WithDetails(f) == [f EXCEPT !.details = IF f.place \in Regions THEN @ ELSE "none"]

\* The new request is sent without what belongs to another source.
CreatePayload(f) == [WithDetails(f) EXCEPT !.extra = Kept(@, f.source)]
buildPayload(f) == WithDetails(f)

-----------------------------------------------------------------------------
(* Handlers and views *)

Workspace == {"load", "save", "close", "upload"}

Free == {r \in Runs : runs[r] = Idle}

Handler(kind) ==
    [kind |-> kind, request |-> IF kind \in Workspace THEN app.request ELSE 0,
     from |-> IF kind \in {"save", "close"} THEN app.from ELSE 0,
     id |-> IF kind = "create" THEN app.id ELSE 0,
     own |-> TRUE, note |-> FALSE, group |-> 0, payload |-> Blank]

Begun(rs, run) == \E r \in Free : (\A q \in Free : r <= q) /\ runs' = [rs EXCEPT ![r] = run]
Begin(run) == Begun(runs, run)

Unheard(kinds) ==
    [r \in Runs |-> IF runs[r].kind \in kinds THEN [runs[r] EXCEPT !.own = FALSE] ELSE runs[r]]

Without(rs, r) == [rs EXCEPT ![r] = Idle]

\* The workspace forgets what it was when it is left.  An intake is not forgotten, but
\* not seen again either, except for its group: each way to one begins anew.
Left(a) ==
    [a EXCEPT !.form = Blank, !.from = 0, !.id = 0, !.note = FALSE, !.request = 0, !.shown = FALSE,
              !.loading = FALSE, !.saving = FALSE, !.closing = FALSE, !.uploading = FALSE]

\* A view that is set while nobody is logged in is never seen.
Turned(a, view) ==
    IF a.view = "login" THEN a
    ELSE [(IF a.view = view THEN a ELSE Left(a)) EXCEPT !.view = view]

\* Turned to another request while it is in view, the workspace only loads that one.
Mounted(a, r) ==
    IF a.view = "login" THEN a
    ELSE [Turned(a, "edit") EXCEPT !.request = r, !.loading = TRUE]

\* Leaving a view takes the workspace, and who would have heard its answers.
Leaves(a) == app' = a /\ runs' = Unheard(Workspace)

\* Each way to the intake starts the form again.
Started(a, f, g) ==
    LET b == Turned([a EXCEPT !.last = @ + 1, !.draft = g], "new")
    IN  IF b.view = "login" THEN b ELSE [b EXCEPT !.form = f, !.id = b.last, !.note = FALSE]

OnPage == app.dialogs = {}

\* Variant: an intake that was left keeps its group.
beginStandardDrafted ==
    /\ app.last < NForms
    /\ Leaves([Started(app, Blank, app.draft) EXCEPT !.dialogs = {}])
    /\ UNCHANGED srv

beginStandardNewRequest ==
    /\ app.last < NForms
    /\ Leaves([Started(app, Blank, 0) EXCEPT !.dialogs = {}])
    /\ UNCHANGED srv

-----------------------------------------------------------------------------
(* The login and the navigation *)

Login ==
    /\ app.view = "login" /\ app' = [app EXCEPT !.view = "dashboard"]
    /\ UNCHANGED <<srv, runs>>

\* The answers to these set the view.  A patient agent stays until they are there.
Turning == {"confirm", "create", "note", "board", "close"}
May == app.hasty \/ \A r \in Runs : runs[r].kind \notin Turning

handleLogout ==
    /\ OnPage /\ May /\ app.view # "login" /\ Leaves([Left(app) EXCEPT !.view = "login"])
    /\ UNCHANGED srv

Back ==
    /\ OnPage /\ May /\ app.view \in {"new", "edit"}
    /\ Leaves(Turned(app, "dashboard"))
    /\ UNCHANGED srv

OpenRequest(r) ==
    /\ OnPage /\ May /\ app.view = "dashboard" /\ srv[r].from # 0
    /\ app' = Mounted(app, r) /\ Begin([Handler("load") EXCEPT !.request = r])
    /\ UNCHANGED srv

\* Some agents are asked whether it is for a group.  The dialogs, and haste, are
\* studied with the part of the form that is about groups.
NewRequest ==
    /\ OnPage /\ May /\ app.view = "dashboard"
    /\ \/ beginStandardNewRequest
       \/ /\ app.part = "group" /\ app' = [app EXCEPT !.dialogs = {"prompt"}]
          /\ UNCHANGED <<srv, runs>>

Prompt ==
    /\ "prompt" \in app.dialogs
    /\ \/ app' = [app EXCEPT !.dialogs = @ \ {"prompt"}] /\ UNCHANGED <<srv, runs>>
       \/ beginStandardNewRequest
       \/ app' = [app EXCEPT !.dialogs = (@ \ {"prompt"}) \cup {"picker"}]
          /\ UNCHANGED <<srv, runs>>

\* The inventory of the picked group is fetched; closing it drops the answer.
PickGroup(g) ==
    /\ "picker" \in app.dialogs
    /\ app' = [app EXCEPT !.dialogs = (@ \ {"picker"}) \cup {"inventory"}, !.picked = g,
                          !.options = 0]
    /\ Begun(Unheard({"options"}), [Handler("options") EXCEPT !.group = g])
    /\ UNCHANGED srv

LeavePicker ==
    /\ May
    /\ \/ /\ "picker" \in app.dialogs /\ UNCHANGED runs
          /\ app' = [app EXCEPT !.dialogs = (@ \ {"picker"}) \cup {"prompt"}]
       \/ /\ "inventory" \in app.dialogs /\ runs' = Unheard({"options"})
          /\ app' = [app EXCEPT !.dialogs = (@ \ {"inventory"}) \cup {"picker"}, !.options = 0]
    /\ UNCHANGED srv

\* Variant: the options that arrive are shown.
HeardAlways(run) == TRUE
Heard(run) == run.own

OptionsLoaded(r) ==
    /\ runs[r].kind = "options"
    /\ app' \in {app, IF Heard(runs[r]) /\ app.picked # 0
                        THEN [app EXCEPT !.options = runs[r].group] ELSE app}
    /\ runs' = Without(runs, r)
    /\ UNCHANGED srv

\* The handler keeps the group that was picked and the bookings that were made.
handleGroupInventoryConfirm ==
    /\ "inventory" \in app.dialogs /\ app.picked # 0 /\ app.options # 0
    /\ Begin([Handler("confirm") EXCEPT
                !.payload = [Blank EXCEPT !.group = app.picked, !.bookings = app.options]])
    /\ UNCHANGED <<srv, app>>

\* The group is loaded, and its intake begins, wherever the agent is by now.
applyGroupIntakeToForm(r) ==
    /\ runs[r].kind = "confirm"
    /\ \/ /\ app.last < NForms
          /\ LET f == runs[r].payload
                 a == Started(app, [f EXCEPT !.trip = f.group], f.group)
             IN  app' = [a EXCEPT !.dialogs = @ \ {"inventory"}, !.picked = 0, !.options = 0]
          /\ runs' = Without(Unheard(Workspace \cup {"options"}), r)
       \/ UNCHANGED app /\ runs' = Without(runs, r)
    /\ UNCHANGED srv

-----------------------------------------------------------------------------
(* The intake *)

EditForm ==
    /\ OnPage
    /\ \/ app.view = "new"
       \/ app.view = "edit" /\ ~ app.loading /\ app.shown
    /\ \E f \in Edited(app.form) : f # app.form /\ app' = [app EXCEPT !.form = f]
    /\ UNCHANGED <<srv, runs>>

EditNote ==
    /\ OnPage /\ app.view = "new" /\ app' = [app EXCEPT !.note = ~ @]
    /\ UNCHANGED <<srv, runs>>

Absent == {r \in Requests : srv[r].from = 0}

handleCreateRequest ==
    /\ OnPage /\ app.view = "new" /\ ~ app.submitting /\ Absent # {}
    /\ Begin([Handler("create") EXCEPT !.request = 0, !.note = app.note,
                                       !.payload = CreatePayload(app.form)])
    /\ app' = [app EXCEPT !.submitting = TRUE]
    /\ UNCHANGED srv

Made(r, run) == [srv EXCEPT ![r] = [from |-> r, by |-> run.id]]

\* The form of an intake that is over.
Reset(a) ==
    [(IF a.view = "new" THEN Left(a) ELSE a) EXCEPT !.draft = 0]

createRequest(r) ==
    /\ runs[r].kind = "create"
    /\ \/ \E new \in Absent :
             LET run == [runs[r] EXCEPT !.request = new, !.payload = Blank]
             IN  /\ srv' = Made(new, run)
                 /\ IF run.note
                      THEN runs' = [runs EXCEPT ![r] = [run EXCEPT !.kind = "note"]] /\ UNCHANGED app
                      ELSE runs' = [runs EXCEPT ![r] = [run EXCEPT !.kind = "board"]] /\ app' = Reset(app)
       \/ /\ srv' \in {srv} \cup {Made(new, runs[r]) : new \in Absent}
          /\ runs' = Without(runs, r)
          /\ app' = [app EXCEPT !.submitting = FALSE, !.told = @ \cup ({runs[r].id} \ {0})]

\* Variant: the form is kept, for the note to be tried again.
addNoteAgain(r) ==
    /\ runs[r].kind = "note"
    /\ \/ app' = Reset(app) /\ runs' = [runs EXCEPT ![r].kind = "board"]
       \/ app' = [app EXCEPT !.submitting = FALSE] /\ runs' = Without(runs, r)
    /\ UNCHANGED srv

\* With or without its note, the request is there.
addNote(r) ==
    /\ runs[r].kind = "note"
    /\ app' = Reset(app) /\ runs' = [runs EXCEPT ![r].kind = "board"]
    /\ UNCHANGED srv

\* The dashboard was reloaded, or not: the new request is opened.
OpenCreated(r) ==
    /\ runs[r].kind = "board"
    /\ app' = [Mounted(app, runs[r].request) EXCEPT !.submitting = FALSE]
    /\ runs' = [runs EXCEPT ![r] = IF app.view = "login" THEN Idle
                                   ELSE [Handler("load") EXCEPT !.request = runs[r].request]]
    /\ UNCHANGED srv

-----------------------------------------------------------------------------
(* The workspace *)

Editable == OnPage /\ app.view = "edit" /\ ~ app.loading /\ app.shown

\* A record that is shown brings its form with it.
Shows(a, from) == [a EXCEPT !.shown = TRUE, !.form = OnFile(a.part), !.from = from]

loadRequest(r) ==
    /\ runs[r].kind = "load"
    /\ LET run == runs[r]
           quiet == run.note
       IN  app' \in IF ~ Heard(run) THEN {app}
                    ELSE {[a EXCEPT !.loading = @ /\ quiet] :
                             a \in {app, Shows(app, srv[run.request].from)}}
    /\ runs' = Without(runs, r)
    /\ UNCHANGED srv

\* Silent, after a change in one of the sections.
refreshRequest ==
    /\ OnPage /\ app.view = "edit" /\ app.shown /\ ~ app.loading
    /\ \A r \in Runs : runs[r].kind # "load"
    /\ Begin([Handler("load") EXCEPT !.note = TRUE])
    /\ UNCHANGED <<srv, app>>

handleSave ==
    /\ Editable /\ ~ app.saving
    /\ Begin([Handler("save") EXCEPT !.payload = buildPayload(app.form)])
    /\ app' = [app EXCEPT !.saving = TRUE]
    /\ UNCHANGED srv

\* A reason is picked, and then confirmed, unless a close is running.
Confirmable == Editable /\ ~ app.closing

\* Closing stores the whole form.
handleCloseRequest ==
    /\ Confirmable
    /\ Begin([Handler("close") EXCEPT !.payload = buildPayload(app.form)])
    /\ app' = [app EXCEPT !.closing = TRUE]
    /\ UNCHANGED srv

handleUploadCommunication ==
    /\ Editable /\ ~ app.uploading
    /\ Begin(Handler("upload")) /\ app' = [app EXCEPT !.uploading = TRUE]
    /\ UNCHANGED srv

\* Ghost: whose text a request holds is followed for a patient agent only.
Stored(run) == IF app.hasty THEN srv ELSE [srv EXCEPT ![run.request].from = run.from]

\* Answered, refused, or lost.
Saved(r) ==
    /\ runs[r].kind = "save"
    /\ LET run == runs[r]
       IN  \/ /\ srv' = Stored(run)
              /\ app' = IF Heard(run)
                           THEN [Shows(app, srv'[run.request].from) EXCEPT !.saving = FALSE]
                           ELSE app
           \/ /\ srv' \in {srv, Stored(run)}
              /\ app' = IF Heard(run) THEN [app EXCEPT !.saving = FALSE] ELSE app
    /\ runs' = Without(runs, r)

\* A request that was closed is left for the dashboard, also when it was left before.
Closed(r) ==
    /\ runs[r].kind = "close"
    /\ \/ /\ srv' = Stored(runs[r])
          /\ app' = Turned(app, "dashboard")
          /\ runs' = Without(Unheard(Workspace), r)
       \/ /\ srv' \in {srv, Stored(runs[r])}
          /\ app' = IF Heard(runs[r]) THEN [app EXCEPT !.closing = FALSE] ELSE app
          /\ runs' = Without(runs, r)

\* The file is stored and the request reloaded, once more with a summary.
Uploaded(r) ==
    /\ runs[r].kind = "upload"
    /\ \/ \E again \in BOOLEAN :
            /\ app' \in IF Heard(runs[r])
                          THEN {[a EXCEPT !.uploading = again] : a \in
                                   {app, Shows(app, srv[runs[r].request].from)}}
                          ELSE {app}
            /\ runs' = IF again THEN runs ELSE Without(runs, r)
       \/ /\ app' = IF Heard(runs[r]) THEN [app EXCEPT !.uploading = FALSE] ELSE app
          /\ runs' = Without(runs, r)
    /\ UNCHANGED srv

-----------------------------------------------------------------------------
Init ==
    /\ srv = [r \in Requests |-> [from |-> IF r = 1 THEN 1 ELSE 0, by |-> 0]]
    /\ \E p \in Parts : \E h \in {FALSE, p = "group"} :
        app = [view |-> "login", part |-> p, hasty |-> h, form |-> Blank, from |-> 0, id |-> 0,
               last |-> 0, request |-> 0, shown |-> FALSE, draft |-> 0, picked |-> 0, options |-> 0,
               dialogs |-> {}, told |-> {}, note |-> FALSE, submitting |-> FALSE,
               loading |-> FALSE, saving |-> FALSE, closing |-> FALSE,
               uploading |-> FALSE]
    /\ runs = [r \in Runs |-> Idle]

Agent ==
    \/ Login \/ handleLogout \/ Back \/ NewRequest \/ Prompt \/ LeavePicker
    \/ \E r \in Requests : OpenRequest(r)
    \/ \E g \in Groups : PickGroup(g)
    \/ handleGroupInventoryConfirm \/ EditForm \/ EditNote \/ handleCreateRequest
    \/ refreshRequest \/ handleSave \/ handleCloseRequest \/ handleUploadCommunication

Answer(r) ==
    \/ OptionsLoaded(r) \/ applyGroupIntakeToForm(r) \/ createRequest(r) \/ addNote(r)
    \/ OpenCreated(r) \/ loadRequest(r) \/ Saved(r) \/ Closed(r) \/ Uploaded(r)

Next == Agent \/ \E r \in Runs : Answer(r)

Spec == Init /\ [][Next]_vars

-----------------------------------------------------------------------------
(* Properties *)

\* Whatever was edited, picked, left and begun again before, a form that is sent is
\* whole: a client it links is the one whose contact and birth date it has; it has details
\* and attribution of what it names, and the bookings, the line and the dates of one group;
\* and what is locked on screen is what is linked in the form.  Of a form that links no
\* client it does not say whose birth date it has: BirthDateIsTheContacts does not hold.
PayloadIsWhole ==
    /\ \A r \in Runs : runs[r].kind \in {"create", "save", "close"} => Whole(runs[r].payload)
    /\ app.view = "new" => app.draft = app.form.group

\* A birth date is sent with the contact it belongs to, or not at all.  No run checks this, the
\* code does not keep it: a contact typed over that of a linked client is sent, and stored as
\* a new passenger, with that client's birth date.
BirthDateIsTheContacts ==
    \A r \in Runs : runs[r].kind = "create" => runs[r].payload.born \in {0, runs[r].payload.contact}

\* An intake makes one request, unless the agent was told that making it failed:
\* not two because its note failed, because it was left and come back to, or because
\* another intake was begun before it was stored.
MadeOnce ==
    \A q, r \in Requests : q # r /\ srv[q].by # 0 /\ srv[q].by = srv[r].by => srv[q].by \in app.told

\* The text of one request is never stored as another's, whatever loads, saves and
\* uploads were left behind; as long as the agent waits for the answers that set the view.
NoCrossWrite ==
    ~ app.hasty => \A r \in Requests : srv[r].from \in {0, r}
=============================================================================
