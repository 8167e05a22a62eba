--------------------------- MODULE AgentPagesProofs ----------------------------
(***************************************************************************)
(* What MC_AgentPages checks of the pages of records, of the lists and of  *)
(* the workflow templates, proved for any number of records, queries,      *)
(* pages, calls, templates and tasks.  The lemmas about the templates are  *)
(* those of TemplateProofs.                                                *)
(***************************************************************************)
EXTENDS TemplateProofs

-----------------------------------------------------------------------------
(* The habits of the pages *)

LEMMA PageNames ==
    Pages = {"notes", "content", "attachments", "passengers", "insurance", "cruises",
             "campaigns", "groups", "ledger", "templates", "tasks", "team", "clients"}
  BY DEF Pages, PageOf

\* What the proofs use of a page: how its records are fetched, and what goes with it.
LEMMA PageFacts ==
    ASSUME NEW p \in Pages
    PROVE  /\ PageOf[p].fetch \in {"none", "inside", "before"}
           /\ PageOf[p].drops => PageOf[p].fetch = "inside" /\ ~ PageOf[p].evicts
           /\ PageOf[p].evicts => PageOf[p].fetch # "before"
           /\ p \in Sheltered =>
                ~ PageOf[p].evicts /\ (PageOf[p].fetch = "none" \/ PageOf[p].drops)
           /\ p = "attachments" => PageOf[p].drops
           /\ PageOf[p].removed \in States
           /\ PageOf[p].after # "reloads"
           /\ PageOf[p].after = "stays" => PageOf[p].drops /\ p = "clients"
  <1>1. CASE p = "notes"
    BY <1>1 DEF PageOf, NotesPage, PlainPage, Sheltered, States
  <1>2. CASE p = "content"
    BY <1>2 DEF PageOf, ContentPage, PlainPage, Sheltered, States
  <1>3. CASE p = "attachments"
    BY <1>3 DEF PageOf, AttachmentReader, PlainPage, Sheltered, States
  <1>4. CASE p = "passengers"
    BY <1>4 DEF PageOf, PassengersPage, PlainPage, Sheltered, States
  <1>5. CASE p = "insurance"
    BY <1>5 DEF PageOf, InsurancePage, PlainPage, Sheltered, States
  <1>6. CASE p = "cruises"
    BY <1>6 DEF PageOf, CruisesPage, PlainPage, Sheltered, States
  <1>7. CASE p = "campaigns"
    BY <1>7 DEF PageOf, CampaignsPage, PlainPage, Sheltered, States
  <1>8. CASE p = "groups"
    BY <1>8 DEF PageOf, GroupsPage, CampaignsPage, PlainPage, Sheltered, States
  <1>9. CASE p = "ledger"
    BY <1>9 DEF PageOf, LedgerPage, PlainPage, Sheltered, States
  <1>10. CASE p = "templates"
    BY <1>10 DEF PageOf, TemplatesPage, CampaignsPage, PlainPage, Sheltered, States
  <1>11. CASE p = "tasks"
    BY <1>11 DEF PageOf, TasksPage, TemplatesPage, CampaignsPage, PlainPage, Sheltered, States
  <1>12. CASE p = "team"
    BY <1>12 DEF PageOf, TeamPage, PlainPage, Sheltered, States
  <1>13. CASE p = "clients"
    BY <1>13 DEF PageOf, ClientRecord, ClientsPage, PlainPage, Sheltered, States
  <1> QED BY <1>1, <1>2, <1>3, <1>4, <1>5, <1>6, <1>7, <1>8, <1>9, <1>10, <1>11, <1>12,
             <1>13, PageNames

\* A page whose dialogs keep the flag of a save themselves.
Owner(p) == Dialog(p, "edit").owns

\* The dialogs: whoever keeps the flag of a save itself shows a record that was at hand or
\* loaded before, and removes nothing under it.
LEMMA DialogFacts ==
    ASSUME NEW p \in Pages, NEW m
    PROVE  /\ Dialog(p, m).owns <=> Owner(p)
           /\ Dialog(p, m).owns => ~ PageOf[p].evicts /\ PageOf[p].fetch # "inside"
           /\ PageOf[p].after = "closes" => ~ Dialog(p, m).owns
           /\ p \in Sheltered => /\ ~ Dialog(p, m).owns /\ Dialog(p, m).frozen
                                 /\ ~ Dialog(p, m).inline
           /\ PageOf[p].fetch # "none" => ~ Dialog(p, m).inline
           /\ PageOf[p].fetch = "inside" => Dialog(p, m).frozen
           /\ Dialog(p, m).inline /\ m # "edit" => p = "team"
           /\ Dialog(p, m).after \in {"page", "detaches", "reloads"}
           /\ PageOf[p].fetch # "none" => Dialog(p, m).after # "reloads"
           /\ Dialog(p, m).after = "reloads" => Dialog(p, m).owns
           /\ p = "clients" => ~ Dialog(p, m).owns
  <1> USE DEF Dialog, Modal, Sheltered, Owner
  <1>1. CASE p = "notes"
    BY <1>1 DEF PageOf, NotesPage, PlainPage, NoteModal
  <1>2. CASE p = "content"
    BY <1>2 DEF PageOf, ContentPage, PlainPage, CommunicationModal
  <1>3. CASE p = "attachments"
    BY <1>3 DEF PageOf, AttachmentReader, PlainPage
  <1>4. CASE p = "passengers"
    BY <1>4 DEF PageOf, PassengersPage, PlainPage, PassengerEditor, PassengerPickerModal
  <1>5. CASE p = "insurance"
    BY <1>5 DEF PageOf, InsurancePage, PlainPage, QuotedInsuranceModal
  <1>6. CASE p = "cruises"
    BY <1>6 DEF PageOf, CruisesPage, PlainPage, ProposedCruiseModal
  <1>7. CASE p = "campaigns"
    BY <1>7 DEF PageOf, CampaignsPage, PlainPage, MarketingCampaignModal, OwnFlag
  <1>8. CASE p = "groups"
    BY <1>8 DEF PageOf, GroupsPage, CampaignsPage, PlainPage, GroupShellModal, OwnFlag
  <1>9. CASE p = "ledger"
    BY <1>9 DEF PageOf, LedgerPage, PlainPage, GroupInventoryEditModal, OwnFlag
  <1>10. CASE p = "templates"
    BY <1>10 DEF PageOf, TemplatesPage, CampaignsPage, PlainPage, OwnFlag,
                 WorkflowTemplateEditModal, CreateWorkflowModal
  <1>11. CASE p = "tasks"
    BY <1>11 DEF PageOf, TasksPage, TemplatesPage, CampaignsPage, PlainPage, OwnFlag,
                 TaskInventoryEditModal, AddTaskToWorkflowModal, CustomTaskBuilderModal
  <1>12. CASE p = "team"
    BY <1>12 DEF PageOf, TeamPage, PlainPage, TeamMemberEditor
  <1>13. CASE p = "clients"
    BY <1>13 DEF PageOf, ClientRecord, ClientsPage, PlainPage, ClientModal
  <1> QED BY <1>1, <1>2, <1>3, <1>4, <1>5, <1>6, <1>7, <1>8, <1>9, <1>10, <1>11, <1>12,
             <1>13, PageNames

LEMMA AfterFacts ==
    ASSUME NEW p \in Pages, NEW m
    PROVE  /\ After(p, m) = "reloads" =>
                PageOf[p].fetch = "none" /\ ~ PageOf[p].evicts /\ p \notin Sheltered /\ Owner(p)
           /\ After(p, m) = "closes" => ~ Owner(p)
           /\ After(p, m) = "stays" => PageOf[p].drops /\ p = "clients" /\ ~ Owner(p)
  BY PageFacts, DialogFacts DEF After

-----------------------------------------------------------------------------
(* The invariant of the pages of records *)

UiSet ==
    [page : Pages, hasty : BOOLEAN, list : [Items -> States], dialog : Modes \cup {"none"},
     asked : 0 .. NItems, on : 0 .. NItems, of : 0 .. NItems, typed : BOOLEAN,
     saving : BOOLEAN, loading : BOOLEAN, pending : 0 .. NItems, removing : 0 .. NItems]

Lines == {Idle} \cup RunSet

\* The text in the form is that of the record it is saved to, and a dialog that needs no
\* fetch, or drops a late one, shows the record that was asked for.
DialogFine(u) ==
    /\ u \in UiSet /\ u.of = u.on
    /\ u.dialog \in {"none", "view"} => ~ u.typed
    /\ u.dialog # "none" /\ u.on # 0 /\ (PageOf[u.page].fetch = "none" \/ u.page = "attachments")
         => u.on = u.asked

\* A call in flight was begun by a page that makes such calls, a save stores the text of its
\* own record, and what an open dialog began is forgotten when the dialog is gone.
CallFine(u, run) ==
    run # Idle =>
      /\ run.kind = "fetch" => PageOf[u.page].fetch # "none"
      /\ run.kind = "save" /\ ~ run.sent => run.of = run.item
      /\ run.evict => PageOf[u.page].evicts /\ run.kind = "remove" /\ ~ run.sent
      /\ u.page = "cruises" /\ run.kind \in {"remove", "restore"} /\ ~ run.sent =>
            run.list \in [Items -> States]
      /\ run.own /\ PageOf[u.page].fetch # "before" => u.dialog # "none"

OwnFetch(run) == run.kind = "fetch" /\ run.own

\* Where late answers are dropped, one fetch is heard: that of the dialog that is open, which
\* is disabled until it comes.
FetchesKnown ==
    Habits.drops =>
      /\ \A r \in Runs : OwnFetch(runs[r]) => ui.loading /\ ~ ui.typed /\ runs[r].item = ui.asked
      /\ \A q, r \in Runs : OwnFetch(runs[q]) /\ OwnFetch(runs[r]) => q = r

\* The flag tells of the save in flight, wherever the page keeps it and whenever the agent
\* waits.
OneSave ==
    ~ ui.hasty \/ ~ Owner(ui.page) =>
      /\ \A r \in Runs : runs[r].kind = "save" => ui.saving
      /\ \A q, r \in Runs : runs[q].kind = "save" /\ runs[r].kind = "save" => q = r

\* Nothing is typed while a save of a dialog that was left is in flight.
LateSave ==
    ui.page \in Sheltered =>
       \A r \in Runs : runs[r].kind = "save" /\ ~ runs[r].own => ~ ui.typed

\* The save of a dialog that will close that dialog when it is answered.
Closing(p, run) == run.kind = "save" /\ (~ run.sent \/ After(p, run.mode) = "reloads")

PatientFetch ==
    \A r \in Runs : runs[r].kind = "fetch" =>
        /\ ~ ui.typed
        /\ IF Habits.fetch = "before" THEN ui.dialog = "none" ELSE ui.loading
        /\ \A q \in Runs :
              runs[q].kind = "fetch" \/ (runs[q].kind = "save" /\ ~ runs[q].sent) => q = r

PatientSave ==
    \A r \in Runs : Closing(ui.page, runs[r]) => runs[r].own /\ ui.dialog # "none"

PatientRemoval ==
    /\ \A r \in Runs :
          runs[r].kind = "remove" /\ ~ runs[r].sent =>
             ui.pending # 0 /\ (runs[r].evict => runs[r].item = ui.on \/ ~ ui.typed)
    /\ ui.pending # 0 =>
        /\ \A r \in Runs : ~ Closing(ui.page, runs[r])
        /\ \A r \in Runs : runs[r].kind \in {"remove", "restore"} =>
              /\ runs[r].kind = "remove" /\ ~ runs[r].sent /\ ui.removing = ui.pending
              /\ \A q \in Runs : runs[q].kind \in {"remove", "restore"} => q = r

\* What an agent who waits for the answers keeps besides: a fetch, the save of an open dialog
\* and a removal that is confirmed are never in flight together.
Patience == ~ ui.hasty => PatientFetch /\ PatientSave /\ PatientRemoval

RecordsInv ==
    /\ srv \in [rec : [Items -> States], from : [Items -> 0 .. NItems]]
    /\ props \in [Items -> States]
    /\ NoCrossWrite
    /\ DialogFine(ui)
    /\ runs \in [Runs -> Lines]
    /\ \A r \in Runs : CallFine(ui, runs[r])
    /\ FetchesKnown /\ OneSave /\ LateSave
    /\ Patience

-----------------------------------------------------------------------------
(* The calls in flight, across a step *)

\* Call d is call c, one step later: the dialog that began it may have been left.
Lasts(d, c) ==
    /\ d \in Lines
    /\ d = Idle <=> c = Idle
    /\ d.kind = c.kind
    /\ c # Idle => /\ d.item = c.item /\ d.of = c.of /\ d.mode = c.mode /\ d.sent = c.sent
                   /\ d.evict = c.evict /\ d.list = c.list
                   /\ d.own => c.own

LEMMA ItLasts == ASSUME NEW c \in Lines PROVE Lasts(c, c)
  BY DEF Lasts

LEMMA Disowning ==
    ASSUME NEW rs \in [Runs -> Lines]
    PROVE  /\ Disowned(rs) \in [Runs -> Lines]
           /\ \A q \in Runs : /\ Lasts(Disowned(rs)[q], rs[q])
                              /\ Disowned(rs)[q] # Idle => ~ Disowned(rs)[q].own
  <1>1. SUFFICES ASSUME NEW q \in Runs
                 PROVE  /\ Disowned(rs)[q] \in Lines
                        /\ Lasts(Disowned(rs)[q], rs[q])
                        /\ Disowned(rs)[q] # Idle => ~ Disowned(rs)[q].own
    BY DEF Disowned
  <1>2. Disowned(rs)[q] = IF rs[q] = Idle THEN Idle ELSE [rs[q] EXCEPT !.own = FALSE]
    BY DEF Disowned
  <1>3. CASE rs[q] = Idle
    BY <1>2, <1>3 DEF Lasts, Lines
  <1>4. CASE rs[q] # Idle
    <2>1. rs[q] \in RunSet
      BY <1>4 DEF Lines
    <2>2. [rs[q] EXCEPT !.own = FALSE] \in RunSet
      BY <2>1 DEF RunSet
    <2>3. [rs[q] EXCEPT !.own = FALSE] # Idle
      BY <2>1, <2>2 DEF RunSet, Idle, Awaited
    <2> QED BY <1>2, <1>4, <2>1, <2>2, <2>3 DEF Lasts, Lines, RunSet
  <1> QED BY <1>3, <1>4

\* The calls after a call became run: another one, or idle.
BecomesIs(r, run) ==
    /\ runs' \in [Runs -> Lines]
    /\ \A q \in Runs \ {r} : Lasts(runs'[q], runs[q])
    /\ Lasts(runs'[r], run)
    /\ ui'.dialog # "none" => runs'[r] = run /\ \A q \in Runs \ {r} : runs'[q] = runs[q]
    /\ ui'.dialog = "none" => \A q \in Runs : runs'[q] # Idle => ~ runs'[q].own

LEMMA Becoming ==
    ASSUME runs \in [Runs -> Lines], NEW r \in Runs, NEW run \in Lines, Becomes(r, run)
    PROVE  BecomesIs(r, run)
  <1> DEFINE rs == [runs EXCEPT ![r] = run]
  <1>1. rs \in [Runs -> Lines]
    OBVIOUS
  <1>2. rs[r] = run /\ \A q \in Runs \ {r} : rs[q] = runs[q]
    OBVIOUS
  <1>3. runs' = IF ui'.dialog = "none" THEN Disowned(rs) ELSE rs
    BY DEF Becomes
  <1> HIDE DEF rs
  <1> QED BY <1>1, <1>2, <1>3, Disowning, ItLasts DEF BecomesIs

\* The calls after one was begun.
BeginIs(r, run) ==
    /\ runs' \in [Runs -> Lines]
    /\ runs[r] = Idle /\ runs'[r] = run
    /\ \A q \in Runs \ {r} : runs'[q] = runs[q]

LEMMA Beginning ==
    ASSUME runs \in [Runs -> Lines], NEW run \in Lines, Begin(run)
    PROVE  \E r \in Runs : BeginIs(r, run)
  BY DEF Begin, BeginIs, Free

LEMMA CallIs ==
    ASSUME ui \in UiSet, NEW k \in Awaited \cup {"reload"}, NEW i \in 0 .. NItems,
           NEW m \in Modes
    PROVE  /\ Call(k, i, m) \in RunSet /\ Call(k, i, m) \in Lines
           /\ Call(k, i, m).kind = k /\ Call(k, i, m).item = i /\ Call(k, i, m).mode = m
           /\ k = "save" => Call(k, i, m).of = ui.of
           /\ Call(k, i, m).own <=> k \in {"fetch", "save"}
           /\ ~ Call(k, i, m).sent /\ ~ Call(k, i, m).evict
  <1>1. ui.of \in 0 .. NItems /\ 0 \in 0 .. NItems
    BY NItemsAssumption DEF UiSet
  <1>2. Call(k, i, m) \in RunSet
    BY <1>1 DEF Call, RunSet
  <1> QED BY <1>2 DEF Call, Lines

LEMMA AwaitsIs ==
    ASSUME NEW run \in RunSet
    PROVE  /\ Awaits(run) \in RunSet /\ Awaits(run) \in Lines /\ (Awaits(run) # run \/ run.sent)
           /\ Awaits(run).kind = run.kind /\ Awaits(run).item = run.item
           /\ Awaits(run).mode = run.mode /\ Awaits(run).own = run.own
           /\ Awaits(run).sent /\ ~ Awaits(run).evict
  <1>1. 0 \in 0 .. NItems
    BY NItemsAssumption
  <1>2. Awaits(run) \in RunSet
    BY <1>1 DEF Awaits, RunSet
  <1> QED BY <1>2 DEF Awaits, Lines, RunSet

-----------------------------------------------------------------------------
(* The page, across a step *)

LEMMA ShutIs ==
    ASSUME ui \in UiSet
    PROVE  /\ Shut(ui) \in UiSet
           /\ Shut(ui).page = ui.page /\ Shut(ui).hasty = ui.hasty /\ Shut(ui).list = ui.list
           /\ Shut(ui).dialog = "none" /\ Shut(ui).on = 0 /\ Shut(ui).of = 0
           /\ ~ Shut(ui).typed
           /\ Shut(ui).loading <=> ui.loading /\ ~ Habits.drops
           /\ Shut(ui).saving <=> ui.saving /\ ~ Box.owns
           /\ Shut(ui).pending = ui.pending /\ Shut(ui).removing = ui.removing
  <1>1. 0 \in 0 .. NItems
    BY NItemsAssumption
  <1> QED BY <1>1 DEF Shut, UiSet

LEMMA RefilledIs ==
    ASSUME ui \in UiSet, NEW i \in 0 .. NItems
    PROVE  /\ Refilled(ui, i) \in UiSet
           /\ Refilled(ui, i).page = ui.page /\ Refilled(ui, i).hasty = ui.hasty
           /\ Refilled(ui, i).list = ui.list /\ Refilled(ui, i).dialog = ui.dialog
           /\ Refilled(ui, i).asked = ui.asked /\ Refilled(ui, i).on = i
           /\ Refilled(ui, i).of = i /\ ~ Refilled(ui, i).typed
           /\ Refilled(ui, i).saving = ui.saving /\ Refilled(ui, i).loading = ui.loading
           /\ Refilled(ui, i).pending = ui.pending /\ Refilled(ui, i).removing = ui.removing
  BY DEF Refilled, UiSet

LEMMA ReleasedIs ==
    ASSUME NEW u \in UiSet, NEW run \in RunSet
    PROVE  /\ Released(u, run) \in UiSet
           /\ Released(u, run).page = u.page /\ Released(u, run).hasty = u.hasty
           /\ Released(u, run).list = u.list /\ Released(u, run).dialog = u.dialog
           /\ Released(u, run).asked = u.asked /\ Released(u, run).on = u.on
           /\ Released(u, run).of = u.of /\ Released(u, run).typed = u.typed
           /\ Released(u, run).loading = u.loading /\ Released(u, run).pending = u.pending
           /\ run.kind # "save" => Released(u, run).saving = u.saving
           /\ Released(u, run).removing
                = IF run.kind \in {"remove", "restore"} THEN 0 ELSE u.removing
  <1>1. 0 \in 0 .. NItems
    BY NItemsAssumption
  <1>2. CASE run.kind = "save"
    BY <1>2 DEF Released, UiSet
  <1>3. CASE run.kind \in {"remove", "restore"}
    BY <1>1, <1>3 DEF Released, UiSet
  <1>4. CASE run.kind \notin {"save", "remove", "restore"}
    BY <1>4 DEF Released, UiSet
  <1> QED BY <1>2, <1>3, <1>4

-----------------------------------------------------------------------------
(* What the agent does *)

LEMMA TypeKeeps == RecordsInv /\ Type => RecordsInv'
  <1> SUFFICES ASSUME RecordsInv, Type PROVE RecordsInv'
    OBVIOUS
  <1>1. /\ ui \in UiSet /\ ui.page \in Pages /\ runs \in [Runs -> Lines]
        /\ \A r \in Runs : CallFine(ui, runs[r])
    BY DEF RecordsInv, DialogFine, UiSet
  <1>2. ui' = [ui EXCEPT !.typed = TRUE] /\ runs' = runs /\ srv' = srv /\ props' = props
    BY DEF Type
  <1>3. /\ ui' \in UiSet
        /\ ui'.page = ui.page /\ ui'.hasty = ui.hasty /\ ui'.dialog = ui.dialog
        /\ ui'.asked = ui.asked /\ ui'.on = ui.on /\ ui'.of = ui.of
        /\ ui'.saving = ui.saving /\ ui'.loading = ui.loading
        /\ ui'.pending = ui.pending /\ ui'.removing = ui.removing /\ ui'.typed
    BY <1>1, <1>2 DEF UiSet
  <1>4. DialogFine(ui')
    BY <1>1, <1>3 DEF RecordsInv, DialogFine, Type
  <1>5. \A r \in Runs : CallFine(ui', runs'[r])
    BY <1>1, <1>2, <1>3 DEF CallFine
  <1>6. FetchesKnown'
    BY <1>1, <1>2, <1>3, PageFacts, DialogFacts
       DEF RecordsInv, FetchesKnown, Habits, Box, Type, OwnFetch
  <1>7. OneSave'
    BY <1>2, <1>3 DEF RecordsInv, OneSave
  <1>8. LateSave'
    BY <1>1, <1>2, <1>3, PageFacts, DialogFacts DEF RecordsInv, LateSave, OneSave, Box, Type
  <1>9. Patience'
    <2> SUFFICES ASSUME ~ ui.hasty PROVE PatientFetch' /\ PatientSave' /\ PatientRemoval'
      BY <1>3 DEF Patience
    <2>1. PatientFetch /\ PatientSave /\ PatientRemoval
      BY DEF RecordsInv, Patience
    <2>2. \A r \in Runs : runs[r].kind # "fetch"
      BY <1>1, <2>1, PageFacts, DialogFacts
         DEF PatientFetch, Habits, Box, Type, May, Flying, Awaited
    <2>3. PatientFetch'
      BY <1>2, <2>2 DEF PatientFetch
    <2>4. PatientSave'
      BY <1>2, <1>3, <2>1 DEF PatientSave
    <2>5. PatientRemoval'
      BY <1>2, <1>3, <2>1 DEF PatientRemoval, Type
    <2> QED BY <2>3, <2>4, <2>5
  <1> QED BY <1>2, <1>3, <1>4, <1>5, <1>6, <1>7, <1>8, <1>9, <1>1 DEF RecordsInv, NoCrossWrite

LEMMA KeepItKeeps == RecordsInv /\ KeepIt => RecordsInv'
  <1> SUFFICES ASSUME RecordsInv, KeepIt PROVE RecordsInv'
    OBVIOUS
  <1>1. /\ ui \in UiSet /\ ui.page \in Pages /\ runs \in [Runs -> Lines]
        /\ \A r \in Runs : CallFine(ui, runs[r])
    BY DEF RecordsInv, DialogFine, UiSet
  <1>2. ui' = [ui EXCEPT !.pending = 0] /\ runs' = runs /\ srv' = srv /\ props' = props
    BY DEF KeepIt
  <1>3. 0 \in 0 .. NItems
    BY NItemsAssumption
  <1>4. /\ ui' \in UiSet
        /\ ui'.page = ui.page /\ ui'.hasty = ui.hasty /\ ui'.dialog = ui.dialog
        /\ ui'.asked = ui.asked /\ ui'.on = ui.on /\ ui'.of = ui.of
        /\ ui'.saving = ui.saving /\ ui'.loading = ui.loading
        /\ ui'.pending = 0 /\ ui'.removing = ui.removing /\ ui'.typed = ui.typed
    BY <1>1, <1>2, <1>3 DEF UiSet
  <1>5. DialogFine(ui')
    BY <1>4 DEF RecordsInv, DialogFine
  <1>6. \A r \in Runs : CallFine(ui', runs'[r])
    BY <1>1, <1>2, <1>4 DEF CallFine
  <1>7. FetchesKnown' /\ OneSave' /\ LateSave'
    BY <1>2, <1>4 DEF RecordsInv, FetchesKnown, OneSave, LateSave, Habits
  <1>8. Patience'
    BY <1>1, <1>2, <1>4
       DEF RecordsInv, Patience, PatientFetch, PatientSave, PatientRemoval, Habits, KeepIt
  <1> QED BY <1>1, <1>2, <1>4, <1>5, <1>6, <1>7, <1>8 DEF RecordsInv, NoCrossWrite

\* While a patient agent begins anything, at most a reload of the list is in flight.
LEMMA Waited ==
    ASSUME RecordsInv, May, ~ ui.hasty, NEW r \in Runs
    PROVE  runs[r].kind \notin Awaited
  BY DEF May, Flying

LEMMA AskKeeps == ASSUME NEW i \in Items PROVE RecordsInv /\ Ask(i) => RecordsInv'
  <1> SUFFICES ASSUME RecordsInv, Ask(i) PROVE RecordsInv'
    OBVIOUS
  <1>1. /\ ui \in UiSet /\ ui.page \in Pages /\ runs \in [Runs -> Lines]
        /\ \A r \in Runs : CallFine(ui, runs[r])
    BY DEF RecordsInv, DialogFine, UiSet
  <1>2. ui' = [ui EXCEPT !.pending = i] /\ runs' = runs /\ srv' = srv /\ props' = props
    BY DEF Ask
  <1>3. i \in 0 .. NItems
    BY NItemsAssumption DEF Items
  <1>4. /\ ui' \in UiSet
        /\ ui'.page = ui.page /\ ui'.hasty = ui.hasty /\ ui'.dialog = ui.dialog
        /\ ui'.asked = ui.asked /\ ui'.on = ui.on /\ ui'.of = ui.of
        /\ ui'.saving = ui.saving /\ ui'.loading = ui.loading /\ ui'.typed = ui.typed
    BY <1>1, <1>2, <1>3 DEF UiSet
  <1>5. DialogFine(ui')
    BY <1>4 DEF RecordsInv, DialogFine
  <1>6. \A r \in Runs : CallFine(ui', runs'[r])
    BY <1>1, <1>2, <1>4 DEF CallFine
  <1>7. FetchesKnown' /\ OneSave' /\ LateSave'
    BY <1>2, <1>4 DEF RecordsInv, FetchesKnown, OneSave, LateSave, Habits
  <1>8. Patience'
    <2> SUFFICES ASSUME ~ ui.hasty PROVE PatientFetch' /\ PatientSave' /\ PatientRemoval'
      BY <1>4 DEF Patience
    <2>1. \A r \in Runs : runs'[r].kind \notin Awaited
      BY <1>2, Waited DEF Ask
    <2> QED BY <2>1 DEF PatientFetch, PatientSave, PatientRemoval, Closing, Awaited
  <1> QED BY <1>1, <1>2, <1>4, <1>5, <1>6, <1>7, <1>8 DEF RecordsInv, NoCrossWrite

\* A new dialog: what the one before it began is not heard any more.
LEMMA AddKeeps == RecordsInv /\ Add => RecordsInv'
  <1> SUFFICES ASSUME RecordsInv, Add PROVE RecordsInv'
    OBVIOUS
  <1>1. /\ ui \in UiSet /\ ui.page \in Pages /\ runs \in [Runs -> Lines]
        /\ \A r \in Runs : CallFine(ui, runs[r])
    BY DEF RecordsInv, DialogFine, UiSet
  <1>2. /\ ui' = [Refilled(ui, 0) EXCEPT !.dialog = "create", !.loading = @ /\ ~ Habits.drops]
        /\ runs' = Disowned(runs) /\ srv' = srv /\ props' = props
    BY DEF Add
  <1>3. 0 \in 0 .. NItems
    BY NItemsAssumption
  <1>4. /\ ui' \in UiSet
        /\ ui'.page = ui.page /\ ui'.hasty = ui.hasty /\ ui'.dialog = "create"
        /\ ui'.on = 0 /\ ui'.of = 0 /\ ~ ui'.typed
        /\ ui'.saving = ui.saving /\ ui'.pending = ui.pending /\ ui'.removing = ui.removing
    <2> DEFINE v == Refilled(ui, 0)
    <2>1. /\ v \in UiSet /\ v.page = ui.page /\ v.hasty = ui.hasty /\ v.on = 0 /\ v.of = 0
          /\ ~ v.typed /\ v.saving = ui.saving /\ v.pending = ui.pending
          /\ v.removing = ui.removing
      BY <1>1, <1>3, RefilledIs
    <2>2. ui' = [v EXCEPT !.dialog = "create", !.loading = @ /\ ~ Habits.drops]
      BY <1>2
    <2> HIDE DEF v
    <2> QED BY <2>1, <2>2 DEF UiSet, Modes
  <1>5. /\ runs' \in [Runs -> Lines]
        /\ \A r \in Runs : Lasts(runs'[r], runs[r]) /\ (runs'[r] # Idle => ~ runs'[r].own)
    BY <1>1, <1>2, Disowning
  <1>6. DialogFine(ui')
    BY <1>4 DEF DialogFine
  <1>7. \A r \in Runs : CallFine(ui', runs'[r])
    BY <1>1, <1>4, <1>5 DEF CallFine, Lasts
  <1>8. FetchesKnown'
    BY <1>5 DEF FetchesKnown, OwnFetch, Idle
  <1>9. OneSave' /\ LateSave'
    BY <1>4, <1>5 DEF RecordsInv, OneSave, LateSave, Lasts
  <1>10. Patience'
    <2> SUFFICES ASSUME ~ ui.hasty PROVE PatientFetch' /\ PatientSave' /\ PatientRemoval'
      BY <1>4 DEF Patience
    <2>1. \A r \in Runs : runs'[r].kind \notin Awaited
      BY <1>5, Waited DEF Add, Lasts
    <2> QED BY <2>1 DEF PatientFetch, PatientSave, PatientRemoval, Closing, Awaited
  <1> QED BY <1>2, <1>4, <1>5, <1>6, <1>7, <1>8, <1>9, <1>10 DEF RecordsInv, NoCrossWrite

\* The record is at hand: the dialog shows it, and nothing of another dialog is heard.
LEMMA OpenAtHand ==
    ASSUME RecordsInv, NEW i \in Items, NEW m \in {"view", "edit", "place"}, Open(i, m),
           Habits.fetch = "none"
    PROVE  RecordsInv'
  <1>1. /\ ui \in UiSet /\ ui.page \in Pages /\ runs \in [Runs -> Lines]
        /\ \A r \in Runs : CallFine(ui, runs[r])
    BY DEF RecordsInv, DialogFine, UiSet
  <1>2. /\ ui' = [Refilled(ui, i) EXCEPT !.dialog = m, !.asked = i]
        /\ runs' = Disowned(runs) /\ srv' = srv /\ props' = props
    BY DEF Open
  <1>3. i \in 0 .. NItems
    BY NItemsAssumption DEF Items
  <1>4. /\ ui' \in UiSet
        /\ ui'.page = ui.page /\ ui'.hasty = ui.hasty /\ ui'.dialog = m
        /\ ui'.on = i /\ ui'.of = i /\ ui'.asked = i /\ ~ ui'.typed
        /\ ui'.saving = ui.saving /\ ui'.pending = ui.pending /\ ui'.removing = ui.removing
    <2> DEFINE v == Refilled(ui, i)
    <2>1. /\ v \in UiSet /\ v.page = ui.page /\ v.hasty = ui.hasty /\ v.on = i /\ v.of = i
          /\ ~ v.typed /\ v.saving = ui.saving /\ v.pending = ui.pending
          /\ v.removing = ui.removing
      BY <1>1, <1>3, RefilledIs
    <2>2. ui' = [v EXCEPT !.dialog = m, !.asked = i]
      BY <1>2
    <2> HIDE DEF v
    <2> QED BY <1>3, <2>1, <2>2 DEF UiSet, Modes
  <1>5. /\ runs' \in [Runs -> Lines]
        /\ \A r \in Runs : Lasts(runs'[r], runs[r]) /\ (runs'[r] # Idle => ~ runs'[r].own)
    BY <1>1, <1>2, Disowning
  <1>6. DialogFine(ui')
    BY <1>4 DEF DialogFine
  <1>7. \A r \in Runs : CallFine(ui', runs'[r])
    BY <1>1, <1>4, <1>5 DEF CallFine, Lasts
  <1>8. FetchesKnown'
    BY <1>5 DEF FetchesKnown, OwnFetch, Idle
  <1>9. OneSave' /\ LateSave'
    BY <1>4, <1>5 DEF RecordsInv, OneSave, LateSave, Lasts
  <1>10. Patience'
    <2> SUFFICES ASSUME ~ ui.hasty PROVE PatientFetch' /\ PatientSave' /\ PatientRemoval'
      BY <1>4 DEF Patience
    <2>1. \A r \in Runs : runs'[r].kind \notin Awaited
      BY <1>5, Waited DEF Open, Lasts
    <2> QED BY <2>1 DEF PatientFetch, PatientSave, PatientRemoval, Closing, Awaited
  <1> QED BY <1>2, <1>4, <1>5, <1>6, <1>7, <1>8, <1>9, <1>10 DEF RecordsInv, NoCrossWrite

\* The record is loaded inside the dialog: no dialog was open, so nothing else is heard.
LEMMA OpenLoading ==
    ASSUME RecordsInv, NEW i \in Items, NEW m \in {"view", "edit", "place"}, Open(i, m),
           Habits.fetch = "inside"
    PROVE  RecordsInv'
  <1>1. /\ ui \in UiSet /\ ui.page \in Pages /\ runs \in [Runs -> Lines]
        /\ \A r \in Runs : CallFine(ui, runs[r])
    BY DEF RecordsInv, DialogFine, UiSet
  <1>2. /\ ui' = [Refilled(ui, 0) EXCEPT !.dialog = m, !.asked = i, !.loading = TRUE]
        /\ Begin(Call("fetch", i, m)) /\ srv' = srv /\ props' = props
    BY DEF Open
  <1>3. i \in 0 .. NItems /\ 0 \in 0 .. NItems
    BY NItemsAssumption DEF Items
  <1>4. /\ ui' \in UiSet
        /\ ui'.page = ui.page /\ ui'.hasty = ui.hasty /\ ui'.dialog = m
        /\ ui'.on = 0 /\ ui'.of = 0 /\ ui'.asked = i /\ ~ ui'.typed /\ ui'.loading
        /\ ui'.saving = ui.saving /\ ui'.pending = ui.pending /\ ui'.removing = ui.removing
    <2> DEFINE v == Refilled(ui, 0)
    <2>1. /\ v \in UiSet /\ v.page = ui.page /\ v.hasty = ui.hasty /\ v.on = 0 /\ v.of = 0
          /\ ~ v.typed /\ v.saving = ui.saving /\ v.pending = ui.pending
          /\ v.removing = ui.removing
      BY <1>1, <1>3, RefilledIs
    <2>2. ui' = [v EXCEPT !.dialog = m, !.asked = i, !.loading = TRUE]
      BY <1>2
    <2> HIDE DEF v
    <2> QED BY <1>3, <2>1, <2>2 DEF UiSet, Modes
  <1> DEFINE run == Call("fetch", i, m)
  <1>5. /\ run \in Lines /\ run # Idle /\ run.kind = "fetch" /\ run.item = i /\ run.own
        /\ ~ run.sent /\ ~ run.evict
    BY <1>1, <1>3, CallIs DEF Awaited, Modes, Idle
  <1> HIDE DEF run
  <1>6. PICK r \in Runs : BeginIs(r, run)
    BY <1>1, <1>2, <1>5, Beginning DEF run
  <1>7. ui.dialog = "none" /\ ~ ui.typed
    BY <1>1, DialogFacts DEF Open, Habits, Box, RecordsInv, DialogFine
  <1>8. DialogFine(ui')
    BY <1>4 DEF DialogFine
  <1>9. \A q \in Runs : CallFine(ui', runs'[q])
    <2>1. CallFine(ui', run)
      BY <1>4, <1>5 DEF CallFine, Habits
    <2>2. \A q \in Runs \ {r} : CallFine(ui', runs[q])
      BY <1>1, <1>4 DEF CallFine
    <2> QED BY <1>6, <2>1, <2>2 DEF BeginIs
  <1>10. \A q \in Runs \ {r} : ~ OwnFetch(runs'[q])
    BY <1>1, <1>6, <1>7 DEF BeginIs, CallFine, OwnFetch, Habits, Idle
  <1>11. FetchesKnown'
    BY <1>4, <1>5, <1>6, <1>10 DEF FetchesKnown, BeginIs
  <1>12. OneSave'
    BY <1>4, <1>5, <1>6 DEF RecordsInv, OneSave, BeginIs
  <1>13. LateSave'
    BY <1>4 DEF LateSave
  <1>14. Patience'
    <2> SUFFICES ASSUME ~ ui.hasty PROVE PatientFetch' /\ PatientSave' /\ PatientRemoval'
      BY <1>4 DEF Patience
    <2>1. \A q \in Runs \ {r} : runs'[q].kind \notin Awaited
      BY <1>6, Waited DEF Open, BeginIs
    <2>2. Habits' = Habits
      BY <1>4 DEF Habits
    <2>3. PatientFetch'
      BY <1>4, <1>5, <1>6, <2>1, <2>2 DEF PatientFetch, Awaited, BeginIs
    <2> QED BY <1>5, <1>6, <2>1, <2>3 DEF PatientSave, PatientRemoval, Closing, Awaited, BeginIs
  <1> QED BY <1>2, <1>4, <1>6, <1>8, <1>9, <1>11, <1>12, <1>13, <1>14
          DEF RecordsInv, NoCrossWrite, BeginIs

\* The record is loaded before its dialog opens.
LEMMA OpenLater ==
    ASSUME RecordsInv, NEW i \in Items, NEW m \in {"view", "edit", "place"}, Open(i, m),
           Habits.fetch = "before"
    PROVE  RecordsInv'
  <1>1. /\ ui \in UiSet /\ ui.page \in Pages /\ runs \in [Runs -> Lines]
        /\ \A r \in Runs : CallFine(ui, runs[r])
    BY DEF RecordsInv, DialogFine, UiSet
  <1>2. ui' = ui /\ Begin(Call("fetch", i, m)) /\ srv' = srv /\ props' = props
    BY DEF Open
  <1>3. i \in 0 .. NItems
    BY NItemsAssumption DEF Items
  <1> DEFINE run == Call("fetch", i, m)
  <1>5. /\ run \in Lines /\ run # Idle /\ run.kind = "fetch" /\ run.item = i /\ run.own
        /\ ~ run.sent /\ ~ run.evict
    BY <1>1, <1>3, CallIs DEF Awaited, Modes, Idle
  <1> HIDE DEF run
  <1>6. PICK r \in Runs : BeginIs(r, run)
    BY <1>1, <1>2, <1>5, Beginning DEF run
  <1>7. ui.dialog = "none" /\ ~ ui.typed /\ ~ Habits.drops
    BY <1>1, PageFacts, DialogFacts DEF Open, Habits, Box, RecordsInv, DialogFine
  <1>8. DialogFine(ui')
    BY <1>2 DEF RecordsInv
  <1>9. \A q \in Runs : CallFine(ui', runs'[q])
    <2>1. CallFine(ui, run)
      BY <1>5 DEF CallFine, Habits
    <2> QED BY <1>1, <1>2, <1>6, <2>1 DEF BeginIs
  <1>10. FetchesKnown' /\ LateSave'
    BY <1>2, <1>7 DEF FetchesKnown, LateSave, Habits
  <1>11. OneSave'
    BY <1>2, <1>5, <1>6 DEF RecordsInv, OneSave, BeginIs
  <1>12. Patience'
    <2> SUFFICES ASSUME ~ ui.hasty PROVE PatientFetch' /\ PatientSave' /\ PatientRemoval'
      BY <1>2 DEF Patience
    <2>1. \A q \in Runs \ {r} : runs'[q].kind \notin Awaited
      BY <1>6, Waited DEF Open, BeginIs
    <2>2. Habits' = Habits
      BY <1>2 DEF Habits
    <2>3. PatientFetch'
      BY <1>2, <1>5, <1>6, <1>7, <2>1, <2>2 DEF PatientFetch, Awaited, BeginIs
    <2> QED BY <1>5, <1>6, <2>1, <2>3 DEF PatientSave, PatientRemoval, Closing, Awaited, BeginIs
  <1> QED BY <1>2, <1>6, <1>8, <1>9, <1>10, <1>11, <1>12 DEF RecordsInv, NoCrossWrite, BeginIs

LEMMA OpenKeeps ==
    ASSUME NEW i \in Items, NEW m \in {"view", "edit", "place"}
    PROVE  RecordsInv /\ Open(i, m) => RecordsInv'
  <1> SUFFICES ASSUME RecordsInv, Open(i, m) PROVE RecordsInv'
    OBVIOUS
  <1>1. Habits.fetch \in {"none", "inside", "before"}
    BY PageFacts DEF RecordsInv, DialogFine, UiSet, Habits
  <1> QED BY <1>1, OpenAtHand, OpenLoading, OpenLater

\* "Edit" in the viewer, where the record is loaded again.
LEMMA EditReloading ==
    ASSUME RecordsInv, EditViewed, Habits.drops
    PROVE  RecordsInv'
  <1>1. /\ ui \in UiSet /\ ui.page \in Pages /\ runs \in [Runs -> Lines]
        /\ \A r \in Runs : CallFine(ui, runs[r])
    BY DEF RecordsInv, DialogFine, UiSet
  <1> DEFINE run == Call("fetch", ui.asked, "edit")
  <1>2. PICK r \in Free : runs' = [Disowned(runs) EXCEPT ![r] = run]
    BY DEF EditViewed
  <1>3. /\ ui' = [ui EXCEPT !.dialog = "edit", !.loading = TRUE]
        /\ srv' = srv /\ props' = props /\ ~ ui.typed
    BY DEF EditViewed, RecordsInv, DialogFine
  <1>4. ui.asked \in 0 .. NItems
    BY <1>1 DEF UiSet
  <1>5. /\ run \in Lines /\ run # Idle /\ run.kind = "fetch" /\ run.item = ui.asked /\ run.own
        /\ ~ run.sent /\ ~ run.evict
    BY <1>1, <1>4, CallIs DEF Awaited, Modes, Idle
  <1> HIDE DEF run
  <1>6. /\ ui' \in UiSet
        /\ ui'.page = ui.page /\ ui'.hasty = ui.hasty /\ ui'.dialog = "edit"
        /\ ui'.on = ui.on /\ ui'.of = ui.of /\ ui'.asked = ui.asked /\ ~ ui'.typed
        /\ ui'.loading /\ ui'.saving = ui.saving /\ ui'.pending = ui.pending
        /\ ui'.removing = ui.removing
    BY <1>1, <1>3 DEF UiSet, Modes
  <1>7. r \in Runs /\ runs[r] = Idle
    BY <1>2 DEF Free
  <1>8. /\ runs' \in [Runs -> Lines] /\ runs'[r] = run
        /\ \A q \in Runs \ {r} : /\ Lasts(runs'[q], runs[q])
                                 /\ runs'[q] # Idle => ~ runs'[q].own
    BY <1>1, <1>2, <1>5, <1>7, Disowning
  <1>9. DialogFine(ui')
    BY <1>6 DEF RecordsInv, DialogFine, EditViewed
  <1>10. \A q \in Runs : CallFine(ui', runs'[q])
    <2>1. CallFine(ui', run)
      BY <1>1, <1>5, <1>6, PageFacts DEF CallFine, Habits
    <2>2. \A q \in Runs \ {r} : CallFine(ui', runs'[q])
      BY <1>1, <1>6, <1>8 DEF CallFine, Lasts
    <2> QED BY <1>8, <2>1, <2>2
  <1>11. FetchesKnown'
    BY <1>5, <1>6, <1>8 DEF FetchesKnown, OwnFetch, Idle
  <1>12. OneSave' /\ LateSave'
    BY <1>5, <1>6, <1>8 DEF RecordsInv, OneSave, LateSave, Lasts
  <1>13. Patience'
    <2> SUFFICES ASSUME ~ ui.hasty PROVE PatientFetch' /\ PatientSave' /\ PatientRemoval'
      BY <1>6 DEF Patience
    <2>1. \A q \in Runs \ {r} : runs'[q].kind \notin Awaited
      BY <1>8, Waited DEF EditViewed, Lasts
    <2>2. Habits'.fetch = "inside"
      BY <1>1, <1>6, PageFacts DEF Habits
    <2>3. PatientFetch'
      BY <1>5, <1>6, <1>8, <2>1, <2>2 DEF PatientFetch, Awaited
    <2> QED BY <1>5, <1>8, <2>1, <2>3 DEF PatientSave, PatientRemoval, Closing, Awaited
  <1> QED BY <1>3, <1>6, <1>8, <1>9, <1>10, <1>11, <1>12, <1>13 DEF RecordsInv, NoCrossWrite

LEMMA EditViewedKeeps == RecordsInv /\ EditViewed => RecordsInv'
  <1> SUFFICES ASSUME RecordsInv, EditViewed, ~ Habits.drops PROVE RecordsInv'
    BY EditReloading
  <1>1. /\ ui \in UiSet /\ ui.page \in Pages /\ runs \in [Runs -> Lines]
        /\ \A r \in Runs : CallFine(ui, runs[r])
    BY DEF RecordsInv, DialogFine, UiSet
  <1>2. /\ ui' = [ui EXCEPT !.dialog = "edit"] /\ runs' = runs /\ srv' = srv /\ props' = props
        /\ ~ ui.typed /\ ui.dialog = "view"
    BY DEF EditViewed, RecordsInv, DialogFine
  <1>3. /\ ui' \in UiSet
        /\ ui'.page = ui.page /\ ui'.hasty = ui.hasty /\ ui'.dialog = "edit"
        /\ ui'.on = ui.on /\ ui'.of = ui.of /\ ui'.asked = ui.asked /\ ~ ui'.typed
        /\ ui'.loading = ui.loading /\ ui'.saving = ui.saving /\ ui'.pending = ui.pending
        /\ ui'.removing = ui.removing
    BY <1>1, <1>2 DEF UiSet, Modes
  <1>4. DialogFine(ui')
    BY <1>2, <1>3 DEF RecordsInv, DialogFine
  <1>5. \A q \in Runs : CallFine(ui', runs'[q])
    BY <1>1, <1>2, <1>3 DEF CallFine
  <1>6. FetchesKnown' /\ OneSave' /\ LateSave'
    BY <1>2, <1>3 DEF RecordsInv, FetchesKnown, OneSave, LateSave, Habits
  <1>7. Patience'
    <2> SUFFICES ASSUME ~ ui.hasty PROVE PatientFetch' /\ PatientSave' /\ PatientRemoval'
      BY <1>3 DEF Patience
    <2>1. \A q \in Runs : runs'[q].kind \notin Awaited
      BY <1>2, Waited DEF EditViewed
    <2> QED BY <2>1 DEF PatientFetch, PatientSave, PatientRemoval, Closing, Awaited
  <1> QED BY <1>1, <1>2, <1>3, <1>4, <1>5, <1>6, <1>7 DEF RecordsInv, NoCrossWrite

LEMMA DismissKeeps == RecordsInv /\ Dismiss => RecordsInv'
  <1> SUFFICES ASSUME RecordsInv, Dismiss PROVE RecordsInv'
    OBVIOUS
  <1>1. /\ ui \in UiSet /\ ui.page \in Pages /\ runs \in [Runs -> Lines]
        /\ \A r \in Runs : CallFine(ui, runs[r])
    BY DEF RecordsInv, DialogFine, UiSet
  <1>2. ui' = Shut(ui) /\ runs' = Disowned(runs) /\ srv' = srv /\ props' = props
    BY DEF Dismiss
  <1>3. /\ ui' \in UiSet
        /\ ui'.page = ui.page /\ ui'.hasty = ui.hasty /\ ui'.dialog = "none"
        /\ ui'.on = 0 /\ ui'.of = 0 /\ ~ ui'.typed
        /\ ui'.saving <=> ui.saving /\ ~ Box.owns
        /\ ui'.pending = ui.pending
    BY <1>1, <1>2, ShutIs
  <1>4. /\ runs' \in [Runs -> Lines]
        /\ \A r \in Runs : Lasts(runs'[r], runs[r]) /\ (runs'[r] # Idle => ~ runs'[r].own)
    BY <1>1, <1>2, Disowning
  <1>5. DialogFine(ui')
    BY <1>3 DEF DialogFine
  <1>6. \A r \in Runs : CallFine(ui', runs'[r])
    BY <1>1, <1>3, <1>4 DEF CallFine, Lasts
  <1>7. FetchesKnown'
    BY <1>4 DEF FetchesKnown, OwnFetch, Idle
  <1>8. LateSave'
    BY <1>3 DEF LateSave
  <1>9. ~ ui.hasty => ~ ui.saving /\ ~ ui.loading /\ \A r \in Runs : runs[r].kind # "save"
    BY DEF Dismiss, RecordsInv, OneSave
  <1>10. OneSave'
    BY <1>1, <1>3, <1>4, <1>9, DialogFacts DEF RecordsInv, OneSave, Lasts, Box
  <1>11. Patience'
    <2> SUFFICES ASSUME ~ ui.hasty PROVE PatientFetch' /\ PatientSave' /\ PatientRemoval'
      BY <1>3 DEF Patience
    <2>1. PatientFetch /\ PatientRemoval
      BY DEF RecordsInv, Patience
    <2>2. \A r \in Runs : runs[r].kind # "fetch"
      BY <1>9, <2>1 DEF PatientFetch, Dismiss
    <2>3. \A r \in Runs : runs'[r].kind \notin {"fetch", "save"}
      BY <1>4, <1>9, <2>2 DEF Lasts
    <2>4. \A r \in Runs : ~ (runs'[r].kind = "remove" /\ ~ runs'[r].sent)
      BY <1>4, <2>1 DEF PatientRemoval, Dismiss, Lasts, Idle
    <2> QED BY <1>3, <2>3, <2>4
            DEF PatientFetch, PatientSave, PatientRemoval, Closing, Dismiss
  <1> QED BY <1>2, <1>3, <1>4, <1>5, <1>6, <1>7, <1>8, <1>10, <1>11
          DEF RecordsInv, NoCrossWrite

LEMMA SubmitKeeps == RecordsInv /\ Submit => RecordsInv'
  <1> SUFFICES ASSUME RecordsInv, Submit PROVE RecordsInv'
    OBVIOUS
  <1>1. /\ ui \in UiSet /\ ui.page \in Pages /\ runs \in [Runs -> Lines]
        /\ \A r \in Runs : CallFine(ui, runs[r])
    BY DEF RecordsInv, DialogFine, UiSet
  <1>2. /\ ui' = [ui EXCEPT !.saving = TRUE] /\ srv' = srv /\ props' = props
        /\ Begin(Call("save", ui.on, ui.dialog))
        /\ ui.dialog \in Modes /\ ui.on \in 0 .. NItems /\ ui.of = ui.on
    BY <1>1 DEF Submit, Modes, RecordsInv, DialogFine, UiSet
  <1>3. /\ ui' \in UiSet
        /\ ui'.page = ui.page /\ ui'.hasty = ui.hasty /\ ui'.dialog = ui.dialog
        /\ ui'.on = ui.on /\ ui'.of = ui.of /\ ui'.asked = ui.asked /\ ui'.typed = ui.typed
        /\ ui'.loading = ui.loading /\ ui'.saving /\ ui'.pending = ui.pending
        /\ ui'.removing = ui.removing
    BY <1>1, <1>2 DEF UiSet
  <1> DEFINE run == Call("save", ui.on, ui.dialog)
  <1>4. /\ run \in Lines /\ run # Idle /\ run.kind = "save" /\ run.item = ui.on /\ run.own
        /\ run.of = ui.of /\ ~ run.sent /\ ~ run.evict
    BY <1>1, <1>2, CallIs DEF Awaited, Idle
  <1> HIDE DEF run
  <1>5. PICK r \in Runs : BeginIs(r, run)
    BY <1>1, <1>2, <1>4, Beginning DEF run
  <1>6. DialogFine(ui')
    BY <1>3 DEF RecordsInv, DialogFine
  <1>7. \A q \in Runs : CallFine(ui', runs'[q])
    <2>1. CallFine(ui', run)
      BY <1>2, <1>3, <1>4 DEF CallFine, Modes
    <2>2. \A q \in Runs \ {r} : CallFine(ui', runs[q])
      BY <1>1, <1>3 DEF CallFine
    <2> QED BY <1>5, <2>1, <2>2 DEF BeginIs
  <1>8. FetchesKnown'
    BY <1>3, <1>4, <1>5 DEF RecordsInv, FetchesKnown, BeginIs, OwnFetch, Habits
  <1>9. OneSave'
    BY <1>3, <1>4, <1>5 DEF RecordsInv, OneSave, BeginIs, Submit
  <1>10. LateSave'
    BY <1>3, <1>4, <1>5 DEF RecordsInv, LateSave, BeginIs
  <1>11. Patience'
    <2> SUFFICES ASSUME ~ ui.hasty PROVE PatientFetch' /\ PatientSave' /\ PatientRemoval'
      BY <1>3 DEF Patience
    <2>1. PatientFetch /\ PatientSave /\ PatientRemoval
      BY DEF RecordsInv, Patience
    <2>2. \A q \in Runs : runs'[q].kind # "fetch"
      BY <1>4, <1>5, <2>1 DEF PatientFetch, Submit, BeginIs
    <2>3. \A q \in Runs \ {r} : runs'[q] = runs[q]
      BY <1>5 DEF BeginIs
    <2>4. PatientSave'
      BY <1>2, <1>3, <1>4, <1>5, <2>1, <2>3 DEF PatientSave, BeginIs, Modes
    <2>5. PatientRemoval'
      BY <1>3, <1>4, <1>5, <2>1, <2>3 DEF PatientRemoval, BeginIs, Submit
    <2> QED BY <2>2, <2>4, <2>5 DEF PatientFetch
  <1> QED BY <1>2, <1>3, <1>5, <1>6, <1>7, <1>8, <1>9, <1>10, <1>11
          DEF RecordsInv, NoCrossWrite, BeginIs

\* What the handler of a decision captured, and what the card shows at once.
LEMMA DecidedIs ==
    ASSUME ui \in UiSet, NEW i \in Items, NEW state \in States
    PROVE  /\ Decided(ui, i, state) \in UiSet
           /\ Decided(ui, i, state).page = ui.page /\ Decided(ui, i, state).hasty = ui.hasty
           /\ Decided(ui, i, state).dialog = ui.dialog /\ Decided(ui, i, state).asked = ui.asked
           /\ Decided(ui, i, state).on = ui.on /\ Decided(ui, i, state).of = ui.of
           /\ Decided(ui, i, state).typed = ui.typed
           /\ Decided(ui, i, state).saving = ui.saving
           /\ Decided(ui, i, state).loading = ui.loading
           /\ Decided(ui, i, state).pending = ui.pending
           /\ Decided(ui, i, state).removing = i
  <1>1. i \in 0 .. NItems
    BY NItemsAssumption DEF Items
  <1> DEFINE list == IF ui.page = "cruises" THEN state ELSE ui.list[i]
  <1>2. [ui.list EXCEPT ![i] = list] \in [Items -> States]
    BY DEF UiSet
  <1>3. Decided(ui, i, state) = [ui EXCEPT !.removing = i, !.list = [ui.list EXCEPT ![i] = list]]
    BY DEF Decided, UiSet
  <1> HIDE DEF list
  <1> QED BY <1>1, <1>2, <1>3 DEF UiSet

LEMMA RemoveItKeeps == RecordsInv /\ RemoveIt => RecordsInv'
  <1> SUFFICES ASSUME RecordsInv, RemoveIt PROVE RecordsInv'
    OBVIOUS
  <1>1. /\ ui \in UiSet /\ ui.page \in Pages /\ runs \in [Runs -> Lines]
        /\ \A r \in Runs : CallFine(ui, runs[r])
        /\ props \in [Items -> States]
    BY DEF RecordsInv, DialogFine, UiSet
  <1>2. ui.pending \in Items /\ ui.pending \in 0 .. NItems /\ Habits.removed \in States
    BY <1>1, NItemsAssumption, PageFacts DEF RemoveIt, UiSet, Items, Habits
  <1> DEFINE call == Call("remove", ui.pending, "edit")
             run == [call EXCEPT !.evict = Habits.evicts /\ ui.on = ui.pending, !.list = Shown]
  <1>3. /\ ui' = Decided(ui, ui.pending, Habits.removed) /\ srv' = srv /\ props' = props
        /\ Begin(run)
    BY DEF RemoveIt
  <1>4. /\ ui' \in UiSet
        /\ ui'.page = ui.page /\ ui'.hasty = ui.hasty /\ ui'.dialog = ui.dialog
        /\ ui'.on = ui.on /\ ui'.of = ui.of /\ ui'.asked = ui.asked /\ ui'.typed = ui.typed
        /\ ui'.loading = ui.loading /\ ui'.saving = ui.saving /\ ui'.pending = ui.pending
        /\ ui'.removing = ui.pending
    BY <1>1, <1>2, <1>3, DecidedIs
  <1>5. /\ call \in RunSet /\ call.kind = "remove" /\ call.item = ui.pending
        /\ ~ call.own /\ ~ call.sent
    BY <1>1, <1>2, CallIs DEF Awaited, Modes
  <1>6. Shown \in {<<>>} \cup [Items -> States] /\ (ui.page = "cruises" => Shown = props)
    BY <1>1 DEF Shown
  <1>7. /\ run \in Lines /\ run # Idle /\ run.kind = "remove" /\ run.item = ui.pending
        /\ ~ run.own /\ ~ run.sent /\ (run.evict <=> Habits.evicts /\ ui.on = ui.pending)
        /\ run.list = Shown
    <2> HIDE DEF call
    <2>1. run \in RunSet
      BY <1>5, <1>6 DEF RunSet
    <2> QED BY <1>5, <2>1 DEF RunSet, Lines, Idle
  <1> HIDE DEF run, call
  <1>8. PICK r \in Runs : BeginIs(r, run)
    BY <1>1, <1>3, <1>7, Beginning
  <1>9. DialogFine(ui')
    BY <1>4 DEF RecordsInv, DialogFine
  <1>10. \A q \in Runs : CallFine(ui', runs'[q])
    <2>1. CallFine(ui', run)
      BY <1>1, <1>4, <1>6, <1>7 DEF CallFine, Habits
    <2>2. \A q \in Runs \ {r} : CallFine(ui', runs[q])
      BY <1>1, <1>4 DEF CallFine
    <2> QED BY <1>8, <2>1, <2>2 DEF BeginIs
  <1>11. FetchesKnown' /\ LateSave'
    BY <1>4, <1>7, <1>8 DEF RecordsInv, FetchesKnown, LateSave, BeginIs, OwnFetch, Habits
  <1>12. OneSave'
    BY <1>4, <1>7, <1>8 DEF RecordsInv, OneSave, BeginIs
  <1>13. Patience'
    <2> SUFFICES ASSUME ~ ui.hasty PROVE PatientFetch' /\ PatientSave' /\ PatientRemoval'
      BY <1>4 DEF Patience
    <2>1. PatientFetch /\ PatientSave /\ PatientRemoval
      BY DEF RecordsInv, Patience
    <2>2. \A q \in Runs \ {r} : runs'[q] = runs[q]
      BY <1>8 DEF BeginIs
    <2>3. PatientFetch'
      BY <1>4, <1>7, <1>8, <2>1, <2>2 DEF PatientFetch, BeginIs, Habits
    <2>4. PatientSave'
      BY <1>4, <1>7, <1>8, <2>1, <2>2 DEF PatientSave, BeginIs, Closing
    <2>5. \A q \in Runs \ {r} : runs'[q].kind \notin {"remove", "restore"}
      BY <2>1, <2>2 DEF PatientRemoval, RemoveIt
    <2>6. PatientRemoval'
      BY <1>4, <1>7, <1>8, <2>1, <2>2, <2>5 DEF PatientRemoval, BeginIs, RemoveIt, Closing
    <2> QED BY <2>3, <2>4, <2>6
  <1> QED BY <1>3, <1>4, <1>8, <1>9, <1>10, <1>11, <1>12, <1>13, <1>1
          DEF RecordsInv, NoCrossWrite, BeginIs

LEMMA RestoreKeeps == ASSUME NEW i \in Items PROVE RecordsInv /\ Restore(i) => RecordsInv'
  <1> SUFFICES ASSUME RecordsInv, Restore(i) PROVE RecordsInv'
    OBVIOUS
  <1>1. /\ ui \in UiSet /\ ui.page \in Pages /\ runs \in [Runs -> Lines]
        /\ \A r \in Runs : CallFine(ui, runs[r])
        /\ props \in [Items -> States]
    BY DEF RecordsInv, DialogFine, UiSet
  <1>2. i \in 0 .. NItems /\ "kept" \in States
    BY NItemsAssumption DEF Items, States
  <1> DEFINE call == Call("restore", i, "edit")
             run == [call EXCEPT !.list = Shown]
  <1>3. /\ ui' = IF ui.page = "clients" THEN ui ELSE Decided(ui, i, "kept")
        /\ srv' = srv /\ props' = props /\ Begin(run)
    BY DEF Restore
  <1>4. /\ ui' \in UiSet
        /\ ui'.page = ui.page /\ ui'.hasty = ui.hasty /\ ui'.dialog = ui.dialog
        /\ ui'.on = ui.on /\ ui'.of = ui.of /\ ui'.asked = ui.asked /\ ui'.typed = ui.typed
        /\ ui'.loading = ui.loading /\ ui'.saving = ui.saving /\ ui'.pending = ui.pending
    BY <1>1, <1>2, <1>3, DecidedIs
  <1>5. call \in RunSet /\ call.kind = "restore" /\ ~ call.own /\ ~ call.sent /\ ~ call.evict
    BY <1>1, <1>2, CallIs DEF Awaited, Modes
  <1>6. Shown \in {<<>>} \cup [Items -> States] /\ (ui.page = "cruises" => Shown = props)
    BY <1>1 DEF Shown
  <1>7. /\ run \in Lines /\ run # Idle /\ run.kind = "restore" /\ ~ run.own /\ ~ run.sent
        /\ ~ run.evict /\ run.list = Shown
    <2> HIDE DEF call
    <2>1. run \in RunSet
      BY <1>5, <1>6 DEF RunSet
    <2> QED BY <1>5, <2>1 DEF RunSet, Lines, Idle
  <1> HIDE DEF run, call
  <1>8. PICK r \in Runs : BeginIs(r, run)
    BY <1>1, <1>3, <1>7, Beginning
  <1>9. DialogFine(ui')
    BY <1>4 DEF RecordsInv, DialogFine
  <1>10. \A q \in Runs : CallFine(ui', runs'[q])
    <2>1. CallFine(ui', run)
      BY <1>1, <1>4, <1>6, <1>7 DEF CallFine, Habits
    <2>2. \A q \in Runs \ {r} : CallFine(ui', runs[q])
      BY <1>1, <1>4 DEF CallFine
    <2> QED BY <1>8, <2>1, <2>2 DEF BeginIs
  <1>11. FetchesKnown' /\ LateSave'
    BY <1>4, <1>7, <1>8 DEF RecordsInv, FetchesKnown, LateSave, BeginIs, OwnFetch, Habits
  <1>12. OneSave'
    BY <1>4, <1>7, <1>8 DEF RecordsInv, OneSave, BeginIs
  <1>13. Patience'
    <2> SUFFICES ASSUME ~ ui.hasty PROVE PatientFetch' /\ PatientSave' /\ PatientRemoval'
      BY <1>4 DEF Patience
    <2>1. \A q \in Runs \ {r} : runs'[q].kind \notin Awaited
      BY <1>8, Waited DEF Restore, BeginIs
    <2> QED BY <1>4, <1>7, <1>8, <2>1
            DEF PatientFetch, PatientSave, PatientRemoval, Closing, Awaited, BeginIs, Restore
  <1> QED BY <1>3, <1>4, <1>8, <1>9, <1>10, <1>11, <1>12, <1>13, <1>1
          DEF RecordsInv, NoCrossWrite, BeginIs

-----------------------------------------------------------------------------
(* Answers *)

LEMMA AnswerFine ==
    ASSUME RecordsInv, NEW r \in Runs, NEW run \in Lines, BecomesIs(r, run),
           ui'.page = ui.page, CallFine(ui, run)
    PROVE  \A q \in Runs : CallFine(ui', runs'[q])
  <1>1. SUFFICES ASSUME NEW d \in Lines, NEW c \in Lines, CallFine(ui, c), Lasts(d, c),
                        ui'.dialog = "none" => (d # Idle => ~ d.own)
                 PROVE  CallFine(ui', d)
    BY DEF BecomesIs, RecordsInv
  <1> QED BY <1>1 DEF CallFine, Lasts

\* Nothing is typed where a dialog is gone; and while one is open, its calls are its own.
LEMMA AnswerLate ==
    ASSUME RecordsInv, NEW r \in Runs, NEW run \in Lines, BecomesIs(r, run),
           ui'.page = ui.page, DialogFine(ui'), ui'.typed => ui.typed,
           run.kind = "save" => runs[r].kind = "save" /\ run.own = runs[r].own
    PROVE  LateSave'
  BY DEF RecordsInv, LateSave, BecomesIs, DialogFine

\* What the answer to a fetch makes of the page.
LEMMA FetchedUi ==
    ASSUME RecordsInv, NEW r \in Runs, Fetched(r)
    PROVE  /\ ui' \in UiSet
           /\ ui'.page = ui.page /\ ui'.hasty = ui.hasty /\ ui'.saving = ui.saving
           /\ ui'.pending = ui.pending /\ ui'.removing = ui.removing
           /\ ui'.typed => ui.typed /\ ui'.on = ui.on
           /\ DialogFine(ui')
           /\ Deaf(runs[r]) => ui' = ui
  <1> DEFINE run == runs[r]
             i == run.item
  <1>1. /\ ui \in UiSet /\ ui.page \in Pages /\ run \in RunSet /\ i \in 0 .. NItems
        /\ CallFine(ui, run) /\ run.kind = "fetch" /\ DialogFine(ui)
    <2>1. run \in Lines /\ run.kind = "fetch"
      BY DEF Fetched, RecordsInv
    <2>2. run \in RunSet
      BY <2>1 DEF Lines, Idle
    <2> QED BY <2>2, <2>1 DEF RecordsInv, DialogFine, UiSet, RunSet
  <1>2. Habits.fetch \in {"inside", "before"}
    BY <1>1, PageFacts DEF CallFine, Habits, RunSet, Idle
  <1>3. CASE ui' = ui
    BY <1>1, <1>3
  <1>4. ASSUME ~ Deaf(run), Habits.fetch = "before", ui.dialog \in {"none", "edit"},
               ui' = [Refilled(ui, i) EXCEPT !.dialog = "edit", !.asked = i]
        PROVE  /\ ui' \in UiSet
               /\ ui'.page = ui.page /\ ui'.hasty = ui.hasty /\ ui'.saving = ui.saving
               /\ ui'.pending = ui.pending /\ ui'.removing = ui.removing
               /\ ~ ui'.typed /\ DialogFine(ui')
    <2> DEFINE v == Refilled(ui, i)
    <2>1. /\ v \in UiSet /\ v.page = ui.page /\ v.hasty = ui.hasty /\ v.on = i /\ v.of = i
          /\ ~ v.typed /\ v.saving = ui.saving /\ v.pending = ui.pending
          /\ v.removing = ui.removing
      BY <1>1, RefilledIs
    <2>2. ui' = [v EXCEPT !.dialog = "edit", !.asked = i]
      BY <1>4
    <2> HIDE DEF v, i
    <2>3. /\ ui' \in UiSet
          /\ ui'.page = ui.page /\ ui'.hasty = ui.hasty /\ ui'.saving = ui.saving
          /\ ui'.pending = ui.pending /\ ui'.removing = ui.removing
          /\ ~ ui'.typed /\ ui'.dialog = "edit" /\ ui'.on = i /\ ui'.of = i /\ ui'.asked = i
      BY <1>1, <2>1, <2>2 DEF UiSet, Modes
    <2> QED BY <2>3 DEF DialogFine
  <1>5. ASSUME ~ Deaf(run), Habits.fetch = "inside",
               ui' = [Refilled(ui, i) EXCEPT !.loading = FALSE]
        PROVE  /\ ui' \in UiSet
               /\ ui'.page = ui.page /\ ui'.hasty = ui.hasty /\ ui'.saving = ui.saving
               /\ ui'.pending = ui.pending /\ ui'.removing = ui.removing
               /\ ~ ui'.typed /\ DialogFine(ui')
    <2> DEFINE v == Refilled(ui, i)
    <2>1. /\ v \in UiSet /\ v.page = ui.page /\ v.hasty = ui.hasty /\ v.on = i /\ v.of = i
          /\ ~ v.typed /\ v.saving = ui.saving /\ v.pending = ui.pending
          /\ v.removing = ui.removing /\ v.asked = ui.asked /\ v.dialog = ui.dialog
      BY <1>1, RefilledIs
    <2>2. ui' = [v EXCEPT !.loading = FALSE]
      BY <1>5
    <2>3. ui.page = "attachments" => i = ui.asked
      BY <1>1, <1>5, PageFacts DEF RecordsInv, FetchesKnown, OwnFetch, Deaf, Habits
    <2> HIDE DEF v, i
    <2>4. /\ ui' \in UiSet
          /\ ui'.page = ui.page /\ ui'.hasty = ui.hasty /\ ui'.saving = ui.saving
          /\ ui'.pending = ui.pending /\ ui'.removing = ui.removing
          /\ ~ ui'.typed /\ ui'.dialog = ui.dialog /\ ui'.on = i /\ ui'.of = i
          /\ ui'.asked = ui.asked
      BY <1>1, <2>1, <2>2 DEF UiSet
    <2> QED BY <1>5, <2>3, <2>4 DEF DialogFine, Habits
  <1>6. ASSUME ui' = [ui EXCEPT !.loading = FALSE]
        PROVE  /\ ui' \in UiSet
               /\ ui'.page = ui.page /\ ui'.hasty = ui.hasty /\ ui'.saving = ui.saving
               /\ ui'.pending = ui.pending /\ ui'.removing = ui.removing
               /\ ui'.typed = ui.typed /\ ui'.on = ui.on /\ DialogFine(ui')
    <2>1. /\ ui' \in UiSet
          /\ ui'.page = ui.page /\ ui'.hasty = ui.hasty /\ ui'.saving = ui.saving
          /\ ui'.pending = ui.pending /\ ui'.removing = ui.removing
          /\ ui'.typed = ui.typed /\ ui'.dialog = ui.dialog /\ ui'.on = ui.on
          /\ ui'.of = ui.of /\ ui'.asked = ui.asked
      BY <1>1, <1>6 DEF UiSet
    <2> QED BY <1>1, <2>1 DEF DialogFine
  <1>7. ASSUME Habits.fetch = "inside", ui' = [Shut(ui) EXCEPT !.loading = FALSE]
        PROVE  /\ ui' \in UiSet
               /\ ui'.page = ui.page /\ ui'.hasty = ui.hasty /\ ui'.saving = ui.saving
               /\ ui'.pending = ui.pending /\ ui'.removing = ui.removing
               /\ ~ ui'.typed /\ DialogFine(ui')
    <2> DEFINE v == Shut(ui)
    <2>1. ~ Box.owns
      BY <1>1, <1>7, DialogFacts DEF Box, Habits
    <2>2. /\ v \in UiSet /\ v.page = ui.page /\ v.hasty = ui.hasty /\ v.on = 0 /\ v.of = 0
          /\ ~ v.typed /\ v.dialog = "none" /\ v.saving = ui.saving
          /\ v.pending = ui.pending /\ v.removing = ui.removing
      <3>1. v.saving <=> ui.saving
        BY <1>1, <2>1, ShutIs
      <3>2. v.saving \in BOOLEAN /\ ui.saving \in BOOLEAN
        BY <1>1, ShutIs DEF UiSet
      <3> QED BY <1>1, <3>1, <3>2, ShutIs
    <2>3. ui' = [v EXCEPT !.loading = FALSE]
      BY <1>7
    <2> HIDE DEF v
    <2>4. /\ ui' \in UiSet
          /\ ui'.page = ui.page /\ ui'.hasty = ui.hasty /\ ui'.saving = ui.saving
          /\ ui'.pending = ui.pending /\ ui'.removing = ui.removing
          /\ ~ ui'.typed /\ ui'.dialog = "none" /\ ui'.on = 0 /\ ui'.of = 0
      BY <2>2, <2>3 DEF UiSet
    <2> QED BY <2>4 DEF DialogFine
  <1>8. \/ ui' = ui
        \/ /\ ~ Deaf(run) /\ Habits.fetch = "before" /\ ui.dialog \in {"none", "edit"}
           /\ ui' = [Refilled(ui, i) EXCEPT !.dialog = "edit", !.asked = i]
        \/ /\ ~ Deaf(run) /\ Habits.fetch = "inside"
           /\ \/ ui' = [Refilled(ui, i) EXCEPT !.loading = FALSE]
              \/ ui' = [ui EXCEPT !.loading = FALSE]
              \/ ui' = [Shut(ui) EXCEPT !.loading = FALSE]
    BY <1>2 DEF Fetched, Closed
  <1>9. Deaf(run) => ui' = ui
    BY DEF Fetched
  <1> HIDE DEF run, i
  <1>10. ui' = ui \/ ~ Deaf(run)
    BY <1>9
  <1> QED BY <1>3, <1>4, <1>5, <1>6, <1>7, <1>8, <1>9, <1>10 DEF run

LEMMA FetchedKeeps == ASSUME NEW r \in Runs PROVE RecordsInv /\ Fetched(r) => RecordsInv'
  <1> SUFFICES ASSUME RecordsInv, Fetched(r) PROVE RecordsInv'
    OBVIOUS
  <1>1. /\ ui \in UiSet /\ ui.page \in Pages /\ runs \in [Runs -> Lines]
        /\ \A q \in Runs : CallFine(ui, runs[q])
        /\ runs[r].kind = "fetch" /\ srv' = srv /\ props' = props
    BY DEF RecordsInv, DialogFine, UiSet, Fetched
  <1>2. Habits.fetch \in {"inside", "before"}
    BY <1>1, PageFacts DEF CallFine, Habits, Idle
  <1>3. Idle \in Lines /\ CallFine(ui, Idle) /\ Idle.kind = "idle"
    BY DEF Lines, CallFine, Idle
  <1>4. BecomesIs(r, Idle)
    BY <1>1, <1>3, Becoming DEF Fetched, Done
  <1>5. runs'[r] = Idle
    BY <1>4 DEF BecomesIs, Lasts
  <1>6. /\ ui' \in UiSet
        /\ ui'.page = ui.page /\ ui'.hasty = ui.hasty /\ ui'.saving = ui.saving
        /\ ui'.pending = ui.pending /\ ui'.removing = ui.removing
        /\ ui'.typed => ui.typed /\ ui'.on = ui.on
        /\ DialogFine(ui')
        /\ Deaf(runs[r]) => ui' = ui
    BY FetchedUi
  <1>7. \A q \in Runs : CallFine(ui', runs'[q])
    BY <1>3, <1>4, <1>6, AnswerFine
  <1>8. FetchesKnown'
    <2> SUFFICES ASSUME Habits.drops PROVE FetchesKnown'
      BY <1>6 DEF FetchesKnown, Habits
    <2>1. \A q \in Runs \ {r} : OwnFetch(runs'[q]) => OwnFetch(runs[q]) /\ runs'[q].item = runs[q].item
      BY <1>4 DEF BecomesIs, Lasts, OwnFetch, Idle
    <2>2. CASE Deaf(runs[r])
      BY <1>3, <1>5, <1>6, <2>1, <2>2 DEF RecordsInv, FetchesKnown, OwnFetch
    <2>3. CASE ~ Deaf(runs[r])
      BY <1>1, <1>3, <1>5, <2>1, <2>3 DEF RecordsInv, FetchesKnown, OwnFetch, Deaf
    <2> QED BY <2>2, <2>3
  <1>9. OneSave'
    BY <1>3, <1>4, <1>5, <1>6 DEF RecordsInv, OneSave, BecomesIs, Lasts
  <1>10. LateSave'
    BY <1>3, <1>4, <1>6, AnswerLate
  <1>11. Patience'
    <2> SUFFICES ASSUME ~ ui.hasty PROVE PatientFetch' /\ PatientSave' /\ PatientRemoval'
      BY <1>6 DEF Patience
    <2>1. PatientFetch /\ PatientSave /\ PatientRemoval
      BY DEF RecordsInv, Patience
    <2>2. \A q \in Runs \ {r} : /\ runs[q].kind # "fetch"
                                /\ ~ (runs[q].kind = "save" /\ ~ runs[q].sent)
      BY <1>1, <2>1 DEF PatientFetch
    <2>3. \A q \in Runs \ {r} : ~ Closing(ui.page, runs[q])
      BY <1>1, <1>2, <2>1, <2>2, AfterFacts DEF PatientSave, Closing, Habits
    <2>4. \A q \in Runs : runs'[q].kind # "fetch" /\ ~ Closing(ui'.page, runs'[q])
      BY <1>3, <1>4, <1>5, <1>6, <2>2, <2>3 DEF BecomesIs, Lasts, Closing, Idle
    <2>5. \A q \in Runs \ {r} : Lasts(runs'[q], runs[q])
      BY <1>4 DEF BecomesIs
    <2>6. PatientRemoval'
      BY <1>3, <1>5, <1>6, <2>1, <2>4, <2>5 DEF PatientRemoval, Lasts, Idle
    <2> QED BY <2>4, <2>6 DEF PatientFetch, PatientSave
  <1> QED BY <1>1, <1>4, <1>6, <1>7, <1>8, <1>9, <1>10, <1>11
          DEF RecordsInv, NoCrossWrite, BecomesIs

\* What is stored is the text of the record it is stored in.
LEMMA StoredIs ==
    ASSUME RecordsInv, NEW run \in RunSet, run.of = run.item,
           NEW i \in Items, run.item = 0 \/ i = run.item,
           srv' = Stored(run, i)
    PROVE  srv' \in [rec : [Items -> States], from : [Items -> 0 .. NItems]] /\ NoCrossWrite'
  <1>1. /\ srv \in [rec : [Items -> States], from : [Items -> 0 .. NItems]]
        /\ run.of \in 0 .. NItems /\ i \in 0 .. NItems /\ "live" \in States
    BY NItemsAssumption DEF RecordsInv, RunSet, Items, States
  <1>2. (IF run.item = 0 /\ run.of = 0 THEN i ELSE run.of) = i
    <2>1. CASE run.item = 0
      BY <2>1
    <2>2. CASE run.item # 0
      BY <2>2
    <2> QED BY <2>1, <2>2
  <1> DEFINE state == IF run.item = 0 THEN "live" ELSE srv.rec[i]
             rec == [srv.rec EXCEPT ![i] = state]
             from == [srv.from EXCEPT ![i] = i]
  <1>3. srv' = [rec |-> rec, from |-> from]
    BY <1>1, <1>2 DEF Stored
  <1>4. state \in States
    BY <1>1
  <1>5. rec \in [Items -> States] /\ from \in [Items -> 0 .. NItems]
    BY <1>1, <1>4
  <1>6. \A j \in Items : rec[j] # "absent" => srv.rec[j] # "absent" \/ j = i
    BY <1>1
  <1>7. \A j \in Items : from[j] = IF j = i THEN i ELSE srv.from[j]
    BY <1>1
  <1> HIDE DEF rec, from, state
  <1> QED BY <1>3, <1>5, <1>6, <1>7 DEF RecordsInv, NoCrossWrite

\* What the answer to a save leaves to the rest of the proof: the flag tells of the saves
\* that are left, and nothing that a fetch or a removal waits for has changed.
SettledFine(r, run) ==
    /\ ui' \in UiSet
    /\ ui'.page = ui.page /\ ui'.hasty = ui.hasty
    /\ ui'.pending = ui.pending
    /\ ui'.typed => ui.typed /\ ui'.on = ui.on
    /\ DialogFine(ui')
    /\ ui'.dialog # "none" =>
          ui'.loading = ui.loading /\ ui'.asked = ui.asked /\ ui'.dialog = ui.dialog
    /\ run \in Lines /\ CallFine(ui, run) /\ BecomesIs(r, run) /\ run # runs[r]
    /\ run.kind \in {"idle", "save", "reload"}
    /\ run.kind = "save" => /\ run.sent /\ run.own = runs[r].own
                            /\ ~ ui.hasty \/ ~ Owner(ui.page) => ui'.saving = ui.saving
                            /\ Closing(ui.page, run) => ui' = ui

LEMMA SettledKeeps ==
    ASSUME RecordsInv, NEW r \in Runs, NEW run, SettledFine(r, run),
           runs[r].kind = "save", ~ runs[r].sent
    PROVE  /\ runs' \in [Runs -> Lines] /\ DialogFine(ui')
           /\ \A q \in Runs : CallFine(ui', runs'[q])
           /\ FetchesKnown' /\ OneSave' /\ LateSave' /\ Patience'
  <1>1. /\ ui \in UiSet /\ ui.page \in Pages /\ runs \in [Runs -> Lines]
        /\ \A q \in Runs : CallFine(ui, runs[q])
        /\ DialogFine(ui)
    BY DEF RecordsInv, DialogFine, UiSet
  <1>2. /\ BecomesIs(r, run) /\ ui'.page = ui.page /\ ui'.hasty = ui.hasty
        /\ run \in Lines /\ CallFine(ui, run) /\ run.kind \in {"idle", "save", "reload"}
        /\ Habits' = Habits
    BY DEF SettledFine, Habits
  <1>3. runs' \in [Runs -> Lines] /\ runs'[r].kind = run.kind
        /\ \A q \in Runs \ {r} : Lasts(runs'[q], runs[q])
    BY <1>2 DEF BecomesIs, Lasts
  <1>4. \A q \in Runs : CallFine(ui', runs'[q])
    BY <1>2, AnswerFine
  <1>5. FetchesKnown'
    <2> SUFFICES ASSUME Habits.drops PROVE FetchesKnown'
      BY <1>2 DEF FetchesKnown
    <2>1. CASE ui'.dialog = "none"
      BY <1>2, <2>1 DEF BecomesIs, FetchesKnown, OwnFetch, Idle
    <2>2. CASE ui'.dialog # "none"
      <3>1. \A q \in Runs : OwnFetch(runs'[q]) => q # r /\ runs'[q] = runs[q]
        BY <1>2, <1>3, <2>2 DEF BecomesIs, OwnFetch
      <3>2. ui'.loading = ui.loading /\ ui'.asked = ui.asked /\ (ui'.typed => ui.typed)
        BY <2>2 DEF SettledFine
      <3> QED BY <3>1, <3>2 DEF RecordsInv, FetchesKnown
    <2> QED BY <2>1, <2>2
  <1>6. ~ ui.hasty \/ ~ Owner(ui.page) =>
          /\ ui.saving
          /\ \A q \in Runs \ {r} : runs[q].kind # "save" /\ runs'[q].kind # "save"
    BY <1>3 DEF RecordsInv, OneSave, Lasts
  <1>7. OneSave'
    BY <1>2, <1>3, <1>6 DEF OneSave, SettledFine
  <1>8. LateSave'
    BY <1>2, AnswerLate DEF SettledFine
  <1>9. Patience'
    <2> SUFFICES ASSUME ~ ui.hasty PROVE PatientFetch' /\ PatientSave' /\ PatientRemoval'
      BY <1>2 DEF Patience
    <2>1. PatientFetch /\ PatientSave /\ PatientRemoval
      BY DEF RecordsInv, Patience
    <2>2. Closing(ui.page, runs[r])
      BY DEF Closing
    <2>3. runs[r].own /\ ui.dialog # "none" /\ ui.pending = 0
      BY <2>1, <2>2 DEF PatientSave, PatientRemoval
    <2>4. \A q \in Runs : runs[q].kind # "fetch"
      BY <2>1 DEF PatientFetch
    <2>5. \A q \in Runs : runs'[q].kind # "fetch"
      BY <1>2, <1>3, <2>4 DEF Lasts
    <2>6. PatientSave'
      <3>1. \A q \in Runs : Closing(ui'.page, runs'[q]) => q = r
        BY <1>6 DEF Closing
      <3>2. Closing(ui'.page, runs'[r]) => Closing(ui.page, run)
        BY <1>2, <1>3 DEF Closing, BecomesIs, Lasts, Idle
      <3>3. Closing(ui.page, run) => ui' = ui /\ run.own = runs[r].own
        BY DEF SettledFine, Closing
      <3> QED BY <1>2, <2>3, <3>1, <3>2, <3>3 DEF PatientSave, BecomesIs
    <2>7. PatientRemoval'
      <3>1. ui'.pending = 0
        BY <2>3 DEF SettledFine
      <3>2. \A q \in Runs : ~ (runs[q].kind = "remove" /\ ~ runs[q].sent)
        BY <2>1, <2>3 DEF PatientRemoval
      <3>3. \A q \in Runs : ~ (runs'[q].kind = "remove" /\ ~ runs'[q].sent)
        BY <1>2, <1>3, <3>2 DEF Lasts, Idle
      <3> QED BY <3>1, <3>3 DEF PatientRemoval
    <2> QED BY <2>5, <2>6, <2>7 DEF PatientFetch
  <1> QED BY <1>3, <1>4, <1>5, <1>7, <1>8, <1>9 DEF SettledFine

LEMMA ShutFine ==
    ASSUME DialogFine(ui)
    PROVE  DialogFine(Shut(ui)) /\ (~ Owner(ui.page) => Shut(ui).saving = ui.saving)
  <1>1. ui \in UiSet /\ ui.page \in Pages
    BY DEF DialogFine, UiSet
  <1>2. DialogFine(Shut(ui))
    BY <1>1, ShutIs DEF DialogFine
  <1>3. ASSUME ~ Owner(ui.page) PROVE Shut(ui).saving = ui.saving
    <2>1. ~ Box.owns
      BY <1>1, <1>3, DialogFacts DEF Box
    <2>2. Shut(ui).saving \in BOOLEAN /\ ui.saving \in BOOLEAN
      BY <1>1, ShutIs DEF UiSet
    <2> QED BY <1>1, <2>1, <2>2, ShutIs
  <1> QED BY <1>2, <1>3

LEMMA ClosedIs ==
    ASSUME DialogFine(ui), NEW run
    PROVE  /\ Closed(run) \in UiSet /\ DialogFine(Closed(run))
           /\ Closed(run).page = ui.page /\ Closed(run).hasty = ui.hasty
           /\ Closed(run).list = ui.list
           /\ Closed(run).pending = ui.pending /\ Closed(run).removing = ui.removing
           /\ Closed(run).typed => ui.typed /\ Closed(run).on = ui.on
           /\ Closed(run).dialog # "none" => Closed(run) = ui
           /\ ~ Owner(ui.page) => Closed(run).saving = ui.saving
  <1>1. ui \in UiSet
    BY DEF DialogFine
  <1>2. CASE Closed(run) = ui
    BY <1>1, <1>2
  <1>3. CASE Closed(run) = Shut(ui)
    BY <1>1, <1>3, ShutIs, ShutFine
  <1> QED BY <1>2, <1>3 DEF Closed

LEMMA ReleasedFine ==
    ASSUME NEW u, DialogFine(u), NEW run \in RunSet
    PROVE  DialogFine(Released(u, run))
  <1>1. u \in UiSet
    BY DEF DialogFine
  <1> QED BY <1>1, ReleasedIs DEF DialogFine

LEMMA SettledReloads ==
    ASSUME RecordsInv, NEW r \in Runs, runs[r].kind = "save", ~ runs[r].sent,
           After(ui.page, runs[r].mode) = "reloads", Settled(r)
    PROVE  \E run : SettledFine(r, run)
  <1> DEFINE run == Awaits(runs[r])
  <1>1. /\ ui \in UiSet /\ ui.page \in Pages /\ runs \in [Runs -> Lines] /\ DialogFine(ui)
        /\ CallFine(ui, runs[r]) /\ runs[r] \in RunSet
    BY DEF RecordsInv, DialogFine, UiSet, Lines, Idle
  <1>2. ui' = ui /\ Becomes(r, run)
    BY DEF Settled
  <1>3. /\ run \in Lines /\ run # runs[r] /\ run.kind = "save" /\ run.own = runs[r].own
        /\ run.sent /\ ~ run.evict
    BY <1>1, AwaitsIs
  <1> HIDE DEF run
  <1>4. BecomesIs(r, run)
    BY <1>1, <1>2, <1>3, Becoming
  <1>5. CallFine(ui, run)
    BY <1>1, <1>3 DEF CallFine, Idle
  <1> QED BY <1>1, <1>2, <1>3, <1>4, <1>5 DEF SettledFine

LEMMA SettledCloses ==
    ASSUME RecordsInv, NEW r \in Runs, runs[r].kind = "save", ~ runs[r].sent,
           After(ui.page, runs[r].mode) = "closes", Settled(r)
    PROVE  \E run : SettledFine(r, run)
  <1> DEFINE run == Awaits(runs[r])
  <1>1. /\ ui \in UiSet /\ ui.page \in Pages /\ runs \in [Runs -> Lines] /\ DialogFine(ui)
        /\ CallFine(ui, runs[r]) /\ runs[r] \in RunSet
    BY DEF RecordsInv, DialogFine, UiSet, Lines, Idle
  <1>2. ui' = Closed(runs[r]) /\ Becomes(r, run)
    BY DEF Settled
  <1>3. /\ run \in Lines /\ run # runs[r] /\ run.kind = "save" /\ run.own = runs[r].own
        /\ run.sent /\ ~ run.evict /\ run.mode = runs[r].mode
    BY <1>1, AwaitsIs
  <1> HIDE DEF run
  <1>4. BecomesIs(r, run)
    BY <1>1, <1>2, <1>3, Becoming
  <1>5. CallFine(ui, run)
    BY <1>1, <1>3 DEF CallFine, Idle
  <1>6. ~ Owner(ui.page)
    BY <1>1, AfterFacts
  <1>7. ~ Closing(ui.page, run)
    BY <1>3 DEF Closing
  <1> QED BY <1>1, <1>2, <1>3, <1>4, <1>5, <1>6, <1>7, ClosedIs DEF SettledFine

LEMMA SettledLeaves ==
    ASSUME RecordsInv, NEW r \in Runs, runs[r].kind = "save", ~ runs[r].sent,
           After(ui.page, runs[r].mode) \notin {"reloads", "closes"},
           ~ (/\ After(ui.page, runs[r].mode) = "stays" /\ runs[r].mode = "edit"
              /\ ui.dialog \in {"view", "edit"}),
           Settled(r)
    PROVE  \E run : SettledFine(r, run)
  <1> DEFINE run == Call("reload", 0, "view")
             u == Closed(runs[r])
  <1>1. /\ ui \in UiSet /\ ui.page \in Pages /\ runs \in [Runs -> Lines] /\ DialogFine(ui)
        /\ CallFine(ui, runs[r]) /\ runs[r] \in RunSet /\ 0 \in 0 .. NItems
    BY NItemsAssumption DEF RecordsInv, DialogFine, UiSet, Lines, Idle
  <1>2. ui' = Released(u, runs[r]) /\ Becomes(r, run)
    BY DEF Settled
  <1>3. /\ run \in Lines /\ run.kind = "reload" /\ ~ run.own /\ ~ run.evict
    BY <1>1, CallIs DEF Modes
  <1> HIDE DEF run
  <1>4. BecomesIs(r, run) /\ run # runs[r]
    BY <1>1, <1>2, <1>3, Becoming
  <1>5. CallFine(ui, run)
    BY <1>1, <1>3 DEF CallFine
  <1>6. /\ u \in UiSet /\ DialogFine(u) /\ u.page = ui.page /\ u.hasty = ui.hasty
        /\ u.pending = ui.pending
        /\ u.typed => ui.typed /\ u.on = ui.on
        /\ u.dialog # "none" => u = ui
    BY <1>1, ClosedIs
  <1> HIDE DEF u
  <1>7. /\ ui' \in UiSet /\ DialogFine(ui')
        /\ ui'.page = u.page /\ ui'.hasty = u.hasty /\ ui'.pending = u.pending
        /\ ui'.typed = u.typed /\ ui'.on = u.on /\ ui'.dialog = u.dialog
        /\ ui'.asked = u.asked /\ ui'.loading = u.loading
    BY <1>1, <1>2, <1>6, ReleasedIs, ReleasedFine
  <1> QED BY <1>3, <1>4, <1>5, <1>6, <1>7 DEF SettledFine

\* The client dialog stays open on what was saved, and loads it again.
LEMMA SettledStays ==
    ASSUME RecordsInv, NEW r \in Runs, runs[r].kind = "save", ~ runs[r].sent,
           After(ui.page, runs[r].mode) = "stays", runs[r].mode = "edit",
           ui.dialog \in {"view", "edit"}, Settled(r)
    PROVE  /\ runs' \in [Runs -> Lines] /\ DialogFine(ui') /\ ui'.page = ui.page
           /\ \A q \in Runs : CallFine(ui', runs'[q])
           /\ FetchesKnown' /\ OneSave' /\ LateSave' /\ Patience'
  <1> DEFINE run == Call("fetch", ui.asked, "view")
             i == runs[r].item
             v == Refilled(ui, i)
  <1>1. /\ ui \in UiSet /\ ui.page \in Pages /\ runs \in [Runs -> Lines] /\ DialogFine(ui)
        /\ \A q \in Runs : CallFine(ui, runs[q])
        /\ runs[r] \in RunSet /\ ui.asked \in 0 .. NItems
    BY DEF RecordsInv, DialogFine, UiSet, Lines, Idle
  <1>2. /\ runs' = [Disowned(runs) EXCEPT ![r] = run]
        /\ ui' = [v EXCEPT !.dialog = "view", !.saving = FALSE, !.loading = TRUE]
    BY DEF Settled
  <1>3. /\ run \in Lines /\ run # Idle /\ run.kind = "fetch" /\ run.item = ui.asked /\ run.own
        /\ ~ run.sent /\ ~ run.evict
    BY <1>1, CallIs DEF Awaited, Modes, Idle
  <1>4. /\ v \in UiSet /\ v.page = ui.page /\ v.hasty = ui.hasty /\ v.on = i /\ v.of = i
        /\ ~ v.typed /\ v.pending = ui.pending /\ v.asked = ui.asked
    <2>1. i \in 0 .. NItems
      BY <1>1 DEF RunSet
    <2> QED BY <1>1, <2>1, RefilledIs
  <1> HIDE DEF run, i, v
  <1>5. /\ ui' \in UiSet
        /\ ui'.page = ui.page /\ ui'.hasty = ui.hasty /\ ui'.dialog = "view"
        /\ ui'.on = i /\ ui'.of = i /\ ~ ui'.typed /\ ui'.pending = ui.pending
        /\ ui'.asked = ui.asked /\ ui'.loading
    BY <1>2, <1>4 DEF UiSet, Modes
  <1>6. /\ runs' \in [Runs -> Lines] /\ runs'[r] = run
        /\ \A q \in Runs \ {r} : /\ Lasts(runs'[q], runs[q])
                                 /\ runs'[q] # Idle => ~ runs'[q].own
    BY <1>1, <1>2, <1>3, Disowning
  <1>7. Habits.drops /\ ui.page = "clients" /\ ~ Owner(ui.page)
    BY <1>1, AfterFacts DEF Habits
  <1>8. Habits.fetch = "inside" /\ Habits'.fetch = "inside"
    BY <1>1, <1>5, <1>7, PageFacts DEF Habits
  <1>9. DialogFine(ui')
    BY <1>5, <1>7, <1>8 DEF DialogFine, Habits
  <1>10. \A q \in Runs : CallFine(ui', runs'[q])
    <2>1. CallFine(ui', run)
      BY <1>3, <1>5, <1>8 DEF CallFine, Habits
    <2>2. \A q \in Runs \ {r} : CallFine(ui', runs'[q])
      BY <1>1, <1>5, <1>6 DEF CallFine, Lasts
    <2> QED BY <1>6, <2>1, <2>2
  <1>11. FetchesKnown'
    BY <1>3, <1>5, <1>6 DEF FetchesKnown, OwnFetch, Idle
  <1>12. \A q \in Runs : runs'[q].kind # "save"
    BY <1>3, <1>6, <1>7 DEF RecordsInv, OneSave, Lasts
  <1>13. OneSave' /\ LateSave'
    BY <1>12 DEF OneSave, LateSave
  <1>14. Patience'
    <2> SUFFICES ASSUME ~ ui.hasty PROVE PatientFetch' /\ PatientSave' /\ PatientRemoval'
      BY <1>5 DEF Patience
    <2>1. PatientFetch /\ PatientRemoval
      BY DEF RecordsInv, Patience
    <2>2. ui.pending = 0 /\ \A q \in Runs : ~ (runs[q].kind = "remove" /\ ~ runs[q].sent)
      BY <2>1 DEF PatientRemoval, Closing
    <2>3. \A q \in Runs \ {r} : /\ runs'[q].kind # "fetch"
                                /\ ~ (runs'[q].kind = "remove" /\ ~ runs'[q].sent)
      BY <1>6, <2>1, <2>2 DEF PatientFetch, Lasts, Idle
    <2>4. PatientFetch'
      BY <1>5, <1>6, <1>8, <1>12, <2>3 DEF PatientFetch
    <2> QED BY <1>3, <1>5, <1>6, <1>12, <2>2, <2>3, <2>4
            DEF PatientSave, PatientRemoval, Closing
  <1> QED BY <1>5, <1>6, <1>9, <1>10, <1>11, <1>13, <1>14

LEMMA SavedKeeps == ASSUME NEW r \in Runs PROVE RecordsInv /\ Saved(r) => RecordsInv'
  <1> SUFFICES ASSUME RecordsInv, Saved(r) PROVE RecordsInv'
    OBVIOUS
  <1>1. /\ runs[r].kind = "save" /\ ~ runs[r].sent /\ Settled(r) /\ props' = props
    BY DEF Saved
  <1>2. runs[r] \in RunSet /\ runs[r].of = runs[r].item
    BY <1>1 DEF RecordsInv, Lines, Idle, CallFine
  <1>3. srv' \in [rec : [Items -> States], from : [Items -> 0 .. NItems]] /\ NoCrossWrite'
    <2>1. PICK i \in Items : /\ srv' = Stored(runs[r], i)
                             /\ runs[r].item = 0 \/ i = runs[r].item
      <3>1. CASE runs[r].item = 0
        BY <3>1 DEF Saved, Creatable
      <3>2. CASE runs[r].item # 0
        BY <1>2, <3>2, NItemsAssumption DEF Saved, RunSet, Items
      <3> QED BY <3>1, <3>2
    <2> QED BY <1>2, <2>1, StoredIs
  <1>4. /\ runs' \in [Runs -> Lines] /\ DialogFine(ui')
        /\ \A q \in Runs : CallFine(ui', runs'[q])
        /\ FetchesKnown' /\ OneSave' /\ LateSave' /\ Patience'
    BY <1>1, SettledReloads, SettledCloses, SettledLeaves, SettledStays, SettledKeeps
  <1> QED BY <1>1, <1>3, <1>4 DEF RecordsInv

\* What the answer to a removal, or to a decision, leaves to the rest of the proof.
RemovalFine(r, run) ==
    /\ ui' \in UiSet
    /\ ui'.page = ui.page /\ ui'.hasty = ui.hasty
    /\ ui'.saving = ui.saving /\ ui'.loading = ui.loading
    /\ ui'.pending \in {0, ui.pending}
    /\ ui'.typed => ui.typed /\ ui'.on = ui.on
    /\ DialogFine(ui')
    /\ ui'.dialog # "none" => ui'.asked = ui.asked /\ ui'.dialog = ui.dialog
    /\ ui'.dialog = ui.dialog \/ runs[r].kind = "remove"
    /\ run \in Lines /\ CallFine(ui, run) /\ BecomesIs(r, run)
    /\ run.kind # "idle" =>
          /\ run.sent /\ run.kind = runs[r].kind
          /\ runs[r].kind = "remove" => ui'.pending = 0

LEMMA RemovalKeeps ==
    ASSUME RecordsInv, NEW r \in Runs, NEW run, RemovalFine(r, run),
           runs[r].kind \in {"remove", "restore"}, ~ runs[r].sent
    PROVE  /\ runs' \in [Runs -> Lines] /\ DialogFine(ui')
           /\ \A q \in Runs : CallFine(ui', runs'[q])
           /\ FetchesKnown' /\ OneSave' /\ LateSave' /\ Patience'
  <1>1. /\ ui \in UiSet /\ ui.page \in Pages /\ runs \in [Runs -> Lines]
        /\ \A q \in Runs : CallFine(ui, runs[q])
        /\ DialogFine(ui)
    BY DEF RecordsInv, DialogFine, UiSet
  <1>2. /\ BecomesIs(r, run) /\ ui'.page = ui.page /\ ui'.hasty = ui.hasty
        /\ run \in Lines /\ CallFine(ui, run)
        /\ run.kind \in {"idle", "remove", "restore"}
        /\ run.kind # "idle" => run.sent /\ run.kind = runs[r].kind
        /\ ui'.saving = ui.saving /\ ui'.loading = ui.loading
        /\ Habits' = Habits
    BY DEF RemovalFine, Habits
  <1>3. /\ runs' \in [Runs -> Lines] /\ runs'[r].kind = run.kind
        /\ run.kind # "idle" => runs'[r].sent
        /\ \A q \in Runs \ {r} : Lasts(runs'[q], runs[q])
    BY <1>2 DEF BecomesIs, Lasts, Idle
  <1>4. \A q \in Runs : CallFine(ui', runs'[q])
    BY <1>2, AnswerFine
  <1>5. FetchesKnown'
    <2> SUFFICES ASSUME Habits.drops PROVE FetchesKnown'
      BY <1>2 DEF FetchesKnown
    <2>1. CASE ui'.dialog = "none"
      BY <1>2, <2>1 DEF BecomesIs, FetchesKnown, OwnFetch, Idle
    <2>2. CASE ui'.dialog # "none"
      <3>1. \A q \in Runs : OwnFetch(runs'[q]) => q # r /\ runs'[q] = runs[q]
        BY <1>2, <1>3, <2>2 DEF BecomesIs, OwnFetch
      <3>2. ui'.loading = ui.loading /\ ui'.asked = ui.asked /\ (ui'.typed => ui.typed)
        BY <2>2 DEF RemovalFine
      <3> QED BY <3>1, <3>2 DEF RecordsInv, FetchesKnown
    <2> QED BY <2>1, <2>2
  <1>6. OneSave'
    BY <1>2, <1>3 DEF RecordsInv, OneSave, Lasts
  <1>7. LateSave'
    BY <1>2, AnswerLate DEF RemovalFine
  <1>8. Patience'
    <2> SUFFICES ASSUME ~ ui.hasty PROVE PatientFetch' /\ PatientSave' /\ PatientRemoval'
      BY <1>2 DEF Patience
    <2>1. PatientFetch /\ PatientSave /\ PatientRemoval
      BY DEF RecordsInv, Patience
    <2>2. PatientFetch'
      <3>1. \A q \in Runs : runs'[q].kind = "fetch" =>
                 q # r /\ runs[q].kind = "fetch" /\ Lasts(runs'[q], runs[q])
        BY <1>2, <1>3 DEF Lasts
      <3>2. \A q \in Runs : runs'[q].kind = "save" /\ ~ runs'[q].sent =>
                 runs[q].kind = "save" /\ ~ runs[q].sent
        BY <1>2, <1>3 DEF Lasts, Idle
      <3>3. ui.dialog = "none" => ui'.dialog = "none"
        BY DEF RemovalFine
      <3>4. ui'.typed => ui.typed
        BY DEF RemovalFine
      <3> QED BY <1>2, <2>1, <3>1, <3>2, <3>3, <3>4 DEF PatientFetch
    <2>3. \A q \in Runs : Closing(ui'.page, runs'[q]) =>
               Closing(ui.page, runs[q]) /\ q # r /\ Lasts(runs'[q], runs[q])
      BY <1>2, <1>3 DEF Closing, Lasts, Idle
    <2>4. PatientSave'
      <3>1. CASE runs[r].kind = "remove"
        BY <2>1, <2>3, <3>1 DEF PatientSave, PatientRemoval
      <3>2. CASE ui'.dialog = ui.dialog
        BY <1>2, <2>1, <2>3, <3>2 DEF PatientSave, BecomesIs
      <3> QED BY <3>1, <3>2 DEF RemovalFine
    <2>5. \A q \in Runs \ {r} : ~ (runs[q].kind = "remove" /\ ~ runs[q].sent)
      BY <2>1 DEF PatientRemoval
    <2>6. \A q \in Runs : ~ (runs'[q].kind = "remove" /\ ~ runs'[q].sent)
      BY <1>2, <1>3, <2>5 DEF Lasts, Idle
    <2>7. ASSUME ui'.pending # 0
          PROVE  /\ \A q \in Runs : ~ Closing(ui'.page, runs'[q])
                 /\ \A q \in Runs : runs'[q].kind \notin {"remove", "restore"}
      <3>1. ui.pending # 0 /\ ui'.pending = ui.pending
        BY <2>7 DEF RemovalFine
      <3>2. runs[r].kind = "remove" /\ \A q \in Runs \ {r} : runs[q].kind \notin {"remove", "restore"}
        BY <2>1, <3>1 DEF PatientRemoval
      <3>3. run.kind = "idle"
        BY <2>7, <3>2 DEF RemovalFine
      <3> QED BY <1>3, <2>1, <2>3, <3>1, <3>2, <3>3 DEF PatientRemoval, Lasts
    <2>8. PatientRemoval'
      BY <2>6, <2>7 DEF PatientRemoval
    <2> QED BY <2>2, <2>4, <2>8
  <1> QED BY <1>3, <1>4, <1>5, <1>6, <1>7, <1>8 DEF RemovalFine

LEMMA RefusedKeeps == ASSUME NEW r \in Runs PROVE RecordsInv /\ Refused(r) => RecordsInv'
  <1> SUFFICES ASSUME RecordsInv, Refused(r) PROVE RecordsInv'
    OBVIOUS
  <1> DEFINE v == Released(ui, runs[r])
             list == IF ui.page = "cruises" /\ runs[r].kind # "save" THEN runs[r].list ELSE v.list
  <1>1. /\ ui \in UiSet /\ ui.page \in Pages /\ runs \in [Runs -> Lines] /\ DialogFine(ui)
        /\ CallFine(ui, runs[r])
        /\ runs[r].kind \in {"save", "remove", "restore"} /\ ~ runs[r].sent /\ props' = props
    BY DEF RecordsInv, DialogFine, UiSet, Refused
  <1>2. runs[r] \in RunSet /\ runs[r] # Idle
    BY <1>1 DEF Lines, Idle
  <1>3. srv' \in [rec : [Items -> States], from : [Items -> 0 .. NItems]] /\ NoCrossWrite'
    <2>1. CASE srv' = srv
      BY <2>1 DEF RecordsInv, NoCrossWrite
    <2>2. CASE /\ runs[r].kind = "save" /\ runs[r].item # 0
               /\ srv' = Stored(runs[r], runs[r].item)
      <3>1. runs[r].item \in Items /\ runs[r].of = runs[r].item
        BY <1>1, <1>2, <2>2, NItemsAssumption DEF RunSet, Items, CallFine
      <3> QED BY <1>2, <2>2, <3>1, StoredIs
    <2> QED BY <2>1, <2>2 DEF Refused
  <1>4. /\ v \in UiSet /\ v.page = ui.page /\ v.hasty = ui.hasty /\ v.list = ui.list
        /\ v.dialog = ui.dialog /\ v.asked = ui.asked /\ v.on = ui.on /\ v.of = ui.of
        /\ v.typed = ui.typed /\ v.loading = ui.loading /\ v.pending = ui.pending
        /\ runs[r].kind # "save" => v.saving = ui.saving
    BY <1>1, <1>2, ReleasedIs
  <1>5. list \in [Items -> States]
    BY <1>1, <1>2, <1>4 DEF CallFine, UiSet
  <1>6. ui' = [v EXCEPT !.list = list]
    BY DEF Refused
  <1> HIDE DEF v, list
  <1>7. /\ ui' \in UiSet /\ ui'.page = ui.page /\ ui'.hasty = ui.hasty
        /\ ui'.dialog = ui.dialog /\ ui'.asked = ui.asked /\ ui'.on = ui.on
        /\ ui'.of = ui.of /\ ui'.typed = ui.typed /\ ui'.loading = ui.loading
        /\ ui'.pending = ui.pending
        /\ runs[r].kind # "save" => ui'.saving = ui.saving
    BY <1>4, <1>5, <1>6 DEF UiSet
  <1>8. DialogFine(ui')
    BY <1>1, <1>7 DEF DialogFine
  <1>9. Idle \in Lines /\ CallFine(ui, Idle) /\ Idle.kind = "idle"
    BY DEF Lines, CallFine, Idle
  <1>10. BecomesIs(r, Idle)
    BY <1>1, <1>9, Becoming DEF Refused, Done
  <1>11. runs[r].kind = "save" => SettledFine(r, Idle)
    BY <1>2, <1>7, <1>8, <1>9, <1>10 DEF SettledFine
  <1>12. runs[r].kind # "save" => RemovalFine(r, Idle)
    BY <1>7, <1>8, <1>9, <1>10 DEF RemovalFine
  <1>13. /\ runs' \in [Runs -> Lines] /\ DialogFine(ui')
         /\ \A q \in Runs : CallFine(ui', runs'[q])
         /\ FetchesKnown' /\ OneSave' /\ LateSave' /\ Patience'
    BY <1>1, <1>11, <1>12, SettledKeeps, RemovalKeeps
  <1> QED BY <1>1, <1>3, <1>13 DEF RecordsInv

LEMMA RemovedKeeps == ASSUME NEW r \in Runs PROVE RecordsInv /\ Removed(r) => RecordsInv'
  <1> SUFFICES ASSUME RecordsInv, Removed(r) PROVE RecordsInv'
    OBVIOUS
  <1> DEFINE run == Awaits(runs[r])
             v == IF runs[r].evict THEN Shut(ui) ELSE ui
  <1>1. /\ ui \in UiSet /\ ui.page \in Pages /\ runs \in [Runs -> Lines] /\ DialogFine(ui)
        /\ CallFine(ui, runs[r]) /\ runs[r].kind = "remove" /\ ~ runs[r].sent
        /\ props' = props
        /\ srv \in [rec : [Items -> States], from : [Items -> 0 .. NItems]]
    BY DEF RecordsInv, DialogFine, UiSet, Removed
  <1>2. runs[r] \in RunSet /\ runs[r] # Idle
    BY <1>1 DEF Lines, Idle
  <1>3. srv' \in [rec : [Items -> States], from : [Items -> 0 .. NItems]] /\ NoCrossWrite'
    <2> DEFINE i == runs[r].item
    <2>1. srv' = [srv EXCEPT !.rec = [srv.rec EXCEPT ![i] = Habits.removed]] /\ srv.rec[i] # "absent"
      BY <1>1 DEF Removed
    <2>2. Habits.removed \in States
      BY <1>1, PageFacts DEF Habits
    <2> HIDE DEF i
    <2> QED BY <1>1, <2>1, <2>2 DEF RecordsInv, NoCrossWrite
  <1>4. /\ v \in UiSet /\ DialogFine(v) /\ v.page = ui.page /\ v.hasty = ui.hasty
        /\ v.pending = ui.pending /\ v.saving = ui.saving /\ v.loading = ui.loading
        /\ v.typed => ui.typed /\ v.on = ui.on
        /\ v.dialog # "none" => v.asked = ui.asked /\ v.dialog = ui.dialog
    <2>1. CASE ~ runs[r].evict
      BY <1>1, <2>1
    <2>2. CASE runs[r].evict
      <3>1. Habits.evicts /\ ~ Habits.drops /\ ~ Owner(ui.page)
        BY <1>1, <1>2, <2>2, PageFacts, DialogFacts DEF CallFine, Habits, Owner
      <3>2. Shut(ui).loading \in BOOLEAN /\ ui.loading \in BOOLEAN
        BY <1>1, ShutIs DEF UiSet
      <3>3. Shut(ui).loading = ui.loading
        BY <1>1, <3>1, <3>2, ShutIs
      <3> QED BY <1>1, <2>2, <3>1, <3>3, ShutIs, ShutFine
    <2> QED BY <2>1, <2>2
  <1>5. 0 \in 0 .. NItems
    BY NItemsAssumption
  <1>6. ui' = [v EXCEPT !.pending = 0] /\ Becomes(r, run)
    BY DEF Removed
  <1>7. /\ run \in Lines /\ run.kind = "remove" /\ run.own = runs[r].own
        /\ run.sent /\ ~ run.evict /\ run.mode = runs[r].mode
    BY <1>1, <1>2, AwaitsIs
  <1> HIDE DEF v, run
  <1>8. /\ ui' \in UiSet /\ ui'.page = v.page /\ ui'.hasty = v.hasty
        /\ ui'.dialog = v.dialog /\ ui'.asked = v.asked /\ ui'.on = v.on
        /\ ui'.of = v.of /\ ui'.typed = v.typed /\ ui'.loading = v.loading
        /\ ui'.pending = 0 /\ ui'.saving = v.saving
    BY <1>4, <1>5, <1>6 DEF UiSet
  <1>9. DialogFine(ui')
    BY <1>4, <1>8 DEF DialogFine
  <1>10. BecomesIs(r, run)
    BY <1>1, <1>6, <1>7, Becoming
  <1>11. CallFine(ui, run)
    BY <1>1, <1>2, <1>7 DEF CallFine
  <1>12. RemovalFine(r, run)
    BY <1>1, <1>4, <1>7, <1>8, <1>9, <1>10, <1>11 DEF RemovalFine
  <1>13. /\ runs' \in [Runs -> Lines] /\ DialogFine(ui')
         /\ \A q \in Runs : CallFine(ui', runs'[q])
         /\ FetchesKnown' /\ OneSave' /\ LateSave' /\ Patience'
    BY <1>1, <1>12, RemovalKeeps
  <1> QED BY <1>1, <1>3, <1>13 DEF RecordsInv

LEMMA RestoredKeeps == ASSUME NEW r \in Runs PROVE RecordsInv /\ Restored(r) => RecordsInv'
  <1> SUFFICES ASSUME RecordsInv, Restored(r) PROVE RecordsInv'
    OBVIOUS
  <1> DEFINE run == Awaits(runs[r])
  <1>1. /\ ui \in UiSet /\ ui.page \in Pages /\ runs \in [Runs -> Lines] /\ DialogFine(ui)
        /\ CallFine(ui, runs[r]) /\ runs[r].kind = "restore" /\ ~ runs[r].sent
        /\ props' = props /\ ui' = ui /\ Becomes(r, run)
        /\ srv \in [rec : [Items -> States], from : [Items -> 0 .. NItems]]
    BY DEF RecordsInv, DialogFine, UiSet, Restored
  <1>2. runs[r] \in RunSet /\ runs[r] # Idle
    BY <1>1 DEF Lines, Idle
  <1>3. srv' \in [rec : [Items -> States], from : [Items -> 0 .. NItems]] /\ NoCrossWrite'
    <2> DEFINE i == runs[r].item
               state == IF ui.page = "cruises" THEN "kept" ELSE "live"
    <2>1. srv' = [srv EXCEPT !.rec = [srv.rec EXCEPT ![i] = state]] /\ srv.rec[i] # "absent"
      BY <1>1 DEF Restored
    <2>2. state \in States
      BY DEF States
    <2> HIDE DEF i, state
    <2> QED BY <1>1, <2>1, <2>2 DEF RecordsInv, NoCrossWrite
  <1>4. /\ run \in Lines /\ run.kind = "restore" /\ run.own = runs[r].own
        /\ run.sent /\ ~ run.evict /\ run.mode = runs[r].mode
    BY <1>1, <1>2, AwaitsIs
  <1> HIDE DEF run
  <1>5. BecomesIs(r, run)
    BY <1>1, <1>4, Becoming
  <1>6. CallFine(ui, run)
    BY <1>1, <1>2, <1>4 DEF CallFine
  <1>7. RemovalFine(r, run)
    BY <1>1, <1>4, <1>5, <1>6 DEF RemovalFine
  <1>8. /\ runs' \in [Runs -> Lines] /\ DialogFine(ui')
        /\ \A q \in Runs : CallFine(ui', runs'[q])
        /\ FetchesKnown' /\ OneSave' /\ LateSave' /\ Patience'
    BY <1>1, <1>7, RemovalKeeps
  <1> QED BY <1>1, <1>3, <1>8 DEF RecordsInv

\* What the end of a reload makes of the page: the dialog is closed by the save that waited.
LEMMA ReloadedUi ==
    ASSUME RecordsInv, NEW r \in Runs, Reloaded(r)
    PROVE  /\ ui' \in UiSet /\ DialogFine(ui')
           /\ ui'.page = ui.page /\ ui'.hasty = ui.hasty /\ ui'.pending = ui.pending
           /\ ui'.typed => ui.typed /\ ui'.on = ui.on
           /\ \/ ui'.dialog = ui.dialog /\ ui'.asked = ui.asked /\ ui'.loading = ui.loading
                 /\ ui'.typed = ui.typed
              \/ Closing(ui.page, runs[r]) /\ ui'.dialog = "none"
                 /\ After(ui.page, runs[r].mode) = "reloads"
           /\ runs[r].kind # "save" => ui'.saving = ui.saving
           /\ runs[r].kind \notin {"remove", "restore"} => ui'.removing = ui.removing
           /\ props' \in [Items -> States]
  <1> DEFINE run == runs[r]
             waits == run.kind = "save" /\ After(ui.page, run.mode) = "reloads"
             u == IF waits THEN Closed(run) ELSE ui
  <1>1. /\ ui \in UiSet /\ ui.page \in Pages /\ DialogFine(ui) /\ run \in RunSet
        /\ props \in [Items -> States] /\ srv.rec \in [Items -> States]
    BY DEF RecordsInv, DialogFine, UiSet, Reloaded, Lines
  <1>2. /\ u \in UiSet /\ DialogFine(u)
        /\ u.page = ui.page /\ u.hasty = ui.hasty /\ u.pending = ui.pending
        /\ u.removing = ui.removing /\ u.list = ui.list
        /\ u.typed => ui.typed /\ u.on = ui.on
        /\ \/ u = ui
           \/ waits /\ u.dialog = "none"
    BY <1>1, ClosedIs
  <1>3. ASSUME NEW v \in UiSet, v.page = u.page, v.hasty = u.hasty, v.pending = u.pending,
               v.dialog = u.dialog, v.asked = u.asked, v.on = u.on, v.of = u.of,
               v.typed = u.typed, v.loading = u.loading, NEW list \in [Items -> States],
               NEW w, w = [v EXCEPT !.list = list]
        PROVE  /\ w \in UiSet /\ DialogFine(w)
               /\ w.page = u.page /\ w.hasty = u.hasty /\ w.pending = u.pending
               /\ w.dialog = u.dialog /\ w.asked = u.asked /\ w.on = u.on
               /\ w.typed = u.typed /\ w.loading = u.loading /\ w.saving = v.saving
               /\ w.removing = v.removing
    <2> HIDE DEF u
    <2>1. /\ w \in UiSet
          /\ w.page = u.page /\ w.hasty = u.hasty /\ w.pending = u.pending
          /\ w.dialog = u.dialog /\ w.asked = u.asked /\ w.on = u.on /\ w.of = u.of
          /\ w.typed = u.typed /\ w.loading = u.loading /\ w.saving = v.saving
          /\ w.removing = v.removing
      BY <1>3 DEF UiSet
    <2> QED BY <1>2, <2>1 DEF DialogFine
  <1> DEFINE closed == Released(u, run)
             kept == Released(ui, run)
  <1>4. \/ props' = srv.rec /\ ui' = [closed EXCEPT !.list = srv.rec]
        \/ props' = props /\ ui' \in {closed, kept}
    BY DEF Reloaded
  <1>5. waits => Closing(ui.page, run) /\ After(ui.page, run.mode) = "reloads"
    BY DEF Closing
  <1>6. /\ closed \in UiSet /\ DialogFine(closed)
        /\ closed.page = u.page /\ closed.hasty = u.hasty /\ closed.pending = u.pending
        /\ closed.dialog = u.dialog /\ closed.asked = u.asked /\ closed.on = u.on
        /\ closed.of = u.of /\ closed.typed = u.typed /\ closed.loading = u.loading
        /\ run.kind # "save" => closed.saving = u.saving
        /\ run.kind \notin {"remove", "restore"} => closed.removing = u.removing
    <2> HIDE DEF u, run
    <2> QED BY <1>1, <1>2, ReleasedIs, ReleasedFine
  <1>7. /\ kept \in UiSet /\ DialogFine(kept)
        /\ kept.page = ui.page /\ kept.hasty = ui.hasty /\ kept.pending = ui.pending
        /\ kept.dialog = ui.dialog /\ kept.asked = ui.asked /\ kept.on = ui.on
        /\ kept.of = ui.of /\ kept.typed = ui.typed /\ kept.loading = ui.loading
        /\ run.kind # "save" => kept.saving = ui.saving
        /\ run.kind \notin {"remove", "restore"} => kept.removing = ui.removing
    <2> HIDE DEF run
    <2> QED BY <1>1, ReleasedIs, ReleasedFine
  <1>8. run.kind # "save" => u = ui
    OBVIOUS
  <1>9. CASE props' = props /\ ui' = kept
    <2> HIDE DEF kept, run
    <2> QED BY <1>1, <1>7, <1>9 DEF run
  <1>10. CASE props' = props /\ ui' = closed
    <2> HIDE DEF closed, run, u, waits
    <2> QED BY <1>1, <1>2, <1>5, <1>6, <1>8, <1>10 DEF run
  <1>11. CASE props' = srv.rec /\ ui' = [closed EXCEPT !.list = srv.rec]
    <2>1. /\ ui' \in UiSet /\ DialogFine(ui')
          /\ ui'.page = u.page /\ ui'.hasty = u.hasty /\ ui'.pending = u.pending
          /\ ui'.dialog = u.dialog /\ ui'.asked = u.asked /\ ui'.on = u.on
          /\ ui'.typed = u.typed /\ ui'.loading = u.loading /\ ui'.saving = closed.saving
          /\ ui'.removing = closed.removing
      <3> HIDE DEF closed, u
      <3> QED BY <1>1, <1>3, <1>6, <1>11
    <2> HIDE DEF closed, run, u, waits
    <2> QED BY <1>1, <1>2, <1>5, <1>6, <1>8, <1>11, <2>1 DEF run
  <1> HIDE DEF closed, kept
  <1> QED BY <1>4, <1>9, <1>10, <1>11

LEMMA ReloadedKeeps == ASSUME NEW r \in Runs PROVE RecordsInv /\ Reloaded(r) => RecordsInv'
  <1> SUFFICES ASSUME RecordsInv, Reloaded(r) PROVE RecordsInv'
    OBVIOUS
  <1>1. /\ ui \in UiSet /\ ui.page \in Pages /\ runs \in [Runs -> Lines] /\ DialogFine(ui)
        /\ \A q \in Runs : CallFine(ui, runs[q])
        /\ runs[r].sent \/ runs[r].kind = "reload"
        /\ srv' = srv
    BY DEF RecordsInv, DialogFine, UiSet, Reloaded
  <1>2. /\ ui' \in UiSet /\ DialogFine(ui')
        /\ ui'.page = ui.page /\ ui'.hasty = ui.hasty /\ ui'.pending = ui.pending
        /\ ui'.typed => ui.typed /\ ui'.on = ui.on
        /\ \/ ui'.dialog = ui.dialog /\ ui'.asked = ui.asked /\ ui'.loading = ui.loading
              /\ ui'.typed = ui.typed
           \/ Closing(ui.page, runs[r]) /\ ui'.dialog = "none"
              /\ After(ui.page, runs[r].mode) = "reloads"
        /\ runs[r].kind # "save" => ui'.saving = ui.saving
        /\ runs[r].kind \notin {"remove", "restore"} => ui'.removing = ui.removing
        /\ props' \in [Items -> States]
    BY ReloadedUi
  <1>3. Idle \in Lines /\ CallFine(ui, Idle) /\ Idle.kind = "idle"
    BY DEF Lines, CallFine, Idle
  <1>4. BecomesIs(r, Idle)
    BY <1>1, <1>3, Becoming DEF Reloaded, Done
  <1>5. /\ runs' \in [Runs -> Lines] /\ runs'[r] = Idle
        /\ \A q \in Runs \ {r} : Lasts(runs'[q], runs[q])
    BY <1>4 DEF BecomesIs, Lasts
  <1>6. \A q \in Runs : CallFine(ui', runs'[q])
    BY <1>2, <1>3, <1>4, AnswerFine
  <1>7. FetchesKnown'
    <2> SUFFICES ASSUME Habits.drops PROVE FetchesKnown'
      BY <1>2 DEF FetchesKnown, Habits
    <2>1. CASE ui'.dialog = "none"
      BY <1>4, <2>1 DEF BecomesIs, FetchesKnown, OwnFetch, Idle
    <2>2. CASE ui'.dialog # "none"
      <3>1. \A q \in Runs : OwnFetch(runs'[q]) => q # r /\ runs'[q] = runs[q]
        BY <1>3, <1>4, <1>5, <2>2 DEF BecomesIs, OwnFetch
      <3> QED BY <1>2, <2>2, <3>1 DEF RecordsInv, FetchesKnown
    <2> QED BY <2>1, <2>2
  <1>8. OneSave'
    <2>1. CASE runs[r].kind = "save"
      BY <1>2, <1>3, <1>5, <2>1 DEF RecordsInv, OneSave, Lasts
    <2>2. CASE runs[r].kind # "save"
      BY <1>2, <1>3, <1>5, <2>2 DEF RecordsInv, OneSave, Lasts
    <2> QED BY <2>1, <2>2
  <1>9. LateSave'
    BY <1>2, <1>3, <1>4, AnswerLate
  <1>10. Patience'
    <2> SUFFICES ASSUME ~ ui.hasty PROVE PatientFetch' /\ PatientSave' /\ PatientRemoval'
      BY <1>2 DEF Patience
    <2>1. PatientFetch /\ PatientSave /\ PatientRemoval
      BY DEF RecordsInv, Patience
    <2>2. Habits' = Habits
      BY <1>2 DEF Habits
    <2>3. \A q \in Runs : runs'[q] # Idle => q # r /\ Lasts(runs'[q], runs[q])
      BY <1>5
    <2>4. PatientFetch'
      <3>1. CASE ui'.dialog = ui.dialog /\ ui'.loading = ui.loading /\ ui'.typed = ui.typed
        BY <1>3, <2>1, <2>2, <2>3, <3>1 DEF PatientFetch, Lasts, Idle
      <3>2. CASE After(ui.page, runs[r].mode) = "reloads"
        <4>1. \A q \in Runs : runs[q].kind # "fetch"
          BY <1>1, <3>2, AfterFacts DEF CallFine, Idle
        <4>2. \A q \in Runs : runs'[q].kind # "fetch"
          BY <1>3, <2>3, <4>1 DEF Lasts
        <4> QED BY <4>2 DEF PatientFetch
      <3> QED BY <1>2, <3>1, <3>2
    <2>5. \A q \in Runs : Closing(ui'.page, runs'[q]) => q # r /\ Closing(ui.page, runs[q])
      BY <1>2, <1>3, <2>3 DEF Closing, Lasts, Idle
    <2>6. PatientSave'
      <3>1. CASE ui'.dialog = ui.dialog
        BY <1>4, <2>1, <2>5, <3>1 DEF PatientSave, BecomesIs
      <3>2. CASE Closing(ui.page, runs[r])
        BY <2>5, <3>2 DEF PatientSave, RecordsInv, OneSave, Closing
      <3> QED BY <1>2, <3>1, <3>2
    <2>7. PatientRemoval'
      <3>1. CASE ui.pending = 0
        BY <1>2, <1>3, <2>1, <2>3, <3>1 DEF PatientRemoval, Lasts, Idle
      <3>2. CASE ui.pending # 0
        <4>1. runs[r].kind \notin {"remove", "restore"}
          BY <1>1, <2>1, <3>2 DEF PatientRemoval
        <4>2. ui'.removing = ui.removing
          BY <1>2, <4>1
        <4> QED BY <1>2, <1>3, <2>1, <2>3, <2>5, <3>2, <4>2 DEF PatientRemoval, Lasts, Idle
      <3> QED BY <3>1, <3>2
    <2> QED BY <2>4, <2>6, <2>7
  <1> QED BY <1>1, <1>2, <1>5, <1>6, <1>7, <1>8, <1>9, <1>10 DEF RecordsInv, NoCrossWrite

-----------------------------------------------------------------------------
(* The world around the page *)

LEMMA ReloadElsewhereKeeps == RecordsInv /\ ReloadElsewhere => RecordsInv'
  <1> SUFFICES ASSUME RecordsInv, ReloadElsewhere PROVE RecordsInv'
    OBVIOUS
  <1> DEFINE run == Call("reload", 0, "view")
  <1>1. /\ ui \in UiSet /\ runs \in [Runs -> Lines] /\ \A q \in Runs : CallFine(ui, runs[q])
        /\ 0 \in 0 .. NItems
    BY NItemsAssumption DEF RecordsInv, DialogFine
  <1>2. /\ run \in Lines /\ run.kind = "reload" /\ ~ run.own /\ ~ run.sent /\ ~ run.evict
    <2>1. "reload" \in Awaited \cup {"reload"} /\ "view" \in Modes
      BY DEF Modes
    <2> QED BY <1>1, <2>1, CallIs
  <1>3. ui' = ui /\ srv' = srv /\ props' = props /\ Begin(run)
    BY DEF ReloadElsewhere
  <1> HIDE DEF run
  <1>4. PICK r \in Runs : BeginIs(r, run)
    BY <1>1, <1>2, <1>3, Beginning
  <1>5. CallFine(ui, run)
    BY <1>2 DEF CallFine
  <1>6. \A q \in Runs : CallFine(ui', runs'[q])
    BY <1>1, <1>3, <1>4, <1>5 DEF BeginIs
  <1>7. FetchesKnown' /\ LateSave'
    BY <1>2, <1>3, <1>4
       DEF RecordsInv, FetchesKnown, LateSave, OwnFetch, BeginIs, Habits
  <1>8. OneSave'
    BY <1>2, <1>3, <1>4 DEF RecordsInv, OneSave, BeginIs
  <1>9. Patience'
    <2> SUFFICES ASSUME ~ ui.hasty PROVE PatientFetch' /\ PatientSave' /\ PatientRemoval'
      BY <1>3 DEF Patience
    <2>1. PatientFetch /\ PatientSave /\ PatientRemoval
      BY DEF RecordsInv, Patience
    <2>2. Habits' = Habits
      BY <1>3 DEF Habits
    <2>3. PatientFetch'
      BY <1>2, <1>3, <1>4, <2>1, <2>2 DEF PatientFetch, BeginIs
    <2>4. PatientSave'
      BY <1>2, <1>3, <1>4, <2>1 DEF PatientSave, Closing, BeginIs
    <2>5. PatientRemoval'
      BY <1>2, <1>3, <1>4, <2>1 DEF PatientRemoval, Closing, BeginIs
    <2> QED BY <2>3, <2>4, <2>5
  <1> QED BY <1>3, <1>4, <1>6, <1>7, <1>8, <1>9 DEF RecordsInv, NoCrossWrite, BeginIs

LEMMA ElsewhereKeeps == RecordsInv /\ Elsewhere => RecordsInv'
  <1> SUFFICES ASSUME RecordsInv, Elsewhere PROVE RecordsInv'
    OBVIOUS
  <1>1. /\ srv \in [rec : [Items -> States], from : [Items -> 0 .. NItems]]
        /\ ui.page \in Pages /\ runs' = runs /\ ui' = ui /\ props' = props
    BY DEF RecordsInv, DialogFine, UiSet, Elsewhere
  <1>2. Habits.removed \in States
    BY <1>1, PageFacts DEF Habits
  <1>3. PICK i \in Items :
           /\ srv.rec[i] # "absent"
           /\ srv' = [srv EXCEPT !.rec[i] = Habits.removed,
                                 !.from[i] = IF Habits.removed = "absent" THEN i ELSE @]
    BY DEF Elsewhere
  <1> DEFINE owner == IF Habits.removed = "absent" THEN i ELSE srv.from[i]
             rec == [srv.rec EXCEPT ![i] = Habits.removed]
             from == [srv.from EXCEPT ![i] = owner]
  <1>4. srv' = [rec |-> rec, from |-> from]
    BY <1>1, <1>3
  <1>5. owner \in 0 .. NItems /\ (srv.from[i] = i => owner = i)
    BY <1>1, NItemsAssumption DEF Items
  <1>6. rec \in [Items -> States] /\ from \in [Items -> 0 .. NItems]
    BY <1>1, <1>2, <1>5
  <1>7. \A j \in Items : /\ rec[j] # "absent" => srv.rec[j] # "absent"
                         /\ from[j] = IF j = i THEN owner ELSE srv.from[j]
    BY <1>1, <1>3
  <1> HIDE DEF rec, from, owner
  <1>8. srv' \in [rec : [Items -> States], from : [Items -> 0 .. NItems]] /\ NoCrossWrite'
    BY <1>4, <1>5, <1>6, <1>7 DEF RecordsInv, NoCrossWrite
  <1>9. FetchesKnown' /\ OneSave' /\ LateSave' /\ Patience'
    BY <1>1 DEF RecordsInv, FetchesKnown, OneSave, LateSave, Patience, PatientFetch,
                PatientSave, PatientRemoval, Habits
  <1> QED BY <1>1, <1>8, <1>9 DEF RecordsInv

-----------------------------------------------------------------------------
(* The steps of the pages, and what they keep *)

LEMMA RecordsInit == Init => RecordsInv
  <1> SUFFICES ASSUME Init PROVE RecordsInv
    OBVIOUS
  <1>1. PICK rec \in [Items -> {"absent", "live"}] :
           /\ srv = [rec |-> rec, from |-> [i \in Items |-> i]]
           /\ props = rec
           /\ \E p \in Pages, h \in BOOLEAN :
               ui = [page |-> p, hasty |-> h, list |-> rec, dialog |-> "none", asked |-> 0,
                     on |-> 0, of |-> 0, typed |-> FALSE, saving |-> FALSE,
                     loading |-> FALSE, pending |-> 0, removing |-> 0]
    BY DEF Init
  <1>2. PICK p \in Pages, h \in BOOLEAN :
           ui = [page |-> p, hasty |-> h, list |-> rec, dialog |-> "none", asked |-> 0,
                 on |-> 0, of |-> 0, typed |-> FALSE, saving |-> FALSE,
                 loading |-> FALSE, pending |-> 0, removing |-> 0]
    BY <1>1
  <1>3. rec \in [Items -> States] /\ 0 \in 0 .. NItems /\ \A i \in Items : i \in 0 .. NItems
    BY NItemsAssumption DEF States, Items
  <1>4. ui \in UiSet /\ ui.page = p /\ ui.dialog = "none" /\ ~ ui.typed /\ ui.of = ui.on
        /\ ui.pending = 0
    BY <1>2, <1>3 DEF UiSet
  <1>5. runs \in [Runs -> Lines] /\ \A r \in Runs : runs[r] = Idle
    BY DEF Init, Lines
  <1>6. \A r \in Runs : runs[r].kind = "idle"
    BY <1>5 DEF Idle
  <1>7. srv \in [rec : [Items -> States], from : [Items -> 0 .. NItems]] /\ NoCrossWrite
    BY <1>1, <1>3 DEF NoCrossWrite
  <1>8. DialogFine(ui) /\ \A r \in Runs : CallFine(ui, runs[r])
    BY <1>4, <1>5 DEF DialogFine, CallFine
  <1>9. FetchesKnown /\ OneSave /\ LateSave
    BY <1>6 DEF FetchesKnown, OneSave, LateSave, OwnFetch
  <1>10. Patience
    BY <1>4, <1>6 DEF Patience, PatientFetch, PatientSave, PatientRemoval, Closing
  <1> QED BY <1>1, <1>3, <1>5, <1>7, <1>8, <1>9, <1>10 DEF RecordsInv

LEMMA RecordsNext == RecordsInv /\ [Next]_vars => RecordsInv'
  <1> SUFFICES ASSUME RecordsInv, [Next]_vars PROVE RecordsInv'
    OBVIOUS
  <1>1. CASE Agent
    BY <1>1, AddKeeps, EditViewedKeeps, TypeKeeps, DismissKeeps, SubmitKeeps, KeepItKeeps,
       RemoveItKeeps, AskKeeps, RestoreKeeps, OpenKeeps DEF Agent
  <1>2. CASE \E r \in Runs : Answer(r)
    BY <1>2, FetchedKeeps, SavedKeeps, RefusedKeeps, RemovedKeeps, RestoredKeeps,
       ReloadedKeeps DEF Answer
  <1>3. CASE UNCHANGED vars
    BY <1>3 DEF vars, RecordsInv, NoCrossWrite, FetchesKnown, OneSave, LateSave, Patience,
                PatientFetch, PatientSave, PatientRemoval, Habits
  <1> QED BY <1>1, <1>2, <1>3, ElsewhereKeeps, ReloadElsewhereKeeps DEF Next

\* At most one save is in flight, where the page keeps the flag or the agent waits.
LEMMA RecordsSaveOnce == RecordsInv => SavesOnce
  <1> SUFFICES ASSUME RecordsInv, ~ ui.hasty \/ (\A m \in Modes : ~ Dialog(ui.page, m).owns)
               PROVE  Cardinality(Flying("save")) <= 1
    BY DEF SavesOnce
  <1>1. ~ ui.hasty \/ ~ Owner(ui.page)
    BY DEF Owner, Modes
  <1>2. \A q, r \in Flying("save") : q = r
    BY <1>1 DEF RecordsInv, OneSave, Flying
  <1>3. CASE Flying("save") = {}
    <2>1. Cardinality(Flying("save")) = 0
      BY <1>3, FS_EmptySet
    <2> QED BY <2>1
  <1>4. CASE Flying("save") # {}
    <2>1. PICK r : Flying("save") = {r}
      BY <1>2, <1>4
    <2>2. Cardinality({r}) = 1
      BY FS_Singleton
    <2> QED BY <2>1, <2>2
  <1> QED BY <1>3, <1>4

LEMMA RecordsShown == RecordsInv => ShownIsAsked
  BY DEF RecordsInv, DialogFine, ShownIsAsked, Habits

\* No row of the team or of the passengers offers what is not an edit.
LEMMA InlineRows ==
    ASSUME RecordsInv, NEW i \in Items, NEW m \in {"view", "edit", "place"}, Open(i, m),
           m # "edit"
    PROVE  ui.dialog = "none"
  <1> SUFFICES ASSUME ui.dialog = m, Box.inline PROVE FALSE
    BY DEF Open
  <1>1. ui.page \in Pages
    BY DEF RecordsInv, DialogFine, UiSet
  <1>2. ui.page = "team"
    BY <1>1, DialogFacts DEF Box
  <1>3. m \in TeamRow(i)
    BY <1>2 DEF Open, Row
  <1> QED BY <1>3 DEF TeamRow

\* What the agent typed is lost by an answer only if the agent sent it, or removed the record.
AgentsOwn(r) ==
    /\ runs'[r] # runs[r]
    /\ \/ runs[r].kind = "save" /\ runs[r].own
       \/ runs[r].kind = "remove" /\ runs[r].item = ui.on

Lost == ui.typed /\ ~ ui'.typed /\ (ui.hasty => ui.page \in Sheltered)

LEMMA FetchedKeepsText == ASSUME RecordsInv, NEW r \in Runs, Fetched(r) PROVE ~ Lost
  <1> SUFFICES ASSUME Lost PROVE FALSE
    OBVIOUS
  <1>1. /\ ui.page \in Pages /\ CallFine(ui, runs[r]) /\ runs[r].kind = "fetch"
        /\ Deaf(runs[r]) => ui' = ui
    BY FetchedUi DEF Fetched, RecordsInv, DialogFine, UiSet
  <1>2. CASE ~ ui.hasty
    BY <1>1, <1>2 DEF Lost, RecordsInv, Patience, PatientFetch
  <1>3. CASE ui.page \in Sheltered
    <2>1. Habits.drops
      BY <1>1, <1>3, PageFacts DEF CallFine, Habits, Idle
    <2> QED BY <1>1, <2>1 DEF Deaf, Lost, RecordsInv, FetchesKnown, OwnFetch
  <1> QED BY <1>2, <1>3 DEF Lost

LEMMA SavedKeepsText == ASSUME RecordsInv, NEW r \in Runs, Saved(r), Lost PROVE AgentsOwn(r)
  <1>1. runs[r].kind = "save" /\ ~ runs[r].sent /\ Settled(r) /\ ui.page \in Pages
    BY DEF Saved, RecordsInv, DialogFine, UiSet
  <1>2. runs[r].own
    BY <1>1 DEF Lost, RecordsInv, LateSave, Patience, PatientSave, Closing
  <1>3. CASE \E run : SettledFine(r, run)
    <2>1. PICK run : SettledFine(r, run)
      BY <1>3
    <2>2. /\ Lasts(runs'[r], run) /\ run.kind \in {"idle", "save", "reload"}
          /\ run.kind = "save" => run.sent
      BY <2>1 DEF SettledFine, BecomesIs
    <2>3. runs'[r].kind # "save" \/ runs'[r].sent
      BY <2>2 DEF Lasts, Idle
    <2> QED BY <1>1, <1>2, <2>3 DEF AgentsOwn
  <1>4. CASE /\ After(ui.page, runs[r].mode) = "stays" /\ runs[r].mode = "edit"
             /\ ui.dialog \in {"view", "edit"}
    <2>1. runs' = [Disowned(runs) EXCEPT ![r] = Call("fetch", ui.asked, "view")]
      BY <1>1, <1>4 DEF Settled
    <2>2. r \in DOMAIN Disowned(runs)
      BY DEF Disowned
    <2>3. runs'[r].kind = "fetch"
      BY <2>1, <2>2 DEF Call
    <2> QED BY <1>1, <1>2, <2>3 DEF AgentsOwn
  <1> QED BY <1>1, <1>3, <1>4, SettledReloads, SettledCloses, SettledLeaves

LEMMA RefusedKeepsText == ASSUME RecordsInv, NEW r \in Runs, Refused(r) PROVE ~ Lost
  <1> DEFINE v == Released(ui, runs[r])
             list == IF ui.page = "cruises" /\ runs[r].kind # "save" THEN runs[r].list ELSE v.list
  <1>1. ui \in UiSet /\ runs[r] \in RunSet
    BY DEF RecordsInv, DialogFine, Refused, Lines, Idle
  <1>2. v \in UiSet /\ v.typed = ui.typed /\ ui' = [v EXCEPT !.list = list]
    BY <1>1, ReleasedIs DEF Refused
  <1> HIDE DEF v, list
  <1>3. ui'.typed = v.typed
    BY <1>2 DEF UiSet
  <1> QED BY <1>2, <1>3 DEF Lost

LEMMA RemovedKeepsText == ASSUME RecordsInv, NEW r \in Runs, Removed(r), Lost PROVE AgentsOwn(r)
  <1>1. /\ ui \in UiSet /\ ui.page \in Pages /\ CallFine(ui, runs[r]) /\ runs \in [Runs -> Lines]
        /\ runs[r].kind = "remove" /\ ~ runs[r].sent
    BY DEF Removed, RecordsInv, DialogFine, UiSet
  <1>2. runs[r] \in RunSet /\ runs[r] # Idle
    BY <1>1 DEF Lines, Idle
  <1>3. runs[r].evict
    <2>1. ASSUME ~ runs[r].evict PROVE FALSE
      <3>1. ui' = [ui EXCEPT !.pending = 0]
        BY <2>1 DEF Removed
      <3> QED BY <1>1, <3>1 DEF UiSet, Lost
    <2> QED BY <2>1
  <1>4. ~ ui.hasty
    BY <1>1, <1>2, <1>3, PageFacts DEF CallFine, Lost
  <1>5. runs[r].item = ui.on
    BY <1>1, <1>3, <1>4 DEF RecordsInv, Patience, PatientRemoval, Lost
  <1>6. Becomes(r, Awaits(runs[r])) /\ Awaits(runs[r]) \in Lines /\ Awaits(runs[r]).sent
        /\ Awaits(runs[r]) # Idle
    BY <1>2, AwaitsIs DEF Removed, Idle, Awaited, RunSet
  <1>7. runs'[r].sent
    BY <1>1, <1>6, Becoming DEF BecomesIs, Lasts
  <1> QED BY <1>1, <1>5, <1>7 DEF AgentsOwn

LEMMA ReloadedKeepsText == ASSUME RecordsInv, NEW r \in Runs, Reloaded(r), Lost PROVE AgentsOwn(r)
  <1>1. ui.page \in Pages /\ runs \in [Runs -> Lines] /\ runs[r] # Idle
    BY DEF RecordsInv, DialogFine, UiSet, Reloaded
  <1>2. Closing(ui.page, runs[r]) /\ After(ui.page, runs[r].mode) = "reloads"
    BY ReloadedUi DEF Lost
  <1>3. ~ ui.hasty
    BY <1>1, <1>2, AfterFacts DEF Lost
  <1>4. runs[r].kind = "save" /\ runs[r].own
    BY <1>2, <1>3 DEF RecordsInv, Patience, PatientSave, Closing
  <1>5. Idle \in Lines
    BY DEF Lines
  <1>6. runs'[r] = Idle
    BY <1>1, <1>5, Becoming DEF Reloaded, Done, BecomesIs, Lasts
  <1> QED BY <1>1, <1>4, <1>6 DEF AgentsOwn

LEMMA RecordsKeepText == RecordsInv /\ [Next]_vars => KeepsTyped
  <1> SUFFICES ASSUME RecordsInv, [Next]_vars, Lost
               PROVE  \/ Dismiss
                      \/ \E i \in Items : Open(i, "edit")
                      \/ \E r \in Runs : AgentsOwn(r)
    BY DEF KeepsTyped, Lost, AgentsOwn
  <1>1. ui \in UiSet /\ ui.dialog # "none" /\ 0 \in 0 .. NItems
    BY NItemsAssumption DEF RecordsInv, DialogFine, Lost
  <1>2. ~ Add
    BY <1>1 DEF Add
  <1>3. ~ EditViewed
    BY DEF EditViewed, RecordsInv, DialogFine, Lost
  <1>4. ~ Type /\ ~ Submit /\ ~ KeepIt
    BY <1>1 DEF Type, Submit, KeepIt, UiSet, Lost
  <1>5. ~ RemoveIt
    <2> SUFFICES ASSUME RemoveIt PROVE FALSE
      OBVIOUS
    <2>1. ui.pending \in Items /\ Habits.removed \in States
      BY <1>1, NItemsAssumption, PageFacts DEF RemoveIt, UiSet, Items, Habits
    <2> QED BY <1>1, <2>1, DecidedIs DEF RemoveIt, Lost
  <1>6. \A i \in Items : ~ Ask(i)
    BY <1>1 DEF Ask, UiSet, Lost
  <1>7. \A i \in Items : ~ Restore(i)
    <2>1. "kept" \in States
      BY DEF States
    <2> QED BY <1>1, <2>1, DecidedIs DEF Restore, Lost
  <1>8. \A i \in Items, m \in {"view", "edit", "place"} : Open(i, m) => m = "edit"
    BY <1>1, InlineRows
  <1>9. CASE Agent
    BY <1>2, <1>3, <1>4, <1>5, <1>6, <1>7, <1>8, <1>9 DEF Agent
  <1>10. CASE \E r \in Runs : Answer(r)
    <2>1. \A r \in Runs : ~ Restored(r)
      BY DEF Restored, Lost
    <2> QED BY <1>10, <2>1, FetchedKeepsText, SavedKeepsText, RefusedKeepsText,
               RemovedKeepsText, ReloadedKeepsText DEF Answer
  <1>11. ~ Elsewhere /\ ~ ReloadElsewhere /\ ~ UNCHANGED vars
    BY DEF Elsewhere, ReloadElsewhere, vars, Lost
  <1> QED BY <1>9, <1>10, <1>11 DEF Next

-----------------------------------------------------------------------------
(* The invariant of the lists *)

\* What the proofs use of a list: what guards its calls goes with how it asks.
LEMMA KindFacts ==
    ASSUME NEW k \in L!Kinds
    PROVE  /\ L!HabitsOf(k).caches =>
                /\ L!HabitsOf(k).locks /\ L!HabitsOf(k).blank = "asks"
           /\ L!HabitsOf(k).locks =>
                /\ L!HabitsOf(k).guard = "none" /\ ~ L!HabitsOf(k).pages
                /\ ~ L!HabitsOf(k).delay /\ ~ L!HabitsOf(k).opens /\ ~ L!HabitsOf(k).clamps
           /\ L!HabitsOf(k).opens => ~ L!HabitsOf(k).pages /\ ~ L!HabitsOf(k).clamps
           /\ L!HabitsOf(k).guard # "none" /\ L!HabitsOf(k).pages => L!HabitsOf(k).clamps
           /\ L!HabitsOf(k).blank = "clears" =>
                L!HabitsOf(k).guard # "none" \/ k = "ledger" \/ k = "copilot"
           /\ L!HabitsOf(k).blank \in {"asks", "clears"}
           /\ k = "dashboard" => /\ L!HabitsOf(k).guard # "none" /\ L!HabitsOf(k).pages
                                 /\ L!HabitsOf(k).blank = "asks"
           /\ k \in {"dashboard", "clients", "closed", "financial", "diagnostic", "copilot"} =>
                ~ L!HabitsOf(k).opens
           /\ k = "copilot" => ~ L!HabitsOf(k).delay
           /\ k \in {"clients", "closed", "financial", "diagnostic"} =>
                /\ L!HabitsOf(k).guard = "none" /\ ~ L!HabitsOf(k).locks
                /\ L!HabitsOf(k).blank = "asks"
           /\ k = "ledger" => /\ L!HabitsOf(k).guard = "none" /\ ~ L!HabitsOf(k).locks
                              /\ ~ L!HabitsOf(k).delay
           /\ k \in {"passengers", "client"} => L!HabitsOf(k).blank = "clears"
  <1> USE DEF L!HabitsOf, L!List
  <1>1. CASE k = "dashboard"
    BY <1>1 DEF L!Dashboard
  <1>2. CASE k = "clients"
    BY <1>2 DEF L!ClientsList
  <1>3. CASE k = "closed"
    BY <1>3 DEF L!ClosedRequests
  <1>4. CASE k = "financial"
    BY <1>4 DEF L!FinancialReport
  <1>5. CASE k = "diagnostic"
    BY <1>5 DEF L!DiagnosticReport, L!FinancialReport
  <1>6. CASE k = "groups"
    BY <1>6 DEF L!GroupPicker
  <1>7. CASE k = "passengers"
    BY <1>7 DEF L!PassengerSearch, L!GroupPicker
  <1>8. CASE k = "client"
    BY <1>8 DEF L!ClientSearch, L!PassengerSearch, L!GroupPicker
  <1>9. CASE k = "history"
    BY <1>9 DEF L!ChangeHistory, L!ClientSearch, L!PassengerSearch, L!GroupPicker
  <1>10. CASE k = "ledger"
    BY <1>10 DEF L!LedgerDialog, L!PassengerSearch, L!GroupPicker
  <1>11. CASE k = "copilot"
    BY <1>11 DEF L!Copilot
  <1>12. CASE k = "metrics"
    BY <1>12 DEF L!KeyMetrics, L!Copilot
  <1> QED BY <1>1, <1>2, <1>3, <1>4, <1>5, <1>6, <1>7, <1>8, <1>9, <1>10, <1>11, <1>12
          DEF L!Kinds

ViewSet ==
    [kind : L!Kinds, open : BOOLEAN, input : L!Queries, query : L!Queries,
     page : 1 .. MaxRows, timer : BOOLEAN, loading : BOOLEAN, error : BOOLEAN,
     shown : L!Answers, cached : SUBSET L!Queries]

Loads ==
    [kind : {"load", "reopen", "export"}, q : L!Queries, page : 1 .. MaxRows, own : BOOLEAN]

\* A call whose answer will be heard.
Live(h, c) == c.kind = "load" /\ (c.own \/ h.guard = "none")

\* The answer on screen is to what the controls ask, on a page it has.
Matches ==
    /\ view.shown.q = view.query
    /\ L!Habits.pages =>
          view.shown.page = view.page /\ (view.shown.n > 0 => view.page <= view.shown.n)

\* A dialog that is closed has no query and no timer; only the closed requests reopen one.
ViewFine ==
    /\ view \in ViewSet
    /\ view.timer => view.open /\ L!Habits.delay
    /\ ~ view.open => /\ L!Habits.opens /\ view.query = 0
                      /\ L!Searches => ~ view.loading
    /\ ~ L!Habits.caches => view.cached = {}
    /\ view.kind \in {"passengers", "client"} /\ ~ view.shown.ok => view.error \/ view.loading

\* The spinner of a list ends when a call is answered; a search field asks when its timer fires.
SpinnerEnds ==
    view.open /\ view.loading =>
        (view.timer /\ L!Searches) \/ \E r \in L!Calls : Live(L!Habits, calls[r])

\* A list that guards its calls hears one at most, the one for what its controls ask.
OneLive ==
    L!Guarded =>
      /\ \A r \in L!Calls : Live(L!Habits, calls[r]) =>
            /\ view.open /\ view.loading
            /\ calls[r].q = view.query /\ calls[r].page = view.page
      /\ \A q, r \in L!Calls : Live(L!Habits, calls[q]) /\ Live(L!Habits, calls[r]) => q = r

AtRest ==
    /\ view.open /\ ~ view.loading /\ ~ view.error /\ ~ (view.timer /\ L!Searches)
    /\ view.query # 0 \/ L!Habits.blank = "asks"

ListInv ==
    /\ rows \in [L!Queries -> 0 .. MaxRows]
    /\ ViewFine
    /\ calls \in [L!Calls -> {L!Idle} \cup Loads]
    /\ \A r \in L!Calls : calls[r].kind = "reopen" => view.kind = "closed"
    /\ SpinnerEnds /\ OneLive
    /\ L!Guarded /\ AtRest => Matches

-----------------------------------------------------------------------------
(* The steps of the lists *)

LEMMA ListFacts ==
    ASSUME ListInv
    PROVE  /\ view \in ViewSet /\ view.kind \in L!Kinds
           /\ calls \in [L!Calls -> {L!Idle} \cup Loads]
           /\ L!Idle.kind = "idle" /\ L!Habits = L!HabitsOf(view.kind)
           /\ 0 \in L!Queries /\ 1 \in 1 .. MaxRows /\ L!Nothing \in L!Answers
  <1>1. 0 \in L!Queries /\ 1 \in 1 .. MaxRows /\ 0 \in 0 .. MaxRows
    BY ListSizesAssumption DEF L!Queries
  <1>2. L!Nothing \in L!Answers
    BY <1>1 DEF L!Nothing, L!Answers
  <1> QED BY <1>1, <1>2 DEF ListInv, ViewFine, ViewSet, L!Idle, L!Habits

\* A guarded list hears nothing of what it began; another one hears all of it.
LEMMA CancelledIs ==
    ASSUME ListInv
    PROVE  /\ L!Cancelled \in [L!Calls -> {L!Idle} \cup Loads]
           /\ \A r \in L!Calls :
                /\ L!Cancelled[r].kind = calls[r].kind
                /\ L!Habits.guard = "none" => L!Cancelled[r] = calls[r]
                /\ L!Habits.guard # "none" => ~ Live(L!Habits, L!Cancelled[r])
  <1>1. SUFFICES ASSUME NEW r \in L!Calls
                 PROVE  /\ L!Cancelled[r] \in {L!Idle} \cup Loads
                        /\ L!Cancelled[r].kind = calls[r].kind
                        /\ L!Habits.guard = "none" => L!Cancelled[r] = calls[r]
                        /\ L!Habits.guard # "none" => ~ Live(L!Habits, L!Cancelled[r])
    BY DEF L!Cancelled
  <1>2. L!Cancelled[r] = IF calls[r].kind = "load" /\ L!Habits.guard # "none"
                           THEN [calls[r] EXCEPT !.own = FALSE] ELSE calls[r]
    BY DEF L!Cancelled
  <1>3. calls[r] \in {L!Idle} \cup Loads /\ L!Idle.kind = "idle"
    BY ListFacts
  <1>4. CASE calls[r].kind = "load" /\ L!Habits.guard # "none"
    <2>1. calls[r] \in Loads
      BY <1>3, <1>4
    <2> QED BY <1>2, <1>4, <2>1 DEF Loads, Live, L!Heard
  <1>5. CASE ~ (calls[r].kind = "load" /\ L!Habits.guard # "none")
    BY <1>2, <1>3, <1>5 DEF Live
  <1> QED BY <1>4, <1>5

\* Asking leaves one call that is heard, for what the controls ask by then.
LEMMA AskedKeeps ==
    ASSUME ListInv, NEW v \in ViewSet, v.kind = view.kind, v.open, v.timer => L!Habits.delay,
           v.cached = view.cached, L!Habits.locks => ~ view.loading, rows' = rows,
           NEW r \in L!Calls, calls' = [L!Cancelled EXCEPT ![r] = L!Call("load", v)],
           view' = L!Loads(v)
    PROVE  ListInv'
  <1>1. view' = [v EXCEPT !.loading = TRUE, !.error = FALSE]
    BY DEF L!Loads
  <1>2. /\ view' \in ViewSet /\ view'.kind = view.kind /\ view'.open /\ view'.loading
        /\ view'.query = v.query /\ view'.page = v.page /\ view'.timer = v.timer
        /\ view'.cached = view.cached
    BY <1>1 DEF ViewSet
  <1>3. L!Habits' = L!Habits
    BY <1>2 DEF L!Habits
  <1> DEFINE call == L!Call("load", v)
  <1>4. /\ call \in Loads /\ call.kind = "load" /\ call.own /\ call.q = v.query
        /\ call.page = v.page
    BY DEF L!Call, Loads, ViewSet
  <1>5. /\ calls' \in [L!Calls -> {L!Idle} \cup Loads]
        /\ calls'[r] = call
        /\ \A q \in L!Calls \ {r} : calls'[q] = L!Cancelled[q]
    <2> HIDE DEF call
    <2>1. calls' = [L!Cancelled EXCEPT ![r] = call]
      BY <1>1 DEF call
    <2> QED BY <1>4, <2>1, CancelledIs
  <1> HIDE DEF call
  <1>6. ViewFine'
    BY <1>2, <1>3 DEF ListInv, ViewFine
  <1>7. \A q \in L!Calls : calls'[q].kind = "reopen" => view'.kind = "closed"
    BY <1>2, <1>4, <1>5, CancelledIs DEF ListInv
  <1>8. Live(L!Habits, call)
    BY <1>4 DEF Live
  <1>9. SpinnerEnds'
    BY <1>3, <1>5, <1>8 DEF SpinnerEnds
  <1>10. \A q \in L!Calls \ {r} : L!Guarded => ~ Live(L!Habits, calls[q]) \/ L!Habits.guard # "none"
    BY DEF ListInv, OneLive, L!Guarded
  <1>11. \A q \in L!Calls \ {r} : L!Guarded => ~ Live(L!Habits, calls'[q])
    BY <1>5, <1>10, CancelledIs
  <1>12. OneLive'
    BY <1>2, <1>3, <1>4, <1>5, <1>11 DEF OneLive, L!Guarded
  <1> QED BY <1>2, <1>5, <1>6, <1>7, <1>9, <1>12 DEF ListInv, AtRest

LEMMA AskingKeeps ==
    ASSUME ListInv, NEW v \in ViewSet, v.kind = view.kind, v.open, v.timer => L!Habits.delay,
           v.cached = view.cached, L!Habits.locks => ~ view.loading, L!Ask(v), rows' = rows
    PROVE  ListInv'
  <1> PICK r \in L!Calls :
         calls' = [L!Cancelled EXCEPT ![r] = L!Call("load", v)] /\ view' = L!Loads(v)
    BY DEF L!Ask, L!Free
  <1> QED BY AskedKeeps

LEMMA ListTypeKeeps == ASSUME ListInv, NEW i \in L!Queries, L!Type(i) PROVE ListInv'
  <1> DEFINE v == [view EXCEPT !.input = i]
             asked == [v EXCEPT !.query = i, !.page = 1]
             emptied == i = 0 /\ L!Habits.blank = "clears"
  <1>1. /\ view \in ViewSet /\ view.kind \in L!Kinds /\ view.open /\ rows' = rows
        /\ view.kind # "ledger" /\ (L!Habits.locks => ~ view.loading)
        /\ view.kind = "copilot" => i # 0
        /\ calls \in [L!Calls -> {L!Idle} \cup Loads]
        /\ L!Habits = L!HabitsOf(view.kind) /\ 1 \in 1 .. MaxRows /\ 0 \in L!Queries
    BY ListFacts DEF L!Type
  <1>2. /\ asked \in ViewSet /\ asked.kind = view.kind /\ asked.open = view.open
        /\ asked.timer = view.timer /\ asked.loading = view.loading
        /\ asked.error = view.error /\ asked.shown = view.shown
        /\ asked.cached = view.cached /\ asked.query = i /\ asked.page = 1
    BY <1>1 DEF ViewSet
  <1>3. v \in ViewSet /\ v.kind = view.kind /\ v.open = view.open /\ v.query = view.query
        /\ v.page = view.page /\ v.loading = view.loading
        /\ v.error = view.error /\ v.shown = view.shown /\ v.cached = view.cached
    BY <1>1 DEF ViewSet
  <1>4. \/ emptied /\ view' = L!Cleared(asked) /\ calls' = L!Cancelled
        \/ ~ emptied /\ L!Searches /\ view' = [asked EXCEPT !.timer = TRUE]
           /\ calls' = L!Cancelled
        \/ L!Habits.delay /\ ~ L!Searches /\ view' = [v EXCEPT !.timer = TRUE]
           /\ calls' = calls
        \/ i \in view.cached /\ view' = L!Answered(asked, i) /\ calls' = calls
        \/ L!Ask(asked)
    BY DEF L!Type
  <1> HIDE DEF v, asked
  <1>5. CASE emptied /\ view' = L!Cleared(asked) /\ calls' = L!Cancelled
    <2>1. /\ view' \in ViewSet /\ view'.kind = view.kind /\ view'.open /\ ~ view'.timer
          /\ ~ view'.error /\ ~ view'.loading /\ view'.query = 0 /\ view'.shown = L!Nothing
          /\ view'.cached = view.cached
      BY <1>1, <1>2, <1>5, ListFacts DEF L!Cleared, ViewSet
    <2>2. L!Habits' = L!Habits /\ L!Habits.guard # "none"
      BY <1>1, <1>5, <2>1, KindFacts DEF L!Habits
    <2>3. \A r \in L!Calls : ~ Live(L!Habits, calls'[r])
      BY <1>5, <2>2, CancelledIs
    <2>4. ViewFine'
      BY <2>1, <2>2 DEF ListInv, ViewFine, L!Nothing
    <2> QED BY <1>1, <1>5, <2>1, <2>2, <2>3, <2>4, CancelledIs
            DEF ListInv, SpinnerEnds, OneLive, AtRest
  <1>6. CASE ~ emptied /\ L!Searches /\ view' = [asked EXCEPT !.timer = TRUE]
             /\ calls' = L!Cancelled
    <2>1. /\ view' \in ViewSet /\ view'.kind = view.kind /\ view'.open /\ view'.timer
          /\ view'.error = view.error /\ view'.loading = view.loading
          /\ view'.shown = view.shown /\ view'.cached = view.cached
      BY <1>1, <1>2, <1>6 DEF ViewSet
    <2>2. L!Habits' = L!Habits /\ L!Habits.guard # "none" /\ L!Searches'
      BY <1>1, <1>6, <2>1, KindFacts DEF L!Habits, L!Searches
    <2>3. \A r \in L!Calls : ~ Live(L!Habits, calls'[r])
      BY <1>6, <2>2, CancelledIs
    <2>4. ViewFine'
      BY <1>6, <2>1, <2>2 DEF ListInv, ViewFine, L!Searches
    <2> QED BY <1>1, <1>6, <2>1, <2>2, <2>3, <2>4, CancelledIs
            DEF ListInv, SpinnerEnds, OneLive, AtRest
  <1>7. CASE L!Habits.delay /\ ~ L!Searches /\ view' = [v EXCEPT !.timer = TRUE]
             /\ calls' = calls
    <2>1. /\ view' \in ViewSet /\ view'.kind = view.kind /\ view'.open /\ view'.timer
          /\ view'.error = view.error /\ view'.loading = view.loading
          /\ view'.shown = view.shown /\ view'.cached = view.cached
          /\ view'.query = view.query /\ view'.page = view.page
      BY <1>1, <1>3, <1>7 DEF ViewSet
    <2>2. L!Habits' = L!Habits /\ ~ L!Searches' /\ (L!Guarded' <=> L!Guarded)
      BY <1>7, <2>1 DEF L!Habits, L!Searches, L!Guarded
    <2>3. ViewFine'
      BY <1>7, <2>1, <2>2 DEF ListInv, ViewFine, L!Searches
    <2>4. SpinnerEnds' /\ OneLive'
      BY <1>1, <1>7, <2>1, <2>2 DEF ListInv, SpinnerEnds, OneLive
    <2>5. L!Guarded' /\ AtRest' => Matches'
      BY <1>1, <1>7, <2>1, <2>2 DEF ListInv, AtRest, Matches
    <2> QED BY <1>1, <1>7, <2>1, <2>3, <2>4, <2>5 DEF ListInv
  <1>8. CASE i \in view.cached /\ view' = L!Answered(asked, i) /\ calls' = calls
    <2>1. L!Habits.caches /\ L!Habits.locks /\ ~ L!Habits.pages /\ ~ L!Habits.delay
      BY <1>1, <1>8, KindFacts DEF ListInv, ViewFine
    <2> DEFINE answer == [q |-> i, page |-> asked.page, n |-> 1, ok |-> TRUE]
    <2>2. answer \in L!Answers /\ answer.q = i /\ answer.ok
      BY <1>2, ListSizesAssumption DEF L!Answers
    <2>3. view' = [asked EXCEPT !.shown = answer]
      BY <1>8 DEF L!Answered
    <2> HIDE DEF answer
    <2>4. /\ view' \in ViewSet /\ view'.kind = view.kind /\ view'.open
          /\ view'.timer = view.timer /\ view'.loading = view.loading
          /\ view'.cached = view.cached /\ view'.query = i /\ view'.shown = answer
      BY <1>1, <1>2, <2>2, <2>3 DEF ViewSet
    <2>5. L!Habits' = L!Habits /\ L!Guarded
      BY <2>1, <2>4 DEF L!Habits, L!Guarded
    <2>6. \A r \in L!Calls : ~ Live(L!Habits, calls[r])
      BY <1>1, <2>1, <2>5 DEF ListInv, OneLive
    <2>7. ViewFine'
      BY <2>2, <2>4, <2>5 DEF ListInv, ViewFine
    <2>8. Matches'
      BY <2>1, <2>2, <2>4, <2>5 DEF Matches
    <2>9. SpinnerEnds' /\ OneLive'
      BY <1>1, <1>8, <2>1, <2>4, <2>5, <2>6 DEF SpinnerEnds, OneLive
    <2> QED BY <1>1, <1>8, <2>4, <2>7, <2>8, <2>9 DEF ListInv
  <1>9. CASE L!Ask(asked)
    <2>1. view.timer => L!Habits.delay
      BY DEF ListInv, ViewFine
    <2> QED BY <1>1, <1>2, <1>9, <2>1, AskingKeeps
  <1> QED BY <1>4, <1>5, <1>6, <1>7, <1>8, <1>9

LEMMA TimerFiresKeeps == ASSUME ListInv, L!TimerFires PROVE ListInv'
  <1> DEFINE v == [view EXCEPT !.timer = FALSE]
             asked == [v EXCEPT !.query = view.input, !.page = 1]
  <1>1. /\ view \in ViewSet /\ view.kind \in L!Kinds /\ rows' = rows /\ view.timer
        /\ calls \in [L!Calls -> {L!Idle} \cup Loads]
        /\ L!Habits = L!HabitsOf(view.kind) /\ 1 \in 1 .. MaxRows
        /\ view.open /\ L!Habits.delay
    BY ListFacts DEF L!TimerFires, ListInv, ViewFine
  <1>2. ~ L!Habits.locks
    BY <1>1, KindFacts
  <1>3. \/ L!Ask(asked)
        \/ ~ L!Searches /\ view' = v /\ calls' = calls
    BY DEF L!TimerFires
  <1>4. /\ v \in ViewSet /\ v.kind = view.kind /\ v.open = view.open /\ v.query = view.query
        /\ v.page = view.page /\ v.loading = view.loading /\ ~ v.timer
        /\ v.error = view.error /\ v.shown = view.shown /\ v.cached = view.cached
        /\ v.input = view.input
    BY <1>1 DEF ViewSet
  <1> HIDE DEF v
  <1>5. CASE L!Ask(asked)
    <2>1. /\ asked \in ViewSet /\ asked.kind = view.kind /\ asked.open /\ ~ asked.timer
          /\ asked.cached = view.cached
      BY <1>1, <1>4 DEF ViewSet
    <2> HIDE DEF asked
    <2> QED BY <1>1, <1>2, <1>5, <2>1, AskingKeeps
  <1>6. CASE ~ L!Searches /\ view' = v /\ calls' = calls
    <2>1. L!Habits' = L!Habits /\ ~ L!Searches' /\ (L!Guarded' <=> L!Guarded)
      BY <1>4, <1>6 DEF L!Habits, L!Searches, L!Guarded
    <2>2. ViewFine'
      BY <1>4, <1>6, <2>1 DEF ListInv, ViewFine
    <2>3. SpinnerEnds' /\ OneLive'
      BY <1>1, <1>4, <1>6, <2>1 DEF ListInv, SpinnerEnds, OneLive
    <2>4. L!Guarded' /\ AtRest' => Matches'
      BY <1>1, <1>4, <1>6, <2>1 DEF ListInv, AtRest, Matches
    <2> QED BY <1>1, <1>4, <1>6, <2>2, <2>3, <2>4 DEF ListInv
  <1> QED BY <1>3, <1>5, <1>6

LEMMA TurnPageKeeps == ASSUME ListInv, NEW p \in 1 .. MaxRows, L!TurnPage(p) PROVE ListInv'
  <1> DEFINE v == [view EXCEPT !.page = p]
  <1>1. /\ view \in ViewSet /\ view.kind \in L!Kinds /\ rows' = rows
        /\ L!Habits = L!HabitsOf(view.kind) /\ L!Habits.pages /\ ~ view.loading /\ L!Ask(v)
    BY ListFacts DEF L!TurnPage
  <1>2. view.open /\ (view.timer => L!Habits.delay)
    BY <1>1, KindFacts DEF ListInv, ViewFine
  <1>3. /\ v \in ViewSet /\ v.kind = view.kind /\ v.open = view.open /\ v.timer = view.timer
        /\ v.cached = view.cached
    BY <1>1 DEF ViewSet
  <1> HIDE DEF v
  <1> QED BY <1>1, <1>2, <1>3, AskingKeeps

LEMMA ListRefreshKeeps == ASSUME ListInv, L!Refresh PROVE ListInv'
  <1>1. /\ view \in ViewSet /\ view.kind \in L!Kinds /\ rows' = rows
        /\ L!Habits = L!HabitsOf(view.kind) /\ L!Ask(view)
        /\ \/ view.kind \in {"dashboard", "clients"}
           \/ view.kind = "copilot" /\ ~ view.loading
    BY ListFacts DEF L!Refresh
  <1>2. view.open /\ (view.timer => L!Habits.delay)
    BY <1>1, KindFacts DEF ListInv, ViewFine
  <1>3. L!Habits.locks => ~ view.loading
    BY <1>1, KindFacts
  <1> QED BY <1>1, <1>2, <1>3, AskingKeeps

\* The lists that show whatever arrives, and their other calls: to reopen, to export.
Plain == view.kind \in {"clients", "closed", "financial", "diagnostic"}

LEMMA PlainKeeps ==
    ASSUME ListInv, Plain, rows' \in [L!Queries -> 0 .. MaxRows],
           view' \in ViewSet, view'.kind = view.kind, view'.open = view.open,
           view'.timer = view.timer, view'.cached = view.cached,
           calls' \in [L!Calls -> {L!Idle} \cup Loads],
           \A r \in L!Calls : calls'[r].kind = "reopen" => view.kind = "closed",
           \A r \in L!Calls : Live(L!Habits, calls[r]) => Live(L!Habits, calls'[r]),
           view'.loading => view.loading \/ \E r \in L!Calls : Live(L!Habits, calls'[r])
    PROVE  ListInv'
  <1>1. /\ view.kind \in L!Kinds /\ L!Habits = L!HabitsOf(view.kind) /\ L!Habits' = L!Habits
    BY ListFacts DEF L!Habits
  <1>2. L!Habits.guard = "none" /\ ~ L!Habits.locks /\ L!Habits.blank = "asks"
    BY <1>1, KindFacts DEF Plain
  <1>3. ~ L!Guarded' /\ ~ L!Searches' /\ ~ L!Searches
    BY <1>1, <1>2 DEF L!Guarded, L!Searches
  <1>4. L!Habits.opens \/ view.open
    BY DEF ListInv, ViewFine
  <1>5. view.open
    BY <1>1, <1>4, KindFacts DEF ListInv, ViewFine, Plain
  <1>6. ViewFine'
    BY <1>1, <1>5 DEF ListInv, ViewFine, Plain
  <1>7. SpinnerEnds'
    BY <1>1, <1>3 DEF ListInv, SpinnerEnds
  <1>8. OneLive'
    BY <1>3 DEF OneLive
  <1> QED BY <1>3, <1>6, <1>7, <1>8 DEF ListInv

\* One call more, that is not a load.
LEMMA PlainBegins ==
    ASSUME ListInv, Plain, rows' = rows, NEW kind \in {"reopen", "export"}, NEW v \in ViewSet,
           kind = "reopen" => view.kind = "closed",
           L!Begin(kind, v), view' = [view EXCEPT !.error = FALSE]
    PROVE  ListInv'
  <1>1. PICK r \in L!Calls : calls[r] = L!Idle /\ calls' = [calls EXCEPT ![r] = L!Call(kind, v)]
    BY DEF L!Begin, L!Free
  <1> DEFINE call == L!Call(kind, v)
  <1>2. call \in Loads /\ call.kind = kind
    BY DEF L!Call, Loads, ViewSet
  <1>3. calls' = [calls EXCEPT ![r] = call]
    BY <1>1
  <1> HIDE DEF call
  <1>4. /\ calls' \in [L!Calls -> {L!Idle} \cup Loads]
        /\ calls'[r] = call
        /\ \A q \in L!Calls \ {r} : calls'[q] = calls[q]
    BY <1>2, <1>3, ListFacts
  <1>5. \A q \in L!Calls : calls'[q].kind = "reopen" => view.kind = "closed"
    BY <1>2, <1>4 DEF ListInv
  <1>6. ~ Live(L!Habits, calls[r])
    BY <1>1, ListFacts DEF Live
  <1>7. \A q \in L!Calls : Live(L!Habits, calls[q]) => Live(L!Habits, calls'[q])
    BY <1>4, <1>6
  <1>8. /\ view' \in ViewSet /\ view'.kind = view.kind /\ view'.open = view.open
        /\ view'.timer = view.timer /\ view'.cached = view.cached
        /\ view'.loading = view.loading
    BY ListFacts DEF ViewSet
  <1>9. rows' \in [L!Queries -> 0 .. MaxRows]
    BY DEF ListInv
  <1> QED BY <1>4, <1>5, <1>7, <1>8, <1>9, PlainKeeps

LEMMA ReopenKeeps == ASSUME ListInv, L!Reopen PROVE ListInv'
  <1> QED BY ListFacts, PlainBegins DEF L!Reopen, Plain

LEMMA ExportKeeps == ASSUME ListInv, L!Export PROVE ListInv'
  <1> DEFINE v == [view EXCEPT !.page = 1]
  <1>1. v \in ViewSet
    BY ListFacts DEF ViewSet
  <1>2. L!Begin("export", v)
    BY DEF L!Export
  <1> HIDE DEF v
  <1> QED BY <1>1, <1>2, PlainBegins DEF L!Export, Plain

LEMMA ReopenedKeeps == ASSUME ListInv, NEW r \in L!Calls, L!Reopened(r) PROVE ListInv'
  <1>1. /\ view.kind = "closed" /\ Plain /\ calls[r] \in Loads /\ calls[r].kind = "reopen"
        /\ view \in ViewSet /\ calls \in [L!Calls -> {L!Idle} \cup Loads]
        /\ rows \in [L!Queries -> 0 .. MaxRows]
    BY ListFacts DEF L!Reopened, ListInv, Plain
  <1>2. L!Habits.guard = "none"
    BY <1>1, ListFacts, KindFacts
  <1>3. ~ Live(L!Habits, calls[r])
    BY <1>1 DEF Live
  <1>4. CASE /\ rows[calls[r].q] > 0
             /\ rows' = [rows EXCEPT ![calls[r].q] = @ - 1]
             /\ calls' = [calls EXCEPT ![r].kind = "load"]
             /\ view' = L!Loads(view)
    <2> DEFINE call == [calls[r] EXCEPT !.kind = "load"]
    <2>1. call \in Loads /\ call.kind = "load"
      BY <1>1 DEF Loads
    <2>2. calls' = [calls EXCEPT ![r] = call]
      BY <1>1, <1>4
    <2> HIDE DEF call
    <2>3. /\ calls' \in [L!Calls -> {L!Idle} \cup Loads]
          /\ calls'[r] = call
          /\ \A q \in L!Calls \ {r} : calls'[q] = calls[q]
      BY <1>1, <2>1, <2>2
    <2>4. Live(L!Habits, calls'[r])
      BY <1>2, <2>1, <2>3 DEF Live
    <2>5. \A q \in L!Calls : Live(L!Habits, calls[q]) => Live(L!Habits, calls'[q])
      BY <2>3, <2>4
    <2>6. /\ view' \in ViewSet /\ view'.kind = view.kind /\ view'.open = view.open
          /\ view'.timer = view.timer /\ view'.cached = view.cached
      BY <1>1, <1>4 DEF ViewSet, L!Loads
    <2>7. calls[r].q \in L!Queries /\ rows[calls[r].q] \in 0 .. MaxRows
      BY <1>1 DEF Loads
    <2>8. rows[calls[r].q] - 1 \in 0 .. MaxRows
      BY <1>4, <2>7, ListSizesAssumption
    <2>9. rows' \in [L!Queries -> 0 .. MaxRows]
      BY <1>1, <1>4, <2>7, <2>8
    <2> QED BY <1>1, <2>3, <2>4, <2>5, <2>6, <2>9, PlainKeeps
  <1>5. CASE /\ calls' = [calls EXCEPT ![r] = L!Idle]
             /\ view' = [view EXCEPT !.error = TRUE]
             /\ rows' = rows
    <2>1. /\ calls' \in [L!Calls -> {L!Idle} \cup Loads]
          /\ \A q \in L!Calls \ {r} : calls'[q] = calls[q]
      BY <1>1, <1>5
    <2>2. \A q \in L!Calls : Live(L!Habits, calls[q]) => Live(L!Habits, calls'[q])
      BY <1>3, <2>1
    <2>3. /\ view' \in ViewSet /\ view'.kind = view.kind /\ view'.open = view.open
          /\ view'.timer = view.timer /\ view'.cached = view.cached
          /\ view'.loading = view.loading
      BY <1>1, <1>5 DEF ViewSet
    <2> QED BY <1>1, <1>5, <2>1, <2>2, <2>3, PlainKeeps
  <1> QED BY <1>4, <1>5 DEF L!Reopened

LEMMA OpenKeepsList == ASSUME ListInv, L!Open PROVE ListInv'
  <1> DEFINE v == [view EXCEPT !.open = TRUE]
  <1>1. /\ view \in ViewSet /\ view.kind \in L!Kinds /\ rows' = rows
        /\ calls \in [L!Calls -> {L!Idle} \cup Loads]
        /\ L!Habits = L!HabitsOf(view.kind) /\ L!Habits.opens /\ ~ view.open
    BY ListFacts DEF L!Open
  <1>2. ~ view.timer /\ view.query = 0 /\ (L!Searches => ~ view.loading) /\ ~ L!Habits.locks
    BY <1>1, KindFacts DEF ListInv, ViewFine
  <1>3. /\ v \in ViewSet /\ v.kind = view.kind /\ v.open /\ ~ v.timer /\ v.query = 0
        /\ v.loading = view.loading /\ v.error = view.error /\ v.shown = view.shown
        /\ v.cached = view.cached
    BY <1>1, <1>2 DEF ViewSet
  <1>4. \/ view.kind = "ledger" /\ \E i \in L!Queries \ {0} : L!Ask([v EXCEPT !.query = i])
        \/ view.kind # "ledger" /\ L!Searches /\ view' = v /\ calls' = calls
        \/ L!Ask(v)
    BY DEF L!Open
  <1> HIDE DEF v
  <1>5. CASE \E i \in L!Queries \ {0} : L!Ask([v EXCEPT !.query = i])
    <2> PICK i \in L!Queries \ {0} : L!Ask([v EXCEPT !.query = i])
      BY <1>5
    <2> DEFINE w == [v EXCEPT !.query = i]
    <2>1. /\ w \in ViewSet /\ w.kind = view.kind /\ w.open /\ ~ w.timer
          /\ w.cached = view.cached /\ L!Ask(w)
      BY <1>3 DEF ViewSet
    <2> HIDE DEF w
    <2> QED BY <1>1, <1>2, <2>1, AskingKeeps
  <1>6. CASE view.kind # "ledger" /\ L!Searches /\ view' = v /\ calls' = calls
    <2>1. L!Habits' = L!Habits /\ (L!Guarded' <=> L!Guarded) /\ L!Habits.blank = "clears"
      BY <1>3, <1>6 DEF L!Habits, L!Guarded, L!Searches
    <2>2. L!Guarded
      BY <1>1, <1>6, KindFacts DEF L!Guarded, L!Searches
    <2>3. \A r \in L!Calls : ~ Live(L!Habits, calls'[r])
      BY <1>1, <1>6, <2>2 DEF ListInv, OneLive
    <2>4. ViewFine'
      BY <1>1, <1>2, <1>3, <1>6, <2>1 DEF ListInv, ViewFine
    <2>5. SpinnerEnds' /\ OneLive' /\ ~ AtRest'
      BY <1>2, <1>3, <1>6, <2>1, <2>3 DEF SpinnerEnds, OneLive, AtRest
    <2> QED BY <1>1, <1>3, <1>6, <2>4, <2>5 DEF ListInv
  <1>7. CASE L!Ask(v)
    BY <1>1, <1>2, <1>3, <1>7, AskingKeeps
  <1> QED BY <1>4, <1>5, <1>6, <1>7

LEMMA CloseKeeps == ASSUME ListInv, L!Close PROVE ListInv'
  <1> DEFINE v == [view EXCEPT !.open = FALSE, !.input = 0, !.query = 0, !.timer = FALSE,
                               !.error = FALSE]
  <1>1. /\ view \in ViewSet /\ view.kind \in L!Kinds /\ rows' = rows
        /\ L!Habits = L!HabitsOf(view.kind) /\ L!Habits.opens /\ view.open
        /\ 0 \in L!Queries /\ L!Nothing \in L!Answers
        /\ calls' = L!Cancelled
    BY ListFacts DEF L!Close
  <1>2. /\ v \in ViewSet /\ v.kind = view.kind /\ ~ v.open /\ v.query = 0 /\ ~ v.timer
        /\ v.cached = view.cached /\ v.shown = view.shown
    BY <1>1 DEF ViewSet
  <1>3. view' = IF L!Habits.blank = "clears" THEN L!Cleared(v) ELSE v
    BY DEF L!Close
  <1> HIDE DEF v
  <1>4. /\ view' \in ViewSet /\ view'.kind = view.kind /\ ~ view'.open /\ view'.query = 0
        /\ ~ view'.timer /\ view'.cached = view.cached
        /\ L!Habits.blank = "clears" => ~ view'.loading /\ view'.shown = L!Nothing
    <2>1. CASE L!Habits.blank = "clears"
      BY <1>1, <1>2, <1>3, <2>1 DEF ViewSet, L!Cleared
    <2>2. CASE L!Habits.blank # "clears"
      BY <1>2, <1>3, <2>2
    <2> QED BY <2>1, <2>2
  <1>5. L!Habits' = L!Habits /\ ~ L!Habits.locks
    BY <1>1, <1>4, KindFacts DEF L!Habits
  <1>6. \A r \in L!Calls : L!Guarded => ~ Live(L!Habits, calls'[r])
    BY <1>1, <1>5, CancelledIs DEF L!Guarded
  <1>7. ViewFine'
    BY <1>1, <1>4, <1>5, KindFacts DEF ListInv, ViewFine, L!Searches, L!Nothing
  <1>8. SpinnerEnds' /\ ~ AtRest'
    BY <1>4 DEF SpinnerEnds, AtRest
  <1>9. OneLive'
    BY <1>5, <1>6 DEF OneLive, L!Guarded
  <1> QED BY <1>1, <1>4, <1>7, <1>8, <1>9, CancelledIs DEF ListInv

\* A call that nobody hears ends, or goes on.
LEMMA QuietKeeps ==
    ASSUME ListInv, rows' = rows, NEW r \in L!Calls, ~ Live(L!Habits, calls[r]),
           NEW c \in {L!Idle} \cup Loads, ~ Live(L!Habits, c), c.kind # "reopen",
           calls' = [calls EXCEPT ![r] = c],
           view' = view \/ view' = [view EXCEPT !.error = TRUE]
    PROVE  ListInv'
  <1>1. /\ calls' \in [L!Calls -> {L!Idle} \cup Loads]
        /\ calls'[r] = c
        /\ \A q \in L!Calls \ {r} : calls'[q] = calls[q]
    BY ListFacts
  <1>2. \A q \in L!Calls : Live(L!Habits, calls'[q]) <=> Live(L!Habits, calls[q])
    BY <1>1
  <1>3. \A q \in L!Calls : Live(L!Habits, calls[q]) => calls'[q] = calls[q]
    BY <1>1
  <1>4. /\ view' \in ViewSet /\ view'.kind = view.kind /\ view'.open = view.open
        /\ view'.timer = view.timer /\ view'.loading = view.loading
        /\ view'.query = view.query /\ view'.page = view.page /\ view'.shown = view.shown
        /\ view'.cached = view.cached /\ (view.error => view'.error)
    BY ListFacts DEF ViewSet
  <1>5. L!Habits' = L!Habits /\ (L!Guarded' <=> L!Guarded) /\ (L!Searches' <=> L!Searches)
    BY <1>4 DEF L!Habits, L!Guarded, L!Searches
  <1>6. ViewFine'
    BY <1>4, <1>5 DEF ListInv, ViewFine
  <1>7. \A q \in L!Calls : calls'[q].kind = "reopen" => view'.kind = "closed"
    BY <1>1, <1>4 DEF ListInv
  <1>8. SpinnerEnds'
    BY <1>2, <1>4, <1>5 DEF ListInv, SpinnerEnds
  <1>9. OneLive'
    BY <1>2, <1>3, <1>4, <1>5 DEF ListInv, OneLive
  <1>10. L!Guarded' /\ AtRest' => Matches'
    BY <1>4, <1>5 DEF ListInv, AtRest, Matches
  <1> QED BY <1>1, <1>6, <1>7, <1>8, <1>9, <1>10 DEF ListInv

\* The one call that a list hears ends: nothing is awaited then.
LEMMA HeardKeeps ==
    ASSUME ListInv, rows' = rows, NEW r \in L!Calls, Live(L!Habits, calls[r]),
           calls' = [calls EXCEPT ![r] = L!Idle],
           view' \in ViewSet, view'.kind = view.kind, view'.open = view.open,
           view'.timer = view.timer, ~ view'.loading, view'.shown.ok \/ view'.error,
           ~ view.open => view'.query = view.query,
           ~ L!Habits.caches => view'.cached = view.cached,
           L!Guarded /\ AtRest' => Matches'
    PROVE  ListInv'
  <1>1. /\ calls' \in [L!Calls -> {L!Idle} \cup Loads]
        /\ ~ Live(L!Habits, calls'[r]) /\ calls'[r].kind # "reopen"
        /\ \A q \in L!Calls \ {r} : calls'[q] = calls[q]
    BY ListFacts DEF Live
  <1>2. L!Habits' = L!Habits /\ (L!Guarded' <=> L!Guarded) /\ (L!Searches' <=> L!Searches)
    BY DEF L!Habits, L!Guarded, L!Searches
  <1>3. ViewFine'
    BY <1>2 DEF ListInv, ViewFine
  <1>4. \A q \in L!Calls : calls'[q].kind = "reopen" => view'.kind = "closed"
    BY <1>1 DEF ListInv
  <1>5. SpinnerEnds'
    BY DEF SpinnerEnds
  <1>6. L!Guarded => \A q \in L!Calls : ~ Live(L!Habits, calls'[q])
    BY <1>1 DEF ListInv, OneLive
  <1>7. OneLive'
    BY <1>2, <1>6 DEF OneLive
  <1> QED BY <1>1, <1>2, <1>3, <1>4, <1>5, <1>7 DEF ListInv

\* What is heard is the call of a list that loads, for what its controls ask.
LEMMA LiveIs ==
    ASSUME ListInv, NEW r \in L!Calls, calls[r].kind = "load"
    PROVE  /\ calls[r] \in Loads /\ (L!Heard(calls[r]) <=> Live(L!Habits, calls[r]))
           /\ L!Heard(calls[r]) /\ L!Guarded =>
                 /\ view.open /\ view.loading
                 /\ calls[r].q = view.query /\ calls[r].page = view.page
  <1>1. calls[r] \in Loads
    BY ListFacts
  <1>2. L!Heard(calls[r]) <=> Live(L!Habits, calls[r])
    BY DEF L!Heard, Live
  <1> QED BY <1>1, <1>2 DEF ListInv, OneLive

LEMMA LoadFailedKeeps == ASSUME ListInv, NEW r \in L!Calls, L!LoadFailed(r) PROVE ListInv'
  <1> DEFINE call == calls[r]
             v == [view EXCEPT !.loading = FALSE, !.error = TRUE]
             emptied == [q |-> call.q, page |-> call.page, n |-> 0, ok |-> FALSE]
  <1>1. /\ view \in ViewSet /\ view.kind \in L!Kinds /\ rows' = rows
        /\ L!Habits = L!HabitsOf(view.kind) /\ 0 \in L!Queries /\ 0 \in 0 .. MaxRows
        /\ calls[r].kind = "load" /\ calls[r] \in Loads
        /\ calls' = [calls EXCEPT ![r] = L!Idle]
    BY ListFacts, LiveIs, ListSizesAssumption DEF L!LoadFailed
  <1>2. \/ ~ L!Heard(call) /\ view' = view
        \/ L!Heard(call) /\ L!Habits.caches
           /\ view' = [L!Answered([v EXCEPT !.input = 0, !.query = 0], 0) EXCEPT !.error = FALSE]
        \/ L!Heard(call) /\ ~ L!Habits.caches
           /\ view' = IF L!Habits.fails = "clears" THEN [v EXCEPT !.shown = emptied] ELSE v
    BY DEF L!LoadFailed
  <1>3. CASE ~ L!Heard(call) /\ view' = view
    <2>1. L!Idle \in {L!Idle} \cup Loads /\ L!Idle.kind = "idle" /\ ~ Live(L!Habits, L!Idle)
      BY ListFacts DEF Live
    <2>2. ~ Live(L!Habits, calls[r])
      BY <1>1, <1>3, LiveIs
    <2> QED BY <1>1, <1>3, <2>1, <2>2, QuietKeeps
  <1>4. CASE L!Heard(call) /\ L!Habits.caches
             /\ view' = [L!Answered([v EXCEPT !.input = 0, !.query = 0], 0) EXCEPT !.error = FALSE]
    <2> DEFINE w == [v EXCEPT !.input = 0, !.query = 0]
               answer == [q |-> 0, page |-> w.page, n |-> 1, ok |-> TRUE]
    <2>1. /\ w \in ViewSet /\ w.kind = view.kind /\ w.open = view.open /\ w.query = 0
          /\ w.timer = view.timer /\ ~ w.loading /\ w.cached = view.cached
      BY <1>1 DEF ViewSet
    <2>2. answer \in L!Answers /\ answer.q = 0 /\ answer.ok
      BY <1>1, <2>1, ListSizesAssumption DEF L!Answers, ViewSet
    <2> HIDE DEF answer
    <2>3. view' = [w EXCEPT !.shown = answer, !.error = FALSE]
      <3>1. view' = [L!Answered(w, 0) EXCEPT !.error = FALSE]
        BY <1>4
      <3> HIDE DEF w
      <3>2. L!Answered(w, 0) = [w EXCEPT !.shown = answer]
        BY DEF L!Answered, answer
      <3> QED BY <2>1, <3>1, <3>2 DEF ViewSet
    <2> HIDE DEF w
    <2>4. /\ view' \in ViewSet /\ view'.kind = view.kind /\ view'.open = view.open
          /\ view'.timer = view.timer /\ ~ view'.loading /\ view'.shown = answer
          /\ view'.query = 0 /\ view'.cached = view.cached
      BY <2>1, <2>2, <2>3 DEF ViewSet
    <2>5. L!Habits' = L!Habits /\ ~ L!Habits.pages /\ ~ L!Habits.opens
      BY <1>1, <1>4, <2>4, KindFacts DEF L!Habits
    <2>6. view.open
      BY <2>5 DEF ListInv, ViewFine
    <2>7. Matches'
      BY <2>2, <2>4, <2>5 DEF Matches
    <2>8. Live(L!Habits, calls[r])
      BY <1>1, <1>4, LiveIs
    <2> QED BY <1>1, <2>2, <2>4, <2>6, <2>7, <2>8, HeardKeeps
  <1>5. CASE L!Heard(call) /\ ~ L!Habits.caches
             /\ view' = IF L!Habits.fails = "clears" THEN [v EXCEPT !.shown = emptied] ELSE v
    <2>1. /\ v \in ViewSet /\ v.kind = view.kind /\ v.open = view.open /\ v.query = view.query
          /\ v.timer = view.timer /\ ~ v.loading /\ v.error /\ v.cached = view.cached
      BY <1>1 DEF ViewSet
    <2>2. emptied \in L!Answers
      BY <1>1, ListSizesAssumption DEF L!Answers, Loads
    <2> HIDE DEF v, emptied
    <2>3. /\ view' \in ViewSet /\ view'.kind = view.kind /\ view'.open = view.open
          /\ view'.query = view.query /\ view'.timer = view.timer /\ ~ view'.loading
          /\ view'.error /\ view'.cached = view.cached
      BY <1>5, <2>1, <2>2 DEF ViewSet
    <2>4. Live(L!Habits, calls[r])
      BY <1>1, <1>5, LiveIs
    <2> QED BY <1>1, <2>3, <2>4, HeardKeeps DEF AtRest
  <1> QED BY <1>2, <1>3, <1>4, <1>5

LEMMA LoadedKeeps == ASSUME ListInv, NEW r \in L!Calls, L!Loaded(r) PROVE ListInv'
  <1> DEFINE call == calls[r]
             n == rows[call.q]
             answer == [q |-> call.q, page |-> call.page, n |-> n, ok |-> TRUE]
             known == IF L!Habits.caches THEN view.cached \cup {call.q} ELSE view.cached
             v == [view EXCEPT !.shown = answer, !.loading = FALSE, !.cached = known]
             back == L!Clamped(v, call, n)
  <1>1. /\ view \in ViewSet /\ view.kind \in L!Kinds /\ rows' = rows
        /\ rows \in [L!Queries -> 0 .. MaxRows] /\ L!Habits = L!HabitsOf(view.kind)
        /\ calls[r].kind = "load" /\ calls[r] \in Loads
    BY ListFacts, LiveIs DEF L!Loaded, ListInv
  <1>2. /\ call.q \in L!Queries /\ call.page \in 1 .. MaxRows /\ n \in 0 .. MaxRows
        /\ MaxRows \in Nat
    BY <1>1, ListSizesAssumption DEF Loads
  <1>3. answer \in L!Answers /\ answer.ok /\ answer.q = call.q /\ answer.page = call.page
        /\ answer.n = n
    BY <1>2 DEF L!Answers
  <1>4. known \in SUBSET L!Queries /\ (~ L!Habits.caches => known = view.cached)
    BY <1>1, <1>2 DEF ViewSet
  <1>5. IF ~ L!Heard(call) THEN calls' = [calls EXCEPT ![r] = L!Idle] /\ view' = view
        ELSE IF back.page = view.page
          THEN calls' = [calls EXCEPT ![r] = L!Idle] /\ view' = v
          ELSE calls' = [L!Cancelled EXCEPT ![r] = L!Call("load", back)] /\ view' = L!Loads(back)
    BY DEF L!Loaded
  <1> HIDE DEF answer, known
  <1>6. /\ v \in ViewSet /\ v.kind = view.kind /\ v.open = view.open /\ v.timer = view.timer
        /\ v.query = view.query /\ v.page = view.page /\ v.cached = known
        /\ v.shown = answer /\ ~ v.loading
    BY <1>1, <1>3, <1>4 DEF ViewSet
  <1> HIDE DEF v
  <1>7. CASE ~ L!Heard(call)
    <2>1. L!Idle \in {L!Idle} \cup Loads /\ L!Idle.kind = "idle" /\ ~ Live(L!Habits, L!Idle)
      BY ListFacts DEF Live
    <2>2. ~ Live(L!Habits, calls[r])
      BY <1>1, <1>7, LiveIs
    <2> QED BY <1>1, <1>5, <1>7, <2>1, <2>2, QuietKeeps
  <1>8. CASE L!Heard(call) /\ back.page = view.page
    <2>1. calls' = [calls EXCEPT ![r] = L!Idle] /\ view' = v
      BY <1>5, <1>8
    <2>2. Live(L!Habits, calls[r])
      BY <1>1, <1>8, LiveIs
    <2>3. L!Habits' = L!Habits
      BY <1>6, <2>1 DEF L!Habits
    <2>4. ASSUME L!Guarded PROVE Matches'
      <3>1. call.q = view.query /\ call.page = view.page
        BY <1>1, <1>8, <2>4, LiveIs
      <3>2. L!Habits.pages => L!Habits.clamps
        BY <1>1, <2>4, KindFacts DEF L!Guarded
      <3>3. L!Habits.clamps /\ n > 0 => view.page <= n
        <4>1. CASE L!Habits.clamps /\ n > 0 /\ call.page > n
          <5>1. back = [v EXCEPT !.page = n]
            BY <4>1 DEF L!Clamped
          <5>2. back.page = n
            BY <1>6, <5>1 DEF ViewSet
          <5> QED BY <1>2, <1>8, <3>1, <4>1, <5>2
        <4>2. CASE ~ (call.page > n)
          BY <1>2, <3>1, <4>2
        <4> QED BY <4>1, <4>2
      <3> QED BY <1>3, <1>6, <2>1, <2>3, <3>1, <3>2, <3>3 DEF Matches
    <2> QED BY <1>1, <1>3, <1>4, <1>6, <2>1, <2>2, <2>4, HeardKeeps
  <1>9. CASE L!Heard(call) /\ back.page # view.page
    <2>1. /\ calls' = [L!Cancelled EXCEPT ![r] = L!Call("load", back)]
          /\ view' = L!Loads(back)
      BY <1>5, <1>9
    <2>2. L!Habits.clamps /\ n > 0 /\ back = [v EXCEPT !.page = n]
      BY <1>6, <1>9 DEF L!Clamped
    <2>3. n \in 1 .. MaxRows
      BY <1>2, <2>2
    <2>4. ~ L!Habits.locks /\ ~ L!Habits.opens /\ ~ L!Habits.caches
      BY <1>1, <2>2, KindFacts
    <2>5. view.open /\ (view.timer => L!Habits.delay)
      BY <2>4 DEF ListInv, ViewFine
    <2> HIDE DEF n
    <2>6. /\ back \in ViewSet /\ back.kind = view.kind /\ back.open /\ back.timer = view.timer
          /\ back.cached = view.cached
      BY <1>4, <1>6, <2>2, <2>3, <2>4, <2>5 DEF ViewSet
    <2> HIDE DEF back
    <2> QED BY <1>1, <2>1, <2>4, <2>5, <2>6, AskedKeeps
  <1> QED BY <1>7, <1>8, <1>9

LEMMA ExportedKeeps == ASSUME ListInv, NEW r \in L!Calls, L!Exported(r) PROVE ListInv'
  <1> DEFINE call == calls[r]
  <1>1. /\ rows' = rows /\ rows \in [L!Queries -> 0 .. MaxRows] /\ MaxRows \in Nat
        /\ calls[r].kind = "export" /\ calls[r] \in Loads
        /\ L!Idle \in {L!Idle} \cup Loads /\ ~ Live(L!Habits, L!Idle) /\ L!Idle.kind = "idle"
        /\ ~ Live(L!Habits, call)
    BY ListFacts, ListSizesAssumption DEF L!Exported, ListInv, Live
  <1>2. /\ call.q \in L!Queries /\ call.page \in 1 .. MaxRows
        /\ rows[call.q] \in 0 .. MaxRows
    BY <1>1 DEF Loads
  <1>3. CASE /\ calls' = [calls EXCEPT ![r] = [call EXCEPT !.page = @ + 1]] /\ view' = view
             /\ call.page < rows[call.q]
    <2> DEFINE c == [call EXCEPT !.page = @ + 1]
    <2>1. call.page + 1 \in 1 .. MaxRows
      BY <1>1, <1>2, <1>3
    <2>2. c \in {L!Idle} \cup Loads /\ c.kind = "export"
      BY <1>1, <2>1 DEF Loads
    <2> HIDE DEF c
    <2>3. ~ Live(L!Habits, c)
      BY <2>2 DEF Live
    <2>4. calls' = [calls EXCEPT ![r] = c]
      BY <1>3 DEF c
    <2> QED BY <1>1, <1>3, <2>2, <2>3, <2>4, QuietKeeps
  <1>4. CASE /\ calls' = [calls EXCEPT ![r] = L!Idle]
             /\ view' = view \/ view' = [view EXCEPT !.error = TRUE]
    BY <1>1, <1>4, QuietKeeps
  <1> QED BY <1>3, <1>4 DEF L!Exported

LEMMA ListElsewhereKeeps == ASSUME ListInv, L!Elsewhere PROVE ListInv'
  <1>1. rows' \in [L!Queries -> 0 .. MaxRows] /\ view' = view /\ calls' = calls
    BY DEF L!Elsewhere, ListInv
  <1>2. L!Habits' = L!Habits
    BY <1>1 DEF L!Habits
  <1> QED BY <1>1, <1>2 DEF ListInv, ViewFine, SpinnerEnds, OneLive, AtRest, Matches,
                            L!Guarded, L!Searches

LEMMA ListStutters == ASSUME ListInv, UNCHANGED listVars PROVE ListInv'
  <1>1. rows' = rows /\ view' = view /\ calls' = calls
    BY DEF listVars
  <1>2. L!Habits' = L!Habits
    BY <1>1 DEF L!Habits
  <1> QED BY <1>1, <1>2 DEF ListInv, ViewFine, SpinnerEnds, OneLive, AtRest, Matches,
                            L!Guarded, L!Searches

-----------------------------------------------------------------------------
(* The lists: the invariant and what follows from it *)

LEMMA ListNext == ListInv /\ [L!Next]_listVars => ListInv'
  <1> SUFFICES ASSUME ListInv, [L!Next]_listVars PROVE ListInv'
    OBVIOUS
  <1>1. CASE L!Agent
    BY <1>1, ListTypeKeeps, TurnPageKeeps, ListRefreshKeeps, ReopenKeeps, ExportKeeps,
       OpenKeepsList, CloseKeeps DEF L!Agent
  <1>2. CASE \E r \in L!Calls : L!Answer(r)
    BY <1>2, LoadedKeeps, LoadFailedKeeps, ReopenedKeeps, ExportedKeeps DEF L!Answer
  <1> QED BY <1>1, <1>2, TimerFiresKeeps, ListElsewhereKeeps, ListStutters DEF L!Next

LEMMA ListShown ==
    ListInv => L!ShownIsAsked /\ L!PageInRange /\ L!SpinnerHasCause /\ L!NoMatchIsTrue
  <1> SUFFICES ASSUME ListInv
               PROVE  L!ShownIsAsked /\ L!PageInRange /\ L!SpinnerHasCause /\ L!NoMatchIsTrue
    OBVIOUS
  <1>1. view.kind \in L!Kinds /\ L!Habits = L!HabitsOf(view.kind)
    BY ListFacts
  <1>2. L!ShownIsAsked
    BY DEF ListInv, AtRest, Matches, L!ShownIsAsked, L!Settled
  <1>3. L!PageInRange
    <2>1. SUFFICES ASSUME view.kind = "dashboard", L!Settled, view.shown.n > 0
                   PROVE  view.page <= view.shown.n
      BY DEF L!PageInRange
    <2>2. L!Guarded /\ L!Habits.pages /\ L!Habits.blank = "asks"
      BY <1>1, <2>1, KindFacts DEF L!Guarded
    <2> QED BY <2>1, <2>2 DEF ListInv, AtRest, Matches, L!Settled
  <1>4. L!SpinnerHasCause
    BY DEF ListInv, SpinnerEnds, Live, L!SpinnerHasCause, L!Heard
  <1>5. L!NoMatchIsTrue
    BY DEF ListInv, ViewFine, L!NoMatchIsTrue, L!SaysNoMatch
  <1> QED BY <1>2, <1>3, <1>4, <1>5

LEMMA ListInit == L!Init => ListInv
  <1> SUFFICES ASSUME L!Init PROVE ListInv
    OBVIOUS
  <1>1. PICK k \in L!Kinds :
          LET h == L!HabitsOf(k)
              asks == ~ h.opens /\ h.blank = "asks" /\ ~ h.caches
              v == [kind |-> k, open |-> ~ h.opens, input |-> 0, query |-> 0, page |-> 1,
                    timer |-> FALSE, loading |-> asks, error |-> FALSE, shown |-> L!Nothing,
                    cached |-> {}]
          IN  /\ view = IF h.caches THEN [L!Answered(v, 0) EXCEPT !.cached = {0}] ELSE v
              /\ calls = [r \in L!Calls |-> IF asks /\ r = 1 THEN L!Call("load", v) ELSE L!Idle]
    BY DEF L!Init
  <1> DEFINE h == L!HabitsOf(k)
             asks == ~ h.opens /\ h.blank = "asks" /\ ~ h.caches
             v == [kind |-> k, open |-> ~ h.opens, input |-> 0, query |-> 0, page |-> 1,
                   timer |-> FALSE, loading |-> asks, error |-> FALSE, shown |-> L!Nothing,
                   cached |-> {}]
             answer == [q |-> 0, page |-> v.page, n |-> 1, ok |-> TRUE]
             call == L!Call("load", v)
  <1>2. /\ view = IF h.caches THEN [L!Answered(v, 0) EXCEPT !.cached = {0}] ELSE v
        /\ calls = [r \in L!Calls |-> IF asks /\ r = 1 THEN call ELSE L!Idle]
    BY <1>1
  <1>3. /\ 0 \in L!Queries /\ 1 \in 1 .. MaxRows /\ {0, 1} \subseteq 0 .. MaxRows
        /\ 1 \in L!Calls
    BY ListSizesAssumption DEF L!Queries, L!Calls
  <1>4. L!Nothing \in L!Answers /\ L!Nothing.ok
    BY <1>3 DEF L!Nothing, L!Answers
  <1>5. answer \in L!Answers /\ answer.q = 0 /\ answer.ok
    BY <1>3 DEF L!Answers
  <1>6. call \in Loads /\ call.kind = "load" /\ call.q = 0 /\ call.page = 1
    BY <1>3 DEF L!Call, Loads
  <1>7. /\ v \in ViewSet /\ v.kind = k /\ (v.open <=> ~ h.opens) /\ v.query = 0 /\ v.page = 1
        /\ ~ v.timer /\ (v.loading <=> asks) /\ ~ v.error /\ v.shown = L!Nothing
        /\ v.cached = {}
    BY <1>3, <1>4 DEF ViewSet
  <1>8. h.caches => view = [v EXCEPT !.shown = answer, !.cached = {0}]
    <2> HIDE DEF v
    <2> QED BY <1>2, <1>7 DEF L!Answered, ViewSet
  <1> HIDE DEF v, answer, call
  <1>9. /\ view \in ViewSet /\ view.kind = k /\ (view.open <=> ~ h.opens) /\ view.query = 0
        /\ view.page = 1 /\ ~ view.timer /\ (view.loading <=> asks)
        /\ view.shown = IF h.caches THEN answer ELSE L!Nothing
        /\ view.cached = IF h.caches THEN {0} ELSE {}
    <2>1. CASE h.caches
      BY <1>3, <1>5, <1>7, <1>8, <2>1 DEF ViewSet
    <2>2. CASE ~ h.caches
      BY <1>2, <1>7, <2>2
    <2> QED BY <2>1, <2>2
  <1>10. L!Habits = h
    BY <1>9 DEF L!Habits
  <1>11. L!Idle.kind = "idle"
    BY DEF L!Idle
  <1>12. /\ calls \in [L!Calls -> {L!Idle} \cup Loads]
         /\ \A r \in L!Calls : calls[r] = IF asks /\ r = 1 THEN call ELSE L!Idle
    BY <1>2, <1>6
  <1>13. \A r \in L!Calls : Live(h, calls[r]) => asks /\ r = 1
    BY <1>11, <1>12 DEF Live
  <1>14. call.own
    BY DEF call, L!Call
  <1>15. rows \in [L!Queries -> 0 .. MaxRows]
    BY <1>3, ListSizesAssumption DEF L!Init
  <1>16. ViewFine
    BY <1>4, <1>5, <1>9, <1>10 DEF ViewFine
  <1>17. SpinnerEnds
    BY <1>3, <1>6, <1>9, <1>10, <1>12, <1>14 DEF SpinnerEnds, Live
  <1>18. OneLive
    BY <1>6, <1>9, <1>10, <1>12, <1>13 DEF OneLive
  <1>19. AtRest => Matches
    <2>1. SUFFICES ASSUME AtRest PROVE Matches
      OBVIOUS
    <2>2. h.caches
      BY <1>9, <1>10, <2>1 DEF AtRest
    <2>3. ~ h.pages
      BY <2>2, KindFacts
    <2> QED BY <1>5, <1>9, <1>10, <2>2, <2>3 DEF Matches
  <1> QED BY <1>6, <1>11, <1>12, <1>15, <1>16, <1>17, <1>18, <1>19 DEF ListInv

LEMMA RecordsTyped == RecordsInv => TypeOK
  <1> SUFFICES ASSUME RecordsInv PROVE TypeOK
    OBVIOUS
  <1>1. /\ srv \in [rec : [Items -> States], from : [Items -> 0 .. NItems]]
        /\ props \in [Items -> States]
        /\ ui \in UiSet /\ (ui.dialog = "none" => ~ ui.typed)
    BY DEF RecordsInv, DialogFine
  <1>2. \A r \in Runs : runs[r] # Idle => runs[r] \in RunSet
    BY DEF RecordsInv, Lines
  <1> QED BY <1>1, <1>2 DEF TypeOK, UiSet

LEMMA ListTyped == ListInv => L!TypeOK
  <1> SUFFICES ASSUME ListInv PROVE L!TypeOK
    OBVIOUS
  <1>1. view \in ViewSet /\ rows \in [L!Queries -> 0 .. MaxRows]
    BY DEF ListInv, ViewFine
  <1>2. \A r \in L!Calls : calls[r] # L!Idle => calls[r] \in Loads
    BY DEF ListInv
  <1> QED BY <1>1, <1>2 DEF L!TypeOK, ViewSet, Loads

-----------------------------------------------------------------------------
(* The pages of the browser: one of their parts is studied per behaviour *)

PagesInv ==
    /\ screen = "records" => RecordsInv
    /\ screen = "list" => ListInv
    /\ screen = "templates" => TemplatesInv

LEMMA PagesInit == MCInit => PagesInv
  <1> SUFFICES ASSUME MCInit PROVE PagesInv
    OBVIOUS
  <1>1. CASE screen = "records" /\ Init
    BY <1>1, RecordsInit DEF PagesInv
  <1>2. CASE screen = "list" /\ L!Init
    BY <1>2, ListInit DEF PagesInv
  <1>3. CASE screen = "templates" /\ T!Init /\ lists = T!Lists
    BY <1>3, TemplatesStart DEF PagesInv
  <1> QED BY <1>1, <1>2, <1>3 DEF MCInit

LEMMA TemplatesUnchanged ==
    ASSUME TemplatesInv, UNCHANGED templateVars
    PROVE  TemplatesInv'
  <1>1. UNCHANGED <<status, tasks, custom, successor, lists>>
    BY DEF templateVars
  <1>2. T!TypeOK'
    BY <1>1 DEF TemplatesInv, T!TypeOK
  <1>3. RowsInv(tasks', status')
    BY <1>1 DEF TemplatesInv
  <1>4. RowsInv(tasks, status)'
    BY <1>3 DEF RowsInv, SoundAt, NumbersRight, KeysApart
  <1>5. T!Lists' = T!Lists
    BY <1>1, ListsAreListIn
  <1> QED BY <1>1, <1>2, <1>4, <1>5 DEF TemplatesInv

\* A step of the templates' page is one of the templates, and the list shows what it left.
LEMMA TemplatesNext ==
    ASSUME TemplatesInv, screen = "templates", MCNext
    PROVE  T!Next /\ lists' = T!Lists' /\ TemplatesInv'
  <1>1. T!Next /\ lists' = T!Lists'
    BY DEF MCNext
  <1> QED BY <1>1, TemplatesStay

LEMMA PagesNext == PagesInv /\ [MCNext]_pageVars => PagesInv'
  <1> SUFFICES ASSUME PagesInv, [MCNext]_pageVars PROVE PagesInv'
    OBVIOUS
  <1>1. screen' = screen
    BY DEF MCNext, pageVars
  <1>2. ASSUME screen = "records" PROVE RecordsInv'
    <2>1. RecordsInv /\ [Next]_vars
      BY <1>2 DEF PagesInv, MCNext, pageVars
    <2> QED BY <2>1, RecordsNext
  <1>3. ASSUME screen = "list" PROVE ListInv'
    <2>1. ListInv /\ [L!Next]_listVars
      BY <1>3 DEF PagesInv, MCNext, pageVars
    <2> QED BY <2>1, ListNext
  <1>4. ASSUME screen = "templates" PROVE TemplatesInv'
    <2>1. TemplatesInv
      BY <1>4 DEF PagesInv
    <2>2. CASE MCNext
      BY <1>4, <2>1, <2>2, TemplatesNext
    <2>3. CASE UNCHANGED pageVars
      BY <2>1, <2>3, TemplatesUnchanged DEF pageVars
    <2> QED BY <2>2, <2>3
  <1> QED BY <1>1, <1>2, <1>3, <1>4 DEF PagesInv

\* The inductive invariants of the pages of records, of the lists and of the workflow
\* templates hold throughout.
THEOREM PagesInductive == MCSpec => []PagesInv
  BY PagesInit, PagesNext, PTL DEF MCSpec

\* The records with their dialogs, the lists with their calls and the templates with their
\* tasks keep to the values their components give them.
THEOREM PagesAreTyped == MCSpec => []PagesTypeOK
<1>1. PagesInv => PagesTypeOK
  <2> SUFFICES ASSUME PagesInv PROVE PagesTypeOK
    OBVIOUS
  <2>1. ASSUME screen = "records" PROVE TypeOK
    BY <2>1, RecordsTyped DEF PagesInv
  <2>2. ASSUME screen = "list" PROVE L!TypeOK
    BY <2>2, ListTyped DEF PagesInv
  <2>3. ASSUME screen = "templates" PROVE T!TypeOK
    BY <2>3 DEF PagesInv, TemplatesInv
  <2> QED BY <2>1, <2>2, <2>3 DEF PagesTypeOK
<1>2. QED  BY <1>1, PagesInductive, PTL

\* No dialog stores the text of one record as another's, and no page that keeps a saving
\* flag has two saves in flight, however many rows are clicked, reloaded and removed while
\* calls are under way.
THEOREM DialogsSaveRight == MCSpec => []SavesAreRight
<1>1. PagesInv => SavesAreRight
  BY RecordsSaveOnce DEF PagesInv, RecordsInv, SavesAreRight
<1>2. QED  BY <1>1, PagesInductive, PTL

\* The dialog shows the record whose row was clicked; a list that guards its calls shows at
\* rest what its controls ask, on a page that exists, whatever the order of the answers; no
\* spinner is left without a call or a timer that ends it; and no failure is taken for an
\* empty answer.
THEOREM ShownIsAskedFor == MCSpec => []ShownIsWhatWasAsked
<1>1. PagesInv => ShownIsWhatWasAsked
  BY RecordsShown, ListShown DEF PagesInv, ShownIsWhatWasAsked
<1>2. QED  BY <1>1, PagesInductive, PTL

\* No answer and no change made elsewhere takes from the agent what was typed in a dialog.
THEOREM TypedTextStays == MCSpec => DialogKeepsTyped
<1>1. PagesInv /\ [MCNext]_pageVars => [screen = "records" => KeepsTyped]_pageVars
  <2> SUFFICES ASSUME PagesInv, MCNext, screen = "records" PROVE KeepsTyped
    OBVIOUS
  <2>1. RecordsInv /\ [Next]_vars
    BY DEF PagesInv, MCNext
  <2> QED BY <2>1, RecordsKeepText
<1>2. QED  BY <1>1, PagesInductive, PTL DEF MCSpec, DialogKeepsTyped

\* The numbered rows of the workflow templates implement the lists of TaskLists: whatever
\* the order and the number of the edits, each puts, moves, hands over or drops the task it
\* is about and leaves the others as they were, no key is on two templates, an archived
\* template stays empty, and a task goes to the place that was asked for.
THEOREM EditsKeepLists == MCSpec => TemplatesAreLists
<1>1. PagesInv /\ [MCNext]_pageVars =>
        [screen = "templates" => [A!Next]_A!vars /\ T!PlacedWhereAsked]_pageVars
  <2> SUFFICES ASSUME PagesInv, MCNext, screen = "templates"
               PROVE  [A!Next]_A!vars /\ T!PlacedWhereAsked
    OBVIOUS
  <2>1. TemplatesInv
    BY DEF PagesInv
  <2>2. T!Next /\ lists' = T!Lists'
    BY <2>1, TemplatesNext
  <2>3. RowsInv(tasks', status') /\ [A!Next]_A!vars
    BY <2>1, <2>2, TemplatesSteps DEF TemplatesStep
  <2> QED BY <2>1, <2>3, AskedPlaces
<1>2. QED  BY <1>1, PagesInductive, PTL DEF MCSpec, TemplatesAreLists
=============================================================================
