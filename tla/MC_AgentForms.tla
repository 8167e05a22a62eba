---------------------------- MODULE MC_AgentForms -----------------------------
(***************************************************************************)
(* Model checking of the forms of a request (RequestIntake), and of the    *)
(* links that are mailed out of it and out of the team page (PortalLinks). *)
(* They share no state: one is studied per behaviour, and the state of the *)
(* other is Off.                                                           *)
(***************************************************************************)
EXTENDS RequestIntake

CONSTANTS NLinks, NInvites, NTabs

VARIABLES
    screen,                                    \* what is studied
    kind, links, taken, tabs, sender, vault    \* the state of PortalLinks

P == INSTANCE PortalLinks

linkVars == <<kind, links, taken, tabs, sender, vault>>
formVars == <<screen, vars, linkVars>>

Off == "off"
IntakeOff == srv = Off /\ app = Off /\ runs = Off
LinksOff ==
    kind = Off /\ links = Off /\ taken = Off /\ tabs = Off /\ sender = Off /\ vault = Off

MCInit ==
    \/ screen = "intake" /\ Init /\ LinksOff
    \/ screen = "links" /\ P!Init /\ IntakeOff

MCNext ==
    /\ UNCHANGED screen
    /\ \/ screen = "intake" /\ Next /\ UNCHANGED linkVars
       \/ screen = "links" /\ P!Next /\ UNCHANGED vars

MCSpec == MCInit /\ [][MCNext]_formVars

-----------------------------------------------------------------------------
(* Properties *)

\* Every record has its fields in their ranges, on each screen.
FormsTypeOK ==
    /\ screen = "intake" => TypeOK
    /\ screen = "links" => P!TypeOK

\* A form of a request that is sent is whole (RequestIntake): the edits that must take
\* each other along.
FormIsWhole == screen = "intake" => PayloadIsWhole

\* An intake makes one request (RequestIntake): handleCreateRequest and its note.
IntakeMakesOne == screen = "intake" => MadeOnce

\* The text of one request is never stored as another's (RequestIntake): the workspace
\* and what it leaves in flight.
RequestKeepsItsText == screen = "intake" => NoCrossWrite

\* At most one of the links that were sent works (PortalLinks): the services expire the
\* pending ones when they issue another.
OneLinkWorks == screen = "links" => P!OneLiveLink

\* A link takes effect once (PortalLinks): two tabs, two invitations, a purge.
LinkActsOnce == screen = "links" => P!ActsOnce

\* Whoever was thanked has it recorded (PortalLinks), and a sender who was told so has
\* sent a link: the answers of the portal pages and of the page that sends.
ThanksAreTrue == screen = "links" => P!ThanksIsTrue
=============================================================================
