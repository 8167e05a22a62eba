----------------------------- MODULE PortalLinks -----------------------------
(***************************************************************************)
(* The links that are sent by e-mail and used without a login: the card    *)
(* authorization, the Master Terms, the insurance waiver, the reset of a   *)
(* password, and the invitations of an agent and of an agency's owner.     *)
(*                                                                         *)
(* There are many browsers and one server process.  Its asynchronous       *)
(* handlers do not await between reading a link and committing it, so each *)
(* is one step; sending the e-mail is awaited, after the link is stored.   *)
(* The two invitations are accepted by handlers that run in threads: there *)
(* anything may happen between the check of the link and the commit.       *)
(***************************************************************************)
EXTENDS Naturals

CONSTANTS
    NLinks,    \* links issued for one request, client, user or handle
    NInvites,  \* invitations of one agent, at least NLinks; with three, two can be live
    NTabs      \* browser tabs that a link is open in

VARIABLES
    kind,   \* what the links are for
    links,  \* the links of the server
    taken,  \* terms on file, waiver signed, account or agency exists
    tabs,   \* the browser tabs of the receiver
    sender, \* the page that sends the links
    vault   \* the card vault on the agent's screen

vars == <<kind, links, taken, tabs, sender, vault>>

Links == 1 .. NInvites
Tabs == 1 .. NTabs
Kinds == {"card", "terms", "waiver", "reset", "agent", "owner"}

\* Accepted in a thread.
Threaded == {"agent", "owner"}
\* Refused once what the link asks for is there.
OnceOnly == {"terms", "waiver", "agent", "owner"}

(***************************************************************************)
(* "late" is the clock: the link is past its hours, whatever its status    *)
(* says.  A reset link and an owner's invitation live in a single row: the *)
(* token of the earlier one is gone, which is "expired" here.  "uses"      *)
(* counts the times the link took effect.                                  *)
(***************************************************************************)
Link ==
    [status : {"none", "pending", "expired", "revoked", "completed"}, late : BOOLEAN,
     mail : {"sending", "sent", "failed"}, card : {"none", "kept", "purged"}, uses : 0 .. 2]

NoLink == [status |-> "none", late |-> FALSE, mail |-> "sending", card |-> "none", uses |-> 0]
Away == [at |-> "away", link |-> 0]

TypeOK ==
    /\ kind \in Kinds /\ links \in [Links -> Link] /\ taken \in BOOLEAN
    /\ \A t \in Tabs : tabs[t].link \in Links \cup {0} /\ tabs[t].at \in
          {"away", "loading", "unavailable", "form", "sent", "checked", "recorded",
           "refused", "thanks"}
    /\ sender.link \in Links \cup {0} /\ {sender.busy, sender.said, sender.onFile} \subseteq BOOLEAN
    /\ vault.shown \in Links \cup {0} /\ vault.doing \in {"nothing", "reveal", "purge"}

(***************************************************************************)
(* What the page of each kind of link does                                 *)
(*  dead    with a link that does not load: "shown", or the page is "left" *)
(*  done    with the answer: thanks are "shown", or the page is "left",    *)
(*          with a login or back to it                                     *)
(***************************************************************************)
CardPage   == [dead |-> "shown", done |-> "shown"]
TermsPage  == [dead |-> "shown", done |-> "shown"]
WaiverPage == [dead |-> "shown", done |-> "shown"]
ResetPage  == [dead |-> "left",  done |-> "shown"]
AgentPage  == [dead |-> "shown", done |-> "left"]
OwnerPage  == [dead |-> "shown", done |-> "left"]

PageOf == [card |-> CardPage, terms |-> TermsPage, waiver |-> WaiverPage,
           reset |-> ResetPage, agent |-> AgentPage, owner |-> OwnerPage]

Usable(l) == links[l].status = "pending" /\ ~ links[l].late
Mark(l, status) == links' = [links EXCEPT ![l].status = status]

-----------------------------------------------------------------------------
(* Issuing a link *)

\* What there is to be found for an address: any invitation that was not accepted,
\* in whatever order the rows come.
Unused == {l \in Links : links[l].status \in {"pending", "expired", "revoked"}}

Issuable(l) ==
    /\ kind # "agent" => l <= NLinks
    /\ kind \in OnceOnly => ~ taken
    /\ kind = "agent" => Unused = {} \/ \E k \in Unused : ~ Usable(k)
    /\ kind = "owner" => \A k \in Links : ~ Usable(k)

\* Variant: the links of the request stay as they are.
_expire_nothing(l) == links[l]

\* Variant: a link is closed whatever its status.
_expire_every_token(l) ==
    IF kind # "agent" /\ links[l].status # "none"
      THEN [links[l] EXCEPT !.status = "expired"] ELSE links[l]

\* The new link takes the place of the pending ones, except for an agent's.
_expire_pending_tokens(l) ==
    IF kind # "agent" /\ links[l].status = "pending"
      THEN [links[l] EXCEPT !.status = "expired"] ELSE links[l]

create_request(l) ==
    /\ links[l].status = "none" /\ \A k \in Links : k < l => links[k].status # "none"
    /\ Issuable(l)
    /\ links' = [k \in Links |-> IF k = l THEN [NoLink EXCEPT !.status = "pending"]
                                 ELSE _expire_pending_tokens(k)]

\* Somebody else sends a link, or sends it again.
SendElsewhere(l) == create_request(l) /\ UNCHANGED <<kind, taken, tabs, sender, vault>>

\* The page of the sender sends one at a time; the terms only when it was told that
\* they are not on file.
handleSendEmail(l) ==
    /\ ~ sender.busy /\ ~ sender.onFile /\ create_request(l)
    /\ sender' = [sender EXCEPT !.busy = TRUE, !.said = FALSE, !.link = l]
    /\ UNCHANGED <<kind, taken, tabs, vault>>

\* The page asks for the status of the terms, when it opens and after sending.
refreshStatus(s) == IF kind = "terms" THEN [s EXCEPT !.onFile = taken] ELSE s

OpenSender ==
    /\ ~ sender.busy
    /\ \E s \in {sender, refreshStatus(sender)} : sender' = [s EXCEPT !.said = FALSE, !.link = 0]
    /\ UNCHANGED <<kind, links, taken, tabs, vault>>

\* The e-mail is accepted by the mail server, or the link is never heard of again; the
\* answer to the sender may be lost.
send_email(l) ==
    /\ links[l].status # "none" /\ links[l].mail = "sending"
    /\ \E m \in {"sent", "failed"}, answered \in BOOLEAN :
        /\ links' = [links EXCEPT ![l].mail = m]
        /\ sender' = IF sender.busy /\ sender.link = l
                       THEN [(IF m = "sent" /\ answered THEN refreshStatus(sender) ELSE sender)
                                EXCEPT !.busy = FALSE, !.said = (m = "sent" /\ answered)]
                       ELSE sender
    /\ UNCHANGED <<kind, taken, tabs, vault>>

Lapse(l) ==
    /\ Usable(l) /\ links' = [links EXCEPT ![l].late = TRUE]
    /\ UNCHANGED <<kind, taken, tabs, sender, vault>>

cancel_invitation(l) ==
    /\ kind \in Threaded /\ Usable(l) /\ Mark(l, "revoked")
    /\ UNCHANGED <<kind, taken, tabs, sender, vault>>

\* Clearing the annual insurance forgets that the waiver was signed.
clear_annual_insurance ==
    /\ kind = "waiver" /\ taken /\ taken' = FALSE
    /\ UNCHANGED <<kind, links, tabs, sender, vault>>

-----------------------------------------------------------------------------
(* The receiver's page *)

Goes(t, at) == tabs' = [tabs EXCEPT ![t].at = at]
Leaves(t, how, at) ==
    tabs' = [tabs EXCEPT ![t] = IF how = "left" THEN Away ELSE [@ EXCEPT !.at = at]]

OpenLink(t, l) ==
    /\ links[l].mail = "sent"
    /\ tabs[t].at \in {"away", "unavailable", "form", "thanks"}
    /\ tabs' = [tabs EXCEPT ![t] = [at |-> "loading", link |-> l]]
    /\ UNCHANGED <<kind, links, taken, sender, vault>>

CloseTab(t) ==
    /\ tabs[t].at # "away" /\ tabs' = [tabs EXCEPT ![t] = Away]
    /\ UNCHANGED <<kind, links, taken, sender, vault>>

\* A pending link that is late is marked when it is looked at.
Looked(l) ==
    IF links[l].status = "pending" /\ links[l].late /\ kind \in {"card", "terms", "waiver"}
      THEN Mark(l, "expired") ELSE UNCHANGED links

\* A page that cannot load, for whatever reason, is an unavailable link.
validate_token(t) ==
    /\ tabs[t].at = "loading"
    /\ \/ Usable(tabs[t].link) /\ Goes(t, "form") /\ UNCHANGED links
       \/ /\ ~ Usable(tabs[t].link) /\ Looked(tabs[t].link)
          /\ Leaves(t, PageOf[kind].dead, "unavailable")
       \/ Leaves(t, PageOf[kind].dead, "unavailable") /\ UNCHANGED links
    /\ UNCHANGED <<kind, taken, sender, vault>>

handleSubmit(t) ==
    /\ tabs[t].at = "form" /\ Goes(t, "sent")
    /\ UNCHANGED <<kind, links, taken, sender, vault>>

\* What the server checks of a link before it takes effect.
Completes(l) == Usable(l)

Used(l) ==
    [links[l] EXCEPT !.status = "completed", !.uses = IF @ = 2 THEN 2 ELSE @ + 1,
                     !.card = IF kind = "card" THEN "kept" ELSE @]

\* All invitations of an owner are one row.
Record(t) ==
    /\ links' = [l \in Links |->
                   IF l = tabs[t].link THEN Used(l)
                   ELSE IF kind = "owner" THEN _expire_pending_tokens(l) ELSE links[l]]
    /\ taken' = (taken \/ kind \in OnceOnly)
    /\ Goes(t, "recorded")

complete(t) ==
    /\ kind \notin Threaded /\ tabs[t].at = "sent"
    /\ \/ Completes(tabs[t].link) /\ Record(t)
       \/ ~ Completes(tabs[t].link) /\ Looked(tabs[t].link) /\ Goes(t, "refused") /\ UNCHANGED taken
    /\ UNCHANGED <<kind, sender, vault>>

\* The first other invitation of the address, if there is one, may stand in the way.
Available(l) == ~ taken /\ (kind = "agent" /\ Unused # {l} => \E k \in Unused \ {l} : ~ Usable(k))
InTheWay(l) == kind = "agent" /\ \E k \in Unused \ {l} : Usable(k)

\* A thread checks the link and the address, and hashes the password.
accept_invitation(t) ==
    /\ kind \in Threaded /\ tabs[t].at = "sent"
    /\ \/ Completes(tabs[t].link) /\ Available(tabs[t].link) /\ Goes(t, "checked")
       \/ /\ ~ Completes(tabs[t].link) \/ taken \/ InTheWay(tabs[t].link)
          /\ Goes(t, "refused")
    /\ UNCHANGED <<kind, links, taken, sender, vault>>

\* Variant: no unique index.
AnyAccount == TRUE

\* The unique indexes on the e-mail of an agency and on the handle.
NewAccount == ~ taken

accept_commit(t) ==
    /\ tabs[t].at = "checked"
    /\ \/ NewAccount /\ Record(t)
       \/ ~ NewAccount /\ Goes(t, "refused") /\ UNCHANGED <<links, taken>>
    /\ UNCHANGED <<kind, sender, vault>>

\* The answer: thanks, a note that the password was changed, or a login.
Hear(t) ==
    /\ tabs[t].at \in {"recorded", "refused"}
    /\ \/ tabs[t].at = "recorded" /\ Leaves(t, PageOf[kind].done, "thanks")
       \/ tabs[t].at = "refused" /\ Goes(t, "form")
    /\ UNCHANGED <<kind, links, taken, sender, vault>>

\* The request or its answer is lost: the form comes back with an error.
Lose(t) ==
    /\ tabs[t].at \in {"sent", "recorded"} /\ Goes(t, "form")
    /\ UNCHANGED <<kind, links, taken, sender, vault>>

-----------------------------------------------------------------------------
(* The card vault of the agents *)

Reveals(l) == links[l].card = "kept"

\* A card may be asked for while it is not the one that is shown.
handleReveal(l) ==
    /\ kind = "card" /\ vault.doing = "nothing" /\ links[l].status = "completed"
    /\ vault.shown # l
    /\ vault' = [vault EXCEPT !.doing = "reveal", !.target = l]
    /\ UNCHANGED <<kind, links, taken, tabs, sender>>

Revealed ==
    /\ vault.doing = "reveal"
    /\ \E shown \in {0} \cup {l \in {vault.target} : Reveals(l)} :
          vault' = [shown |-> shown, doing |-> "nothing", target |-> 0]
    /\ UNCHANGED <<kind, links, taken, tabs, sender>>

\* The card that is shown is purged, after a confirmation; a card that another agent
\* purged is refused.
handlePurge ==
    /\ vault.doing = "nothing" /\ vault.shown # 0
    /\ vault' = [vault EXCEPT !.doing = "purge", !.target = vault.shown]
    /\ UNCHANGED <<kind, links, taken, tabs, sender>>

Purged ==
    /\ vault.doing = "purge"
    /\ \/ /\ links[vault.target].card = "kept"
          /\ links' = [links EXCEPT ![vault.target].card = "purged"]
          /\ \E shown \in {0, vault.shown} :
                vault' = [shown |-> shown, doing |-> "nothing", target |-> 0]
       \/ UNCHANGED links /\ vault' = [vault EXCEPT !.doing = "nothing", !.target = 0]
    /\ UNCHANGED <<kind, taken, tabs, sender>>

PurgedElsewhere ==
    /\ \E l \in Links : links[l].card = "kept" /\ links' = [links EXCEPT ![l].card = "purged"]
    /\ UNCHANGED <<kind, taken, tabs, sender, vault>>

Init ==
    /\ kind \in Kinds /\ links = [l \in Links |-> NoLink] /\ taken = FALSE
    /\ tabs = [t \in Tabs |-> Away]
    /\ sender = [link |-> 0, busy |-> FALSE, said |-> FALSE, onFile |-> FALSE]
    /\ vault = [shown |-> 0, doing |-> "nothing", target |-> 0]

Server ==
    \/ \E l \in Links : SendElsewhere(l) \/ send_email(l) \/ Lapse(l) \/ cancel_invitation(l)
    \/ clear_annual_insurance

Page(t) ==
    \/ \E l \in Links : OpenLink(t, l)
    \/ CloseTab(t) \/ validate_token(t) \/ handleSubmit(t) \/ complete(t)
    \/ accept_invitation(t) \/ accept_commit(t) \/ Hear(t) \/ Lose(t)

Vault ==
    \/ \E l \in Links : handleReveal(l)
    \/ Revealed \/ handlePurge \/ Purged \/ PurgedElsewhere

Sender == (\E l \in Links : handleSendEmail(l)) \/ OpenSender

Next == Server \/ Sender \/ (\E t \in Tabs : Page(t)) \/ Vault

Spec == Init /\ [][Next]_vars

-----------------------------------------------------------------------------
(* Properties *)

\* Of the links that were sent for one purpose at most one still works, however often
\* they were sent again; except the invitations of an agent, which may be several.
OneLiveLink ==
    kind # "agent" => \A k, l \in Links : Usable(k) /\ Usable(l) => k = l

\* A link takes effect once, in however many tabs it is submitted, and all the
\* invitations of one address make one account; a purged card does not come back.
ActsOnce ==
    /\ \A l \in Links : links[l].uses <= 1 /\ (links[l].card = "kept" => links[l].uses = 1)
    /\ kind \in Threaded => \A k, l \in Links : links[k].uses > 0 /\ links[l].uses > 0 => k = l

\* Whoever was thanked has had it recorded, and the link is closed for good; and a
\* sender who was told so has sent a link, and has the terms on file.
ThanksIsTrue ==
    /\ \A t \in Tabs : tabs[t].at = "thanks" =>
          links[tabs[t].link].status = "completed" /\ links[tabs[t].link].uses = 1
    /\ sender.said => links[sender.link].mail = "sent"
    /\ sender.onFile => taken
=============================================================================
