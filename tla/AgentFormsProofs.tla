--------------------------- MODULE AgentFormsProofs ---------------------------
(***************************************************************************)
(* What the links that are mailed to a client (PortalLinks), the intake of *)
(* a request and its workspace (RequestIntake) keep, in the composition    *)
(* that is model-checked, for any number of links, tabs, requests,         *)
(* intakes, groups and handlers in flight.                                 *)
(***************************************************************************)
EXTENDS MC_AgentForms, TLAPS

TabStates ==
    {"away", "loading", "unavailable", "form", "sent", "checked", "recorded", "refused", "thanks"}

Typed ==
    /\ kind \in P!Kinds
    /\ links \in [P!Links -> P!Link]
    /\ taken \in BOOLEAN
    /\ tabs \in [P!Tabs -> [at : TabStates, link : P!Links \cup {0}]]
    /\ sender \in [link : P!Links \cup {0}, busy : BOOLEAN, said : BOOLEAN, onFile : BOOLEAN]

\* Only one link is waiting to be used.
OnePending ==
    kind # "agent" =>
        \A k, l \in P!Links : links[k].status = "pending" /\ links[l].status = "pending" => k = l

\* A link that waits was never used, and an account that does not exist was made by none.
UnusedWaits ==
    /\ \A l \in P!Links : links[l].status = "pending" => links[l].uses = 0
    /\ kind \in P!Threaded /\ ~ taken => \A l \in P!Links : links[l].uses = 0

UsedOnce ==
    /\ \A l \in P!Links :
          /\ links[l].uses <= 1
          /\ links[l].status = "completed" \/ links[l].card = "kept" => links[l].uses = 1
    /\ kind \in P!Threaded =>
          \A k, l \in P!Links : links[k].uses > 0 /\ links[l].uses > 0 => k = l

\* A tab shows a link, and one that is told of success shows a link that was used; only
\* a thread is between its check and its commit.
TabsKnow ==
    \A t \in P!Tabs :
        /\ tabs[t].at # "away" => tabs[t].link \in P!Links
        /\ tabs[t].at \in {"recorded", "thanks"} =>
              links[tabs[t].link].status = "completed" /\ links[tabs[t].link].uses = 1
        /\ tabs[t].at = "checked" => kind \in P!Threaded

SenderKnows ==
    /\ \A l \in P!Links : links[l].status = "none" => links[l].mail = "sending"
    /\ sender.said => sender.link \in P!Links /\ links[sender.link].mail = "sent"
    /\ sender.onFile => kind = "terms" /\ taken

\* What was sent stays sent, what was used stays used.
LinksStay ==
    \A l \in P!Links :
        /\ links[l].mail = "sent" => links'[l].mail = "sent"
        /\ links[l].status = "completed" =>
              links'[l].status = "completed" /\ links'[l].uses = links[l].uses

LinksInv == Typed /\ OnePending /\ UnusedWaits /\ UsedOnce /\ TabsKnow /\ SenderKnows

-----------------------------------------------------------------------------
(* The steps *)

USE DEF P!Links, P!Tabs, P!Kinds, P!Threaded, P!OnceOnly

LEMMA CreateKeeps ==
  ASSUME LinksInv, NEW l \in P!Links, P!create_request(l), UNCHANGED <<kind, taken, tabs>>
  PROVE  /\ links' \in [P!Links -> P!Link] /\ OnePending' /\ UnusedWaits' /\ UsedOnce' /\ LinksStay
         /\ \A k \in P!Links : links'[k].status = "none" => links'[k].mail = "sending"
<1>1. /\ \A k \in P!Links : links[k] \in P!Link
      /\ links[l].status = "none"
  BY DEF LinksInv, Typed, P!create_request
<1>2. /\ links'[l] = [status |-> "pending", late |-> FALSE, mail |-> "sending",
                      card |-> "none", uses |-> 0]
      /\ \A k \in P!Links \ {l} : links'[k] = P!_expire_pending_tokens(k)
  BY DEF P!create_request, P!NoLink
<1>3. \A k \in P!Links \ {l} :
        /\ links'[k] \in P!Link
        /\ links'[k].uses = links[k].uses /\ links'[k].card = links[k].card
        /\ links'[k].mail = links[k].mail
        /\ links'[k].status = IF kind # "agent" /\ links[k].status = "pending"
                                 THEN "expired" ELSE links[k].status
  BY <1>1, <1>2 DEF P!_expire_pending_tokens, P!Link
<1>4. links' \in [P!Links -> P!Link]
  <2>. links'[l] \in P!Link
    BY <1>2 DEF P!Link
  <2>1. \A k \in P!Links : links'[k] \in P!Link
    BY <1>3
  <2>2. links' = [k \in P!Links |-> links'[k]]
    BY DEF P!create_request
  <2>3. QED  BY <2>1, <2>2
<1>5. OnePending'
  BY <1>2, <1>3 DEF OnePending
<1>6. UnusedWaits'
  BY <1>2, <1>3 DEF UnusedWaits, LinksInv
<1>7. UsedOnce'
  BY <1>2, <1>3 DEF UsedOnce, LinksInv
<1>8. \A k \in P!Links : links'[k].status = "none" => links'[k].mail = "sending"
  BY <1>1, <1>2, <1>3 DEF SenderKnows, LinksInv
<1>9. LinksStay
  BY <1>1, <1>2, <1>3 DEF SenderKnows, LinksInv, LinksStay
<1>10. QED  BY <1>4, <1>5, <1>6, <1>7, <1>8, <1>9

\* A tab goes where it may.
LEMMA TabGoes ==
  ASSUME LinksInv, LinksStay, NEW t \in P!Tabs, NEW a \in [at : TabStates, link : P!Links \cup {0}],
         tabs' = [tabs EXCEPT ![t] = a],
         a.at # "away" => a.link \in P!Links,
         a.at \in {"recorded", "thanks"} =>
            links'[a.link].status = "completed" /\ links'[a.link].uses = 1,
         a.at = "checked" => kind \in P!Threaded, UNCHANGED kind
  PROVE  tabs' \in [P!Tabs -> [at : TabStates, link : P!Links \cup {0}]] /\ TabsKnow'
<1>1. /\ tabs \in [P!Tabs -> [at : TabStates, link : P!Links \cup {0}]]
      /\ \A u \in P!Tabs : tabs'[u] = IF u = t THEN a ELSE tabs[u]
  BY DEF LinksInv, Typed
<1>2. QED  BY <1>1 DEF LinksInv, TabsKnow, LinksStay

\* A step that changes one link, and neither uses it nor makes it wait.
LEMMA LinkKeeps ==
  ASSUME LinksInv, NEW l \in P!Links, NEW a \in P!Link,
         links' = [links EXCEPT ![l] = a],
         a.uses = links[l].uses,
         a.card = "kept" => links[l].card = "kept",
         a.status \in {links[l].status, "expired", "revoked"},
         links[l].status # "pending" => a.status = links[l].status,
         links[l].status = "none" => a.mail = "sending",
         links[l].mail = "sent" => a.mail = "sent",
         a.status = "none" => links[l].status = "none",
         UNCHANGED <<kind, taken>>
  PROVE  /\ links' \in [P!Links -> P!Link] /\ OnePending' /\ UnusedWaits' /\ UsedOnce'
         /\ \A k \in P!Links : links'[k].status = "none" => links'[k].mail = "sending"
         /\ LinksStay
<1>1. /\ links \in [P!Links -> P!Link]
      /\ \A k \in P!Links : links'[k] = IF k = l THEN a ELSE links[k]
  BY DEF LinksInv, Typed
<1>2. links' \in [P!Links -> P!Link]
  BY <1>1
<1>3. OnePending'
  BY <1>1 DEF LinksInv, OnePending
<1>4. UnusedWaits'
  BY <1>1 DEF LinksInv, UnusedWaits
<1>5. UsedOnce'
  BY <1>1 DEF LinksInv, UsedOnce
<1>6. \A k \in P!Links : links'[k].status = "none" => links'[k].mail = "sending"
  BY <1>1 DEF LinksInv, SenderKnows
<1>7. LinksStay
  BY <1>1 DEF LinksStay
<1>8. QED  BY <1>2, <1>3, <1>4, <1>5, <1>6, <1>7

\* A tab that records what its link asks for: nobody did before.
LEMMA RecordKeeps ==
  ASSUME LinksInv, NEW t \in P!Tabs, tabs[t].at # "away", P!Record(t), UNCHANGED <<kind, sender>>,
         IF kind \in P!Threaded THEN ~ taken ELSE links[tabs[t].link].status = "pending"
  PROVE  LinksInv'
<1> DEFINE l == tabs[t].link
<1>1. /\ l \in P!Links /\ links \in [P!Links -> P!Link]
      /\ links[l].uses = 0 /\ links[l].card # "kept"
      /\ kind \in P!Threaded => \A k \in P!Links : links[k].uses = 0
  BY DEF LinksInv, Typed, TabsKnow, UnusedWaits, UsedOnce
<1>2. /\ links'[l] = P!Used(l)
      /\ \A k \in P!Links \ {l} :
            links'[k] = IF kind = "owner" THEN P!_expire_pending_tokens(k) ELSE links[k]
      /\ links' = [k \in P!Links |-> links'[k]]
  BY <1>1 DEF P!Record
<1>3. /\ links'[l] \in P!Link /\ links'[l].status = "completed" /\ links'[l].uses = 1
      /\ links'[l].mail = links[l].mail
  <2> DEFINE old == links[l]
             c == IF kind = "card" THEN "kept" ELSE old.card
             n == IF old.uses = 2 THEN 2 ELSE old.uses + 1
  <2>1. old \in P!Link /\ old.card \in {"none", "kept", "purged"} /\ n = 1
    BY <1>1 DEF P!Link
  <2>2. c \in {"none", "kept", "purged"}
    BY <2>1
  <2>3. links'[l] = [old EXCEPT !.status = "completed", !.uses = n, !.card = c]
    BY <1>2 DEF P!Used
  <2> HIDE DEF n, c, old
  <2>4. links'[l] = [status |-> "completed", late |-> old.late, mail |-> old.mail,
                     card |-> c, uses |-> 1]
    BY <2>1, <2>3 DEF P!Link
  <2>5. links'[l] \in P!Link
    BY <2>1, <2>2, <2>4 DEF P!Link
  <2>6. QED  BY <2>4, <2>5 DEF old
<1>4. \A k \in P!Links \ {l} :
        /\ links'[k] \in P!Link
        /\ links'[k].uses = links[k].uses /\ links'[k].card = links[k].card
        /\ links'[k].mail = links[k].mail
        /\ links'[k].status \in {links[k].status, "expired"}
        /\ links[k].status # "pending" => links'[k].status = links[k].status
  BY <1>1, <1>2 DEF P!_expire_pending_tokens, P!Link
<1>5. links' \in [P!Links -> P!Link]
  <2>1. \A k \in P!Links : links'[k] \in P!Link
    BY <1>3, <1>4
  <2>2. QED  BY <1>2, <2>1
<1>6. taken' \in BOOLEAN /\ (taken => taken') /\ (kind \in P!Threaded => taken')
  BY DEF P!Record, LinksInv, Typed
<1>7. OnePending'
  BY <1>3, <1>4 DEF OnePending, LinksInv
<1>8. UnusedWaits'
  BY <1>3, <1>4, <1>6 DEF UnusedWaits, LinksInv
<1>9. UsedOnce'
  BY <1>1, <1>3, <1>4 DEF UsedOnce, LinksInv
<1>10. LinksStay
  BY <1>1, <1>3, <1>4 DEF LinksStay, LinksInv, UsedOnce
<1>11. /\ tabs' \in [P!Tabs -> [at : TabStates, link : P!Links \cup {0}]]
       /\ TabsKnow'
  <2> DEFINE a == [tabs[t] EXCEPT !.at = "recorded"]
  <2>1. a \in [at : TabStates, link : P!Links \cup {0}] /\ a.at = "recorded" /\ a.link = l
    BY DEF LinksInv, Typed, TabStates
  <2>2. tabs' = [tabs EXCEPT ![t] = a]
    BY DEF P!Record, P!Goes
  <2> HIDE DEF a
  <2>3. QED  BY <1>1, <1>3, <1>10, <2>1, <2>2, TabGoes
<1>12. SenderKnows'
  BY <1>1, <1>3, <1>4, <1>6 DEF SenderKnows, LinksInv
<1>13. QED  BY <1>5, <1>6, <1>7, <1>8, <1>9, <1>11, <1>12 DEF LinksInv, Typed

-----------------------------------------------------------------------------
(* Issuing *)

\* A step of the sender's page, or of nobody's, that moves no tab.
LEMMA SenderGoes ==
  ASSUME LinksInv, LinksStay, links' \in [P!Links -> P!Link], OnePending', UnusedWaits', UsedOnce',
         \A k \in P!Links : links'[k].status = "none" => links'[k].mail = "sending",
         UNCHANGED <<kind, taken, tabs>>,
         sender' \in [link : P!Links \cup {0}, busy : BOOLEAN, said : BOOLEAN, onFile : BOOLEAN],
         sender'.said => sender'.link \in P!Links /\ links'[sender'.link].mail = "sent",
         sender'.onFile => kind = "terms" /\ taken
  PROVE  LinksInv'
<1>1. TabsKnow'
  BY DEF LinksInv, TabsKnow, LinksStay
<1>2. SenderKnows'
  BY DEF SenderKnows
<1>3. Typed'
  BY DEF LinksInv, Typed
<1>4. QED  BY <1>1, <1>2, <1>3 DEF LinksInv

LEMMA SenderStays ==
  ASSUME LinksInv, LinksStay, UNCHANGED <<kind, taken, sender>>
  PROVE  /\ sender' \in [link : P!Links \cup {0}, busy : BOOLEAN, said : BOOLEAN, onFile : BOOLEAN]
         /\ sender'.said => sender'.link \in P!Links /\ links'[sender'.link].mail = "sent"
         /\ sender'.onFile => kind = "terms" /\ taken
  BY DEF LinksInv, Typed, SenderKnows, LinksStay

LEMMA SendElsewhereKeeps ==
  ASSUME LinksInv, NEW l \in P!Links, P!SendElsewhere(l)
  PROVE  LinksInv'
<1>1. P!create_request(l) /\ UNCHANGED <<kind, taken, tabs, sender>>
  BY DEF P!SendElsewhere
<1>2. QED  BY <1>1, CreateKeeps, SenderStays, SenderGoes

LEMMA SendEmailKeeps ==
  ASSUME LinksInv, NEW l \in P!Links, P!handleSendEmail(l)
  PROVE  LinksInv'
<1>1. P!create_request(l) /\ UNCHANGED <<kind, taken, tabs>>
  BY DEF P!handleSendEmail
<1>2. sender' = [sender EXCEPT !.busy = TRUE, !.said = FALSE, !.link = l] /\ ~ sender.onFile
  BY DEF P!handleSendEmail
<1>3. /\ sender' \in [link : P!Links \cup {0}, busy : BOOLEAN, said : BOOLEAN, onFile : BOOLEAN]
      /\ ~ sender'.said /\ ~ sender'.onFile
  BY <1>2 DEF LinksInv, Typed
<1>4. QED  BY <1>1, <1>3, CreateKeeps, SenderGoes

LEMMA OpenSenderKeeps ==
  ASSUME LinksInv, P!OpenSender
  PROVE  LinksInv'
<1>1. PICK s \in {sender, P!refreshStatus(sender)} : sender' = [s EXCEPT !.said = FALSE, !.link = 0]
  BY DEF P!OpenSender
<1>2. UNCHANGED <<kind, links, taken, tabs>>
  BY DEF P!OpenSender
<1>3. /\ s \in [link : P!Links \cup {0}, busy : BOOLEAN, said : BOOLEAN, onFile : BOOLEAN]
      /\ s.onFile => kind = "terms" /\ taken
  BY <1>1 DEF LinksInv, Typed, SenderKnows, P!refreshStatus
<1>4. /\ sender' \in [link : P!Links \cup {0}, busy : BOOLEAN, said : BOOLEAN, onFile : BOOLEAN]
      /\ ~ sender'.said /\ (sender'.onFile => kind = "terms" /\ taken)
  BY <1>1, <1>3
<1>5. /\ links' \in [P!Links -> P!Link] /\ LinksStay
      /\ OnePending' /\ UnusedWaits' /\ UsedOnce' /\ TabsKnow'
      /\ \A k \in P!Links : links'[k].status = "none" => links'[k].mail = "sending"
  BY <1>2 DEF LinksInv, Typed, LinksStay, OnePending, UnusedWaits, UsedOnce, TabsKnow, SenderKnows
<1>6. QED  BY <1>2, <1>4, <1>5, SenderGoes

LEMMA EmailKeeps ==
  ASSUME LinksInv, NEW l \in P!Links, P!send_email(l)
  PROVE  LinksInv'
<1>1. PICK m \in {"sent", "failed"}, answered \in BOOLEAN :
        /\ links' = [links EXCEPT ![l].mail = m]
        /\ sender' = IF sender.busy /\ sender.link = l
                       THEN [(IF m = "sent" /\ answered THEN P!refreshStatus(sender) ELSE sender)
                                EXCEPT !.busy = FALSE, !.said = (m = "sent" /\ answered)]
                       ELSE sender
  BY DEF P!send_email
<1>2. /\ links[l].status # "none" /\ links[l].mail = "sending" /\ UNCHANGED <<kind, taken, tabs>>
      /\ links[l] \in P!Link
  BY DEF P!send_email, LinksInv, Typed
<1> DEFINE a == [links[l] EXCEPT !.mail = m]
<1>3. /\ a \in P!Link /\ a.uses = links[l].uses /\ a.card = links[l].card
      /\ a.status = links[l].status /\ a.mail = m
  BY <1>2 DEF P!Link
<1>4. links' = [links EXCEPT ![l] = a]
  BY <1>1
<1> HIDE DEF a
<1>5. /\ links' \in [P!Links -> P!Link] /\ OnePending' /\ UnusedWaits' /\ UsedOnce'
      /\ \A k \in P!Links : links'[k].status = "none" => links'[k].mail = "sending"
      /\ LinksStay
  BY <1>2, <1>3, <1>4, LinkKeeps
<1>6. links'[l].mail = m
  BY <1>3, <1>4, <1>5 DEF LinksInv, Typed
<1>7. CASE ~ (sender.busy /\ sender.link = l)
  BY <1>1, <1>2, <1>5, <1>7, SenderStays, SenderGoes
<1>8. CASE sender.busy /\ sender.link = l
  <2>1. PICK s \in {sender, P!refreshStatus(sender)} :
          sender' = [s EXCEPT !.busy = FALSE, !.said = (m = "sent" /\ answered)]
    BY <1>1, <1>8
  <2>2. /\ s \in [link : P!Links \cup {0}, busy : BOOLEAN, said : BOOLEAN, onFile : BOOLEAN]
        /\ (s.onFile => kind = "terms" /\ taken) /\ s.link = l
    BY <1>8, <2>1 DEF LinksInv, Typed, SenderKnows, P!refreshStatus
  <2>3. /\ sender' \in [link : P!Links \cup {0}, busy : BOOLEAN, said : BOOLEAN, onFile : BOOLEAN]
        /\ sender'.said => m = "sent"
        /\ sender'.link = l /\ (sender'.onFile => kind = "terms" /\ taken)
    BY <2>1, <2>2
  <2>4. QED  BY <1>2, <1>5, <1>6, <2>3, SenderGoes
<1>9. QED  BY <1>7, <1>8

\* What a step of the links must leave for the rest to follow.
LinksFine ==
    /\ links' \in [P!Links -> P!Link] /\ OnePending' /\ UnusedWaits' /\ UsedOnce'
    /\ \A k \in P!Links : links'[k].status = "none" => links'[k].mail = "sending"
    /\ LinksStay

LEMMA SameLinks ==
  ASSUME LinksInv, UNCHANGED <<kind, links, taken>>
  PROVE  LinksFine
  BY DEF LinksFine, LinksInv, Typed, LinksStay, OnePending, UnusedWaits, UsedOnce, SenderKnows

LEMMA MarkKeeps ==
  ASSUME LinksInv, NEW l \in P!Links, links[l].status = "pending",
         P!Mark(l, "expired") \/ P!Mark(l, "revoked"), UNCHANGED <<kind, taken>>
  PROVE  LinksFine
<1>1. PICK s \in {"expired", "revoked"} : links' = [links EXCEPT ![l].status = s]
  BY DEF P!Mark
<1> DEFINE a == [links[l] EXCEPT !.status = s]
<1>2. links[l] \in P!Link
  BY DEF LinksInv, Typed
<1>3. /\ a \in P!Link /\ a.uses = links[l].uses /\ a.card = links[l].card
      /\ a.status = s /\ a.mail = links[l].mail
  BY <1>2 DEF P!Link
<1>4. links' = [links EXCEPT ![l] = a]
  BY <1>1
<1> HIDE DEF a
<1>5. QED  BY <1>3, <1>4, LinkKeeps DEF LinksFine

\* A card is purged.
LEMMA PurgeKeeps ==
  ASSUME LinksInv, NEW l \in P!Links, links' = [links EXCEPT ![l].card = "purged"],
         UNCHANGED <<kind, taken, tabs, sender>>
  PROVE  LinksInv'
<1> DEFINE a == [links[l] EXCEPT !.card = "purged"]
<1>1. links[l] \in P!Link /\ (links[l].status = "none" => links[l].mail = "sending")
  BY DEF LinksInv, Typed, SenderKnows
<1>2. /\ a \in P!Link /\ a.uses = links[l].uses /\ a.card = "purged"
      /\ a.status = links[l].status /\ a.mail = links[l].mail
  BY <1>1 DEF P!Link
<1>3. links' = [links EXCEPT ![l] = a]
  OBVIOUS
<1> HIDE DEF a
<1>4. LinksFine
  BY <1>1, <1>2, <1>3, LinkKeeps DEF LinksFine
<1>5. QED  BY <1>4, SenderStays, SenderGoes DEF LinksFine

LEMMA LapseKeeps ==
  ASSUME LinksInv, NEW l \in P!Links, P!Lapse(l)
  PROVE  LinksInv'
<1> DEFINE a == [links[l] EXCEPT !.late = TRUE]
<1>1. links[l] \in P!Link /\ (links[l].status = "none" => links[l].mail = "sending")
  BY DEF LinksInv, Typed, SenderKnows
<1>2. /\ a \in P!Link /\ a.uses = links[l].uses /\ a.card = links[l].card
      /\ a.status = links[l].status /\ a.mail = links[l].mail
  BY <1>1 DEF P!Link
<1>3. links' = [links EXCEPT ![l] = a] /\ UNCHANGED <<kind, taken, tabs, sender>>
  BY DEF P!Lapse
<1> HIDE DEF a
<1>4. LinksFine
  BY <1>1, <1>2, <1>3, LinkKeeps DEF LinksFine
<1>5. QED  BY <1>3, <1>4, SenderStays, SenderGoes DEF LinksFine

LEMMA CancelKeeps ==
  ASSUME LinksInv, NEW l \in P!Links, P!cancel_invitation(l)
  PROVE  LinksInv'
<1>1. LinksFine /\ UNCHANGED <<kind, taken, tabs, sender>>
  BY MarkKeeps DEF P!cancel_invitation, P!Usable
<1>2. QED  BY <1>1, SenderStays, SenderGoes DEF LinksFine

\* The waiver is the only thing that is forgotten, and it is no account.
LEMMA ClearKeeps ==
  ASSUME LinksInv, P!clear_annual_insurance
  PROVE  LinksInv'
<1>1. kind = "waiver" /\ taken' = FALSE /\ UNCHANGED <<kind, links, tabs, sender>>
  BY DEF P!clear_annual_insurance
<1>2. Typed' /\ OnePending' /\ TabsKnow'
  BY <1>1 DEF LinksInv, Typed, OnePending, TabsKnow
<1>3. UnusedWaits' /\ UsedOnce' /\ SenderKnows'
  BY <1>1 DEF LinksInv, UnusedWaits, UsedOnce, SenderKnows
<1>4. QED  BY <1>2, <1>3 DEF LinksInv

-----------------------------------------------------------------------------
(* The receiver's page *)

\* A tab that stays on its link and tells of no success.
LEMMA TabMoves ==
  ASSUME LinksInv, LinksFine, UNCHANGED <<kind, taken, sender>>, NEW t \in P!Tabs,
         NEW a \in [at : TabStates, link : P!Links \cup {0}],
         tabs' = [tabs EXCEPT ![t] = a],
         a.at # "away" => a.link \in P!Links,
         a.at \in {"recorded", "thanks"} =>
            links'[a.link].status = "completed" /\ links'[a.link].uses = 1,
         a.at = "checked" => kind \in P!Threaded
  PROVE  LinksInv'
<1>1. /\ tabs' \in [P!Tabs -> [at : TabStates, link : P!Links \cup {0}]]
      /\ TabsKnow'
  BY TabGoes DEF LinksFine
<1>2. Typed' /\ SenderKnows'
  BY <1>1 DEF LinksInv, LinksFine, Typed, SenderKnows, LinksStay
<1>3. QED  BY <1>1, <1>2 DEF LinksFine, LinksInv

LEMMA GoesKeeps ==
  ASSUME LinksInv, LinksFine, UNCHANGED <<kind, taken, sender>>, NEW t \in P!Tabs,
         tabs[t].at # "away",
         NEW at \in TabStates \ {"recorded", "thanks"}, P!Goes(t, at),
         at = "checked" => kind \in P!Threaded
  PROVE  LinksInv'
<1> DEFINE a == [tabs[t] EXCEPT !.at = at]
<1>1. tabs[t] \in [at : TabStates, link : P!Links \cup {0}] /\ tabs[t].link \in P!Links
  BY DEF LinksInv, Typed, TabsKnow
<1>2. a \in [at : TabStates, link : P!Links \cup {0}] /\ a.at = at /\ a.link \in P!Links
  BY <1>1
<1>3. tabs' = [tabs EXCEPT ![t] = a]
  BY DEF P!Goes
<1> HIDE DEF a
<1>4. QED  BY <1>2, <1>3, TabMoves

LEMMA LeavesKeeps ==
  ASSUME LinksInv, LinksFine, UNCHANGED <<kind, taken, sender>>, NEW t \in P!Tabs,
         tabs[t].at # "away", NEW how, NEW at \in {"unavailable", "thanks"},
         at = "thanks" => tabs[t].at = "recorded", P!Leaves(t, how, at)
  PROVE  LinksInv'
<1>1. /\ tabs[t] \in [at : TabStates, link : P!Links \cup {0}] /\ tabs[t].link \in P!Links
      /\ at = "thanks" => links'[tabs[t].link].status = "completed"
                          /\ links'[tabs[t].link].uses = 1
  BY DEF LinksInv, Typed, TabsKnow, LinksFine, LinksStay
<1>2. CASE how = "left"
  <2>1. /\ P!Away \in [at : TabStates, link : P!Links \cup {0}] /\ P!Away.at = "away"
        /\ tabs' = [tabs EXCEPT ![t] = P!Away]
    BY <1>2 DEF P!Away, TabStates, P!Leaves
  <2>2. QED  BY <2>1, TabMoves
<1>3. CASE how # "left"
  <2> DEFINE a == [tabs[t] EXCEPT !.at = at]
  <2>1. a \in [at : TabStates, link : P!Links \cup {0}] /\ a.at = at /\ a.link = tabs[t].link
    BY <1>1 DEF TabStates
  <2>2. tabs' = [tabs EXCEPT ![t] = a]
    BY <1>3 DEF P!Leaves
  <2> HIDE DEF a
  <2>3. QED  BY <1>1, <2>1, <2>2, TabMoves
<1>4. QED  BY <1>2, <1>3

LEMMA LookedKeeps ==
  ASSUME LinksInv, NEW l \in P!Links, P!Looked(l), UNCHANGED <<kind, taken>>
  PROVE  LinksFine
<1>1. CASE links[l].status = "pending" /\ P!Mark(l, "expired")
  BY <1>1, MarkKeeps
<1>2. CASE UNCHANGED links
  BY <1>2, SameLinks
<1>3. QED  BY <1>1, <1>2 DEF P!Looked

LEMMA OpenKeeps ==
  ASSUME LinksInv, NEW t \in P!Tabs, NEW l \in P!Links, P!OpenLink(t, l)
  PROVE  LinksInv'
<1> DEFINE a == [at |-> "loading", link |-> l]
<1>1. /\ a \in [at : TabStates, link : P!Links \cup {0}] /\ a.at = "loading" /\ a.link = l
      /\ tabs' = [tabs EXCEPT ![t] = a] /\ UNCHANGED <<kind, links, taken, sender>>
  BY DEF P!OpenLink, TabStates
<1> HIDE DEF a
<1>2. QED  BY <1>1, SameLinks, TabMoves

LEMMA CloseKeeps ==
  ASSUME LinksInv, NEW t \in P!Tabs, P!CloseTab(t)
  PROVE  LinksInv'
<1>1. /\ P!Away \in [at : TabStates, link : P!Links \cup {0}] /\ P!Away.at = "away"
      /\ tabs' = [tabs EXCEPT ![t] = P!Away] /\ UNCHANGED <<kind, links, taken, sender>>
  BY DEF P!CloseTab, P!Away, TabStates
<1>2. QED  BY <1>1, SameLinks, TabMoves

LEMMA ValidateKeeps ==
  ASSUME LinksInv, NEW t \in P!Tabs, P!validate_token(t)
  PROVE  LinksInv'
<1>1. tabs[t].at # "away" /\ tabs[t].link \in P!Links /\ UNCHANGED <<kind, taken, sender>>
  BY DEF P!validate_token, LinksInv, TabsKnow
<1>2. CASE P!Goes(t, "form") /\ UNCHANGED links
  BY <1>1, <1>2, SameLinks, GoesKeeps DEF TabStates
<1>3. CASE P!Looked(tabs[t].link) /\ P!Leaves(t, P!PageOf[kind].dead, "unavailable")
  BY <1>1, <1>3, LookedKeeps, LeavesKeeps
<1>4. CASE P!Leaves(t, P!PageOf[kind].dead, "unavailable") /\ UNCHANGED links
  BY <1>1, <1>4, SameLinks, LeavesKeeps
<1>5. QED  BY <1>2, <1>3, <1>4 DEF P!validate_token

LEMMA SubmitKeeps ==
  ASSUME LinksInv, NEW t \in P!Tabs, P!handleSubmit(t) \/ P!Lose(t)
  PROVE  LinksInv'
<1>1. tabs[t].at # "away" /\ UNCHANGED <<kind, links, taken, sender>>
  BY DEF P!handleSubmit, P!Lose
<1>2. P!Goes(t, "sent") \/ P!Goes(t, "form")
  BY DEF P!handleSubmit, P!Lose
<1>3. QED  BY <1>1, <1>2, SameLinks, GoesKeeps DEF TabStates

LEMMA CompleteKeeps ==
  ASSUME LinksInv, NEW t \in P!Tabs, P!complete(t)
  PROVE  LinksInv'
<1>1. /\ kind \notin P!Threaded /\ tabs[t].at # "away" /\ tabs[t].link \in P!Links
      /\ UNCHANGED <<kind, sender>>
  BY DEF P!complete, LinksInv, TabsKnow
<1>2. CASE P!Completes(tabs[t].link) /\ P!Record(t)
  BY <1>1, <1>2, RecordKeeps DEF P!Completes, P!Usable
<1>3. CASE P!Looked(tabs[t].link) /\ P!Goes(t, "refused") /\ UNCHANGED taken
  BY <1>1, <1>3, LookedKeeps, GoesKeeps DEF TabStates
<1>4. QED  BY <1>2, <1>3 DEF P!complete

LEMMA AcceptKeeps ==
  ASSUME LinksInv, NEW t \in P!Tabs, P!accept_invitation(t)
  PROVE  LinksInv'
<1>1. /\ tabs[t].at # "away" /\ kind \in P!Threaded
      /\ UNCHANGED <<kind, links, taken, sender>>
  BY DEF P!accept_invitation
<1>2. P!Goes(t, "checked") \/ P!Goes(t, "refused")
  BY DEF P!accept_invitation
<1>3. QED  BY <1>1, <1>2, SameLinks, GoesKeeps DEF TabStates

\* The thread read the link before, and its row may have changed since: what keeps a
\* second account out is the unique index.
LEMMA CommitKeeps ==
  ASSUME LinksInv, NEW t \in P!Tabs, P!accept_commit(t)
  PROVE  LinksInv'
<1>1. tabs[t].at # "away" /\ kind \in P!Threaded /\ UNCHANGED <<kind, sender>>
  BY DEF P!accept_commit, LinksInv, TabsKnow
<1>2. CASE P!NewAccount /\ P!Record(t)
  BY <1>1, <1>2, RecordKeeps DEF P!NewAccount
<1>3. CASE P!Goes(t, "refused") /\ UNCHANGED <<links, taken>>
  BY <1>1, <1>3, SameLinks, GoesKeeps DEF TabStates
<1>4. QED  BY <1>2, <1>3 DEF P!accept_commit

LEMMA HearKeeps ==
  ASSUME LinksInv, NEW t \in P!Tabs, P!Hear(t)
  PROVE  LinksInv'
<1>1. tabs[t].at # "away" /\ UNCHANGED <<kind, links, taken, sender>>
  BY DEF P!Hear
<1>2. CASE tabs[t].at = "recorded" /\ P!Leaves(t, P!PageOf[kind].done, "thanks")
  BY <1>1, <1>2, SameLinks, LeavesKeeps
<1>3. CASE P!Goes(t, "form")
  BY <1>1, <1>3, SameLinks, GoesKeeps DEF TabStates
<1>4. QED  BY <1>2, <1>3 DEF P!Hear

-----------------------------------------------------------------------------
(* The card vault, and the whole *)

\* A purge that is under way is of a link.
VaultKnows ==
    /\ vault \in [shown : P!Links \cup {0}, doing : {"nothing", "reveal", "purge"},
                  target : P!Links \cup {0}]
    /\ vault.doing = "purge" => vault.target \in P!Links

PortalInv == LinksInv /\ VaultKnows

LEMMA VaultKeeps ==
  ASSUME PortalInv, P!Vault
  PROVE  PortalInv'
<1>1. ASSUME NEW l \in P!Links, P!handleReveal(l)
      PROVE  PortalInv'
  <2>1. UNCHANGED <<kind, links, taken, tabs, sender>>
    BY <1>1 DEF P!handleReveal
  <2>2. LinksInv'
    BY <2>1, SameLinks, SenderStays, SenderGoes DEF LinksFine, PortalInv
  <2>3. VaultKnows'
    BY <1>1 DEF P!handleReveal, VaultKnows, PortalInv
  <2>4. QED  BY <2>2, <2>3 DEF PortalInv
<1>2. ASSUME P!Revealed \/ P!handlePurge
      PROVE  PortalInv'
  <2>1. UNCHANGED <<kind, links, taken, tabs, sender>>
    BY <1>2 DEF P!Revealed, P!handlePurge
  <2>2. LinksInv'
    BY <2>1, SameLinks, SenderStays, SenderGoes DEF LinksFine, PortalInv
  <2>3. VaultKnows'
    <3>1. VaultKnows
      BY DEF PortalInv
    <3>2. CASE P!Revealed
      <4>1. PICK shown \in P!Links \cup {0} :
              vault' = [shown |-> shown, doing |-> "nothing", target |-> 0]
        BY <3>1, <3>2 DEF P!Revealed, VaultKnows
      <4>2. QED  BY <4>1 DEF VaultKnows
    <3>3. CASE P!handlePurge
      BY <3>1, <3>3 DEF P!handlePurge, VaultKnows
    <3>4. QED  BY <1>2, <3>2, <3>3
  <2>4. QED  BY <2>2, <2>3 DEF PortalInv
<1>3. ASSUME P!Purged
      PROVE  PortalInv'
  <2>1. /\ UNCHANGED <<kind, taken, tabs, sender>> /\ vault.target \in P!Links
        /\ links' = [links EXCEPT ![vault.target].card = "purged"] \/ UNCHANGED links
    BY <1>3 DEF P!Purged, VaultKnows, PortalInv
  <2>2. LinksInv'
    BY <2>1, PurgeKeeps, SameLinks, SenderStays, SenderGoes DEF LinksFine, PortalInv
  <2>3. VaultKnows'
    <3>1. VaultKnows
      BY DEF PortalInv
    <3>2. \/ \E shown \in P!Links \cup {0} :
               vault' = [shown |-> shown, doing |-> "nothing", target |-> 0]
          \/ vault' = [vault EXCEPT !.doing = "nothing", !.target = 0]
      BY <1>3, <3>1 DEF P!Purged, VaultKnows
    <3>3. ASSUME NEW shown \in P!Links \cup {0},
                 vault' = [shown |-> shown, doing |-> "nothing", target |-> 0]
          PROVE  VaultKnows'
      BY <3>3 DEF VaultKnows
    <3>4. CASE vault' = [vault EXCEPT !.doing = "nothing", !.target = 0]
      BY <3>1, <3>4 DEF VaultKnows
    <3>5. QED  BY <3>2, <3>3, <3>4
  <2>4. QED  BY <2>2, <2>3 DEF PortalInv
<1>4. ASSUME P!PurgedElsewhere
      PROVE  PortalInv'
  BY <1>4, PurgeKeeps DEF P!PurgedElsewhere, VaultKnows, PortalInv
<1>5. QED  BY <1>1, <1>2, <1>3, <1>4 DEF P!Vault

LEMMA PageKeeps ==
  ASSUME PortalInv, NEW t \in P!Tabs, P!Page(t)
  PROVE  PortalInv'
<1>1. LinksInv'
  BY OpenKeeps, CloseKeeps, ValidateKeeps, SubmitKeeps, CompleteKeeps, AcceptKeeps,
     CommitKeeps, HearKeeps DEF P!Page, PortalInv
<1>2. UNCHANGED vault
  BY DEF P!Page, P!OpenLink, P!CloseTab, P!validate_token, P!handleSubmit, P!complete,
         P!accept_invitation, P!accept_commit, P!Hear, P!Lose
<1>3. QED  BY <1>1, <1>2 DEF PortalInv, VaultKnows

LEMMA ServerKeeps ==
  ASSUME PortalInv, P!Server \/ P!Sender
  PROVE  PortalInv'
<1>1. LinksInv'
  BY SendElsewhereKeeps, EmailKeeps, LapseKeeps, CancelKeeps, ClearKeeps, SendEmailKeeps,
     OpenSenderKeeps DEF P!Server, P!Sender, PortalInv
<1>2. UNCHANGED vault
  BY DEF P!Server, P!Sender, P!SendElsewhere, P!send_email, P!Lapse, P!cancel_invitation,
         P!clear_annual_insurance, P!handleSendEmail, P!OpenSender
<1>3. QED  BY <1>1, <1>2 DEF PortalInv, VaultKnows

LEMMA InitKeeps ==
  ASSUME P!Init
  PROVE  PortalInv
<1>1. P!NoLink \in P!Link /\ P!NoLink.status = "none" /\ P!NoLink.uses = 0
      /\ P!NoLink.mail = "sending" /\ P!NoLink.card = "none"
  BY DEF P!NoLink, P!Link
<1>2. \A l \in P!Links : links[l] = P!NoLink
  BY DEF P!Init
<1>3. Typed
  BY <1>1 DEF P!Init, Typed, TabStates, P!Away
<1>4. OnePending /\ UnusedWaits /\ UsedOnce
  BY <1>1, <1>2 DEF OnePending, UnusedWaits, UsedOnce
<1>5. TabsKnow /\ SenderKnows /\ VaultKnows
  BY <1>1, <1>2 DEF P!Init, TabsKnow, SenderKnows, VaultKnows, P!Away
<1>6. QED  BY <1>3, <1>4, <1>5 DEF PortalInv, LinksInv

\* The links of the forms' composition keep their invariant, for any number of links,
\* invitations and tabs.
THEOREM PortalInductive == MCSpec => [](screen = "links" => PortalInv)
<1> DEFINE I == screen = "links" => PortalInv
<1>1. MCInit => I
  BY InitKeeps DEF MCInit
<1>2. I /\ [MCNext]_formVars => I'
  <2> SUFFICES ASSUME I, [MCNext]_formVars, screen' = "links"  PROVE PortalInv'
    OBVIOUS
  <2>1. CASE UNCHANGED formVars
    <3>1. PortalInv /\ UNCHANGED linkVars
      BY <2>1 DEF formVars
    <3>2. UNCHANGED <<kind, links, taken, tabs, sender, vault>>
      BY <3>1 DEF linkVars
    <3>3. LinksInv'
      BY <3>1, <3>2, SameLinks, SenderStays, SenderGoes DEF LinksFine, PortalInv
    <3>4. QED  BY <3>1, <3>2, <3>3 DEF PortalInv, VaultKnows
  <2>2. CASE MCNext
    <3>1. PortalInv /\ P!Next
      BY <2>2 DEF MCNext
    <3>2. QED  BY <3>1, VaultKeeps, PageKeeps, ServerKeeps DEF P!Next
  <2>3. QED  BY <2>1, <2>2
<1>3. QED  BY <1>1, <1>2, PTL DEF MCSpec

\* However often the links of one purpose are sent again, at most one of them works:
\* issuing one expires the pending one before it.
THEOREM PortalOneLink == MCSpec => []OneLinkWorks
<1>1. (screen = "links" => PortalInv) => OneLinkWorks
  BY DEF OneLinkWorks, P!OneLiveLink, P!Usable, PortalInv, LinksInv, OnePending
<1>2. QED  BY <1>1, PortalInductive, PTL

\* A link takes effect once, in however many tabs it is submitted; a card that was purged
\* was recorded once, and all the invitations of an address make one account.
THEOREM PortalActsOnce == MCSpec => []LinkActsOnce
<1>1. (screen = "links" => PortalInv) => LinkActsOnce
  BY DEF LinkActsOnce, P!ActsOnce, PortalInv, LinksInv, UsedOnce
<1>2. QED  BY <1>1, PortalInductive, PTL

\* Whoever was thanked has had it recorded and the link is closed for good; a sender who
\* was told so has sent a link, and has the terms on file.
THEOREM PortalThanks == MCSpec => []ThanksAreTrue
<1>1. (screen = "links" => PortalInv) => ThanksAreTrue
  BY DEF PortalInv, LinksInv, TabsKnow, SenderKnows, ThanksAreTrue, P!ThanksIsTrue
<1>2. QED  BY <1>1, PortalInductive, PTL

-----------------------------------------------------------------------------

AppStates ==
    [view : Views, part : Parts, hasty : BOOLEAN, form : Content, from : 0 .. NRequests,
     id : 0 .. NForms, last : 0 .. NForms, request : 0 .. NRequests, shown : BOOLEAN,
     draft : 0 .. NGroups, picked : 0 .. NGroups, options : 0 .. NGroups,
     dialogs : SUBSET Dialogs, told : SUBSET Forms, note : BOOLEAN, submitting : BOOLEAN,
     loading : BOOLEAN, saving : BOOLEAN, closing : BOOLEAN, uploading : BOOLEAN]

Handlers ==
    [kind : Kinds, request : 0 .. NRequests, from : 0 .. NRequests, id : 0 .. NForms,
     own : BOOLEAN, note : BOOLEAN, group : 0 .. NGroups, payload : Content]

\* The steps by which a request is made: one of them is in flight at most.
Making == {"create", "note", "board"}

\* The form is whole at every edit; only an intake has a group and a number; the text in
\* the form of a patient agent is that of the request in view.
AppFine(a) ==
    /\ a \in AppStates
    /\ Whole(a.form)
    /\ IF a.view = "new" THEN a.draft = a.form.group ELSE a.form.group = 0 /\ a.id = 0
    /\ a.view = "edit" => a.request \in Requests
    /\ a.options \in {0, a.picked}
    /\ a.hasty \/ a.from \in {0, a.request}
    /\ a.id <= a.last

SrvFine(a, s) ==
    /\ s \in [Requests -> [from : 0 .. NRequests, by : 0 .. NForms]]
    /\ \A q \in Requests : s[q].by <= a.last /\ (a.hasty \/ s[q].from \in {0, q})
    /\ \A q, r \in Requests : q # r /\ s[q].by # 0 /\ s[q].by = s[r].by => s[q].by \in a.told

\* What a handler in flight has to do with the application: one of the workspace is heard
\* only there, and by a patient agent only for the request in view; options are heard for
\* the group that is picked; a request is made by the intake of its number, for which none
\* was made, unless the agent was told so.
RunFine(a, s, run) ==
    run # Idle =>
      /\ run \in Handlers
      /\ run.kind \in Workspace \cup {"note", "board"} => run.request \in Requests
      /\ run.kind \in {"create", "save", "close"} => Whole(run.payload)
      /\ run.kind = "confirm" => Whole([run.payload EXCEPT !.trip = run.payload.group])
      /\ run.own /\ run.kind \in Workspace =>
            a.view = "edit" /\ (a.hasty \/ run.request = a.request)
      /\ run.own /\ run.kind = "options" => run.group = a.picked
      /\ run.kind \in {"save", "close"} => a.hasty \/ run.from \in {0, run.request}
      /\ run.kind \in Making => a.submitting /\ (a.hasty \/ a.view # "edit")
      /\ run.kind = "create" =>
            /\ run.id <= a.last
            /\ run.id \in a.told \cup {0} \/ \A q \in Requests : s[q].by # run.id

OneMaking ==
    \A q, r \in Runs : runs[q].kind \in Making /\ runs[r].kind \in Making => q = r

\* An intake that made its request has its note still to be stored, unless the agent was
\* told of a failure.
NoteIsDue ==
    app.id \in app.told \cup {0} \/ (\A q \in Requests : srv[q].by # app.id)
      \/ \E r \in Runs : runs[r].kind = "note"

IntakeInv ==
    /\ AppFine(app) /\ SrvFine(app, srv)
    /\ runs \in [Runs -> {Idle} \cup Handlers]
    /\ \A r \in Runs : RunFine(app, srv, runs[r])
    /\ OneMaking /\ NoteIsDue

-----------------------------------------------------------------------------
(* The form and the application, operator by operator.                       *)

LEMMA Zeros ==
  /\ 0 \in 0 .. NRequests /\ 0 \in 0 .. NForms /\ 0 \in 0 .. NGroups
  /\ \A r \in Requests : r \in 0 .. NRequests /\ r # 0
  /\ \A g \in Groups : g \in 0 .. NGroups /\ g # 0
BY SizesAssumption DEF Requests, Groups

LEMMA BlankIs ==
  /\ Blank \in Content /\ Whole(Blank) /\ Blank.group = 0
BY Zeros DEF Blank, Content, Whole, Places, Regions, Asking, Clients

\* What turning to another view leaves alone.
Around(a, b) ==
    /\ b.hasty = a.hasty /\ b.part = a.part /\ b.last = a.last /\ b.draft = a.draft
    /\ b.picked = a.picked /\ b.options = a.options /\ b.dialogs = a.dialogs
    /\ b.told = a.told /\ b.submitting = a.submitting

Emptied(b, a, f, r, n, off) ==
    b = [a EXCEPT !.form = f, !.from = r, !.id = n, !.note = off, !.request = r,
                  !.shown = off, !.loading = off, !.saving = off, !.closing = off,
                  !.uploading = off]

LEMMA LeftIs ==
  ASSUME NEW a \in AppStates
  PROVE  /\ Left(a) \in AppStates /\ Around(a, Left(a)) /\ Left(a).view = a.view
         /\ Left(a).form = Blank /\ Left(a).from = 0 /\ Left(a).id = 0 /\ Left(a).request = 0
<1>1. ASSUME NEW f \in Content, NEW r \in 0 .. NRequests, NEW n \in 0 .. NForms,
             NEW off \in BOOLEAN, NEW b, Emptied(b, a, f, r, n, off)
      PROVE  /\ b \in AppStates /\ Around(a, b) /\ b.view = a.view
             /\ b.form = f /\ b.from = r /\ b.id = n /\ b.request = r
  BY <1>1 DEF AppStates, Around, Emptied
<1>2. Blank \in Content /\ 0 \in 0 .. NRequests /\ 0 \in 0 .. NForms 
  BY Zeros, BlankIs
<1> DEFINE b == Left(a)
<1>3. \E off \in BOOLEAN : Emptied(b, a, Blank, 0, 0, off)
  BY DEF Left, Emptied
<1> HIDE DEF b
<1>4. /\ b \in AppStates /\ Around(a, b) /\ b.view = a.view
      /\ b.form = Blank /\ b.from = 0 /\ b.id = 0 /\ b.request = 0
  BY <1>1, <1>2, <1>3
<1>5. QED  BY <1>4 DEF b

LEMMA TurnedIs ==
  ASSUME NEW a \in AppStates, NEW view \in Views, a.view # "login"
  PROVE  LET t == Turned(a, view)
         IN  /\ t \in AppStates /\ Around(a, t) /\ t.view = view
             /\ a.view = view =>
                  t.form = a.form /\ t.from = a.from /\ t.id = a.id /\ t.request = a.request
             /\ a.view # view =>
                  t.form = Blank /\ t.from = 0 /\ t.id = 0 /\ t.request = 0
<1> DEFINE b == IF a.view = view THEN a ELSE Left(a)
<1>1. /\ b \in AppStates /\ Around(a, b)
      /\ a.view = view =>
            b.form = a.form /\ b.from = a.from /\ b.id = a.id /\ b.request = a.request
      /\ a.view # view =>
            b.form = Blank /\ b.from = 0 /\ b.id = 0 /\ b.request = 0
  BY LeftIs DEF Around
<1>2. Turned(a, view) = [b EXCEPT !.view = view]
  BY DEF Turned
<1> HIDE DEF b
<1>3. QED  BY <1>1, <1>2 DEF AppStates, Around

\* Turned to a request: it is in view, with an empty form unless another was in view.
LEMMA MountedIs ==
  ASSUME NEW a, AppFine(a), NEW r \in Requests, a.view # "login"
  PROVE  LET m == Mounted(a, r)
         IN  /\ Around(a, m) /\ m.view = "edit" /\ m.request = r
             /\ a.hasty \/ a.view # "edit" => AppFine(m)
             /\ m.id = 0
<1>1. "edit" \in Views /\ a \in AppStates
  BY DEF Views, AppFine
<1> DEFINE t == Turned(a, "edit")
<1>2. /\ t \in AppStates /\ Around(a, t) /\ t.view = "edit"
      /\ a.view = "edit" =>
            t.form = a.form /\ t.from = a.from /\ t.id = a.id /\ t.request = a.request
      /\ a.view # "edit" =>
            t.form = Blank /\ t.from = 0 /\ t.id = 0 /\ t.request = 0
  BY <1>1, TurnedIs
<1> HIDE DEF t
<1> DEFINE m == [t EXCEPT !.request = r, !.loading = TRUE]
<1>3. Mounted(a, r) = m
  BY DEF Mounted, t
<1>4. /\ m \in AppStates /\ Around(a, m) /\ m.view = "edit" /\ m.request = r
      /\ m.form = t.form /\ m.from = t.from /\ m.id = t.id
  BY <1>2, Zeros DEF AppStates, Around
<1> HIDE DEF m
<1>5. m.id = 0 /\ m.form.group = 0 /\ Whole(m.form)
  BY <1>2, <1>4, BlankIs DEF AppFine
<1>6. a.hasty \/ a.view # "edit" => AppFine(m)
  <2>1. SUFFICES ASSUME a.hasty \/ a.view # "edit"  PROVE AppFine(m)
    OBVIOUS
  <2>2. m.id <= m.last
    BY <1>4, <1>5, SizesAssumption DEF AppStates
  <2>3. m.options \in {0, m.picked} /\ (m.hasty \/ m.from \in {0, m.request})
    BY <1>2, <1>4, <2>1 DEF AppFine, Around
  <2>4. QED  BY <1>4, <1>5, <2>2, <2>3 DEF AppFine
<1>7. QED  BY <1>3, <1>4, <1>5, <1>6

\* Turned to the dashboard.
LEMMA DashboardIs ==
  ASSUME NEW a, AppFine(a)
  PROVE  LET t == Turned(a, "dashboard")
         IN  AppFine(t) /\ Around(a, t) /\ t.view \notin {"new", "edit"} /\ t.id = 0
<1>1. a \in AppStates /\ "dashboard" \in Views
  BY DEF AppFine, Views
<1>2. CASE a.view = "login"
  BY <1>1, <1>2 DEF Turned, AppFine, Around
<1>3. CASE a.view # "login"
  <2> DEFINE t == Turned(a, "dashboard")
  <2>1. /\ t \in AppStates /\ Around(a, t) /\ t.view = "dashboard"
        /\ a.view = "dashboard" =>
             t.form = a.form /\ t.from = a.from /\ t.id = a.id /\ t.request = a.request
        /\ a.view # "dashboard" =>
             t.form = Blank /\ t.from = 0 /\ t.id = 0 /\ t.request = 0
    BY <1>1, <1>3, TurnedIs
  <2> HIDE DEF t
  <2>2. t.id = 0 /\ t.form.group = 0 /\ Whole(t.form) /\ (t.hasty \/ t.from \in {0, t.request})
    BY <2>1, BlankIs DEF AppFine, Around
  <2>3. t.id <= t.last
    BY <2>1, <2>2, SizesAssumption DEF AppStates
  <2>4. AppFine(t)
    BY <2>1, <2>2, <2>3 DEF AppFine, Around
  <2>5. QED  BY <2>1, <2>2, <2>4 DEF t
<1>4. QED  BY <1>2, <1>3

\* An intake begins anew: with a number that no request has.
LEMMA StartedIs ==
  ASSUME NEW a, AppFine(a), a.last < NForms, NEW g \in 0 .. NGroups,
         NEW f \in Content, Whole(f), f.group = g
  PROVE  LET b == Started(a, f, g)
         IN  /\ AppFine(b) /\ b.hasty = a.hasty /\ b.part = a.part /\ b.last = a.last + 1
             /\ b.told = a.told /\ b.submitting = a.submitting
             /\ b.picked = a.picked /\ b.options = a.options /\ b.dialogs = a.dialogs
             /\ b.view \in {"login", "new"} /\ b.id \in {0, b.last}
<1>1. a \in AppStates /\ "new" \in Views /\ a.last + 1 \in 0 .. NForms
  BY SizesAssumption DEF AppFine, Views, AppStates
<1> DEFINE c == [a EXCEPT !.last = @ + 1, !.draft = g]
           b == Turned(c, "new")
<1>2. /\ c \in AppStates /\ c.hasty = a.hasty /\ c.part = a.part /\ c.last = a.last + 1
      /\ c.told = a.told /\ c.submitting = a.submitting /\ c.draft = g /\ c.view = a.view
      /\ c.picked = a.picked /\ c.options = a.options /\ c.dialogs = a.dialogs
      /\ c.form = a.form /\ c.id = a.id /\ c.request = a.request /\ c.from = a.from
  BY <1>1 DEF AppStates
<1> HIDE DEF c
<1>3. CASE a.view = "login"
  <2>1. b = c /\ Started(a, f, g) = c
    BY <1>2, <1>3 DEF Turned, Started, c
  <2>2. c.id = 0 /\ c.id <= c.last
    BY <1>2, <1>3, SizesAssumption DEF AppFine, AppStates
  <2>3. AppFine(c)
    BY <1>2, <1>3, <2>2 DEF AppFine
  <2>4. QED  BY <1>2, <1>3, <2>1, <2>2, <2>3
<1>4. CASE a.view # "login"
  <2>1. b \in AppStates /\ Around(c, b) /\ b.view = "new"
        /\ (c.view = "new" => b.from = c.from /\ b.request = c.request)
        /\ (c.view # "new" => b.from = 0 /\ b.request = 0)
    BY <1>1, <1>2, <1>4, TurnedIs
  <2>2. Started(a, f, g) = [b EXCEPT !.form = f, !.id = b.last, !.note = FALSE]
    BY <2>1 DEF Started, c
  <2> HIDE DEF b
  <2> DEFINE d == [b EXCEPT !.form = f, !.id = b.last, !.note = FALSE]
  <2>3. /\ d \in AppStates /\ Around(c, d) /\ d.view = "new" /\ d.form = f
        /\ d.id = d.last /\ d.from = b.from /\ d.request = b.request
    BY <2>1 DEF AppStates, Around
  <2> HIDE DEF d
  <2>4. d.id <= d.last
    BY <2>3 DEF AppStates
  <2>5. AppFine(d)
    BY <1>2, <2>1, <2>3, <2>4 DEF AppFine, Around
  <2>6. Started(a, f, g) = d
    BY <2>2 DEF d
  <2>7. QED  BY <1>2, <2>3, <2>5, <2>6 DEF Around
<1>5. QED  BY <1>3, <1>4

\* The form of an intake that is over.
LEMMA ResetIs ==
  ASSUME NEW a, AppFine(a)
  PROVE  LET b == Reset(a)
         IN  /\ AppFine(b) /\ b.hasty = a.hasty /\ b.part = a.part /\ b.last = a.last
             /\ b.told = a.told /\ b.submitting = a.submitting
             /\ b.picked = a.picked /\ b.options = a.options /\ b.dialogs = a.dialogs
             /\ b.view = a.view /\ b.id = 0 /\ (a.view # "new" => b.request = a.request)
<1>1. a \in AppStates
  BY DEF AppFine
<1> DEFINE c == IF a.view = "new" THEN Left(a) ELSE a
<1>2. /\ c \in AppStates /\ Around(a, c) /\ c.view = a.view /\ c.id = 0
      /\ c.form.group = 0 /\ Whole(c.form) /\ (a.view # "new" => c.request = a.request)
      /\ c.hasty \/ c.from \in {0, c.request}
  BY <1>1, LeftIs, BlankIs DEF AppFine, Around
<1>3. Reset(a) = [c EXCEPT !.draft = 0]
  BY DEF Reset
<1> HIDE DEF c
<1> DEFINE b == [c EXCEPT !.draft = 0]
<1>4. /\ b \in AppStates /\ b.hasty = c.hasty /\ b.part = c.part /\ b.last = c.last
      /\ b.told = c.told /\ b.submitting = c.submitting /\ b.draft = 0
      /\ b.picked = c.picked /\ b.options = c.options /\ b.dialogs = c.dialogs
      /\ b.view = c.view /\ b.id = c.id /\ b.request = c.request /\ b.from = c.from
      /\ b.form = c.form
  BY <1>2, Zeros DEF AppStates
<1> HIDE DEF b
<1>5. b.id <= b.last
  BY <1>2, <1>4 DEF AppStates
<1>6. AppFine(b)
  BY <1>1, <1>2, <1>4, <1>5 DEF AppFine, Around
<1>7. Reset(a) = b
  BY <1>3 DEF b
<1>8. QED  BY <1>2, <1>4, <1>6, <1>7 DEF Around

-----------------------------------------------------------------------------
(* The edits of the form.                                                    *)

\* Every edit keeps the form whole and its group; while a group is locked, its line and
\* its dates are not edited.
LEMMA EditedIs ==
  ASSUME AppFine(app), app.view \in {"new", "edit"}, NEW f \in Edited(app.form)
  PROVE  f \in Content /\ Whole(f) /\ f.group = app.form.group
<1> DEFINE g == app.form
<1>1. g \in Content /\ Whole(g) /\ (app.draft = 0 => g.group = 0)
  BY DEF AppFine, AppStates
<1>2. /\ Clients \subseteq Clients \cup {0} /\ 0 \in Clients \cup {0} /\ 0 \in 0 .. NGroups
      /\ "none" \in Places \cup {"none"} /\ "none" \in Regions \cup {"none"}
      /\ "none" \in Asking \cup {"none"} /\ "none" \notin Places
  BY Zeros DEF Places, Regions, Asking, Clients
<1>3. Edited(g) \subseteq
        (contactFields(g) \cup linkExistingClient(g) \cup clearLinkedClient(g))
          \cup (updateDestination(g) \cup toggleDestinationDetail(g))
          \cup (updateLeadSource(g) \cup LeadFields(g))
          \cup (LineFields(g) \cup DateFields(g))
  <2>1. CASE app.part = "client"
    BY <2>1 DEF Edited
  <2>2. CASE app.part = "place"
    BY <2>2 DEF Edited
  <2>3. CASE app.part = "lead"
    BY <2>3 DEF Edited
  <2>4. CASE app.part = "group"
    BY <2>4 DEF Edited
  <2>5. app.part \in Parts
    BY DEF AppFine, AppStates
  <2>6. QED  BY <2>1, <2>2, <2>3, <2>4, <2>5 DEF Parts
<1> HIDE DEF g
<1>4. CASE f \in contactFields(g) \cup linkExistingClient(g) \cup clearLinkedClient(g)
  <2>1. CASE f = [g EXCEPT !.contact = 0, !.link = 0]
    BY <1>1, <1>2, <2>1 DEF Content, Whole, g
  <2>2. CASE f = [g EXCEPT !.link = 0, !.born = 0]
    BY <1>1, <1>2, <2>2 DEF Content, Whole, g
  <2>3. CASE \E k \in Clients : f = [g EXCEPT !.contact = k, !.link = k, !.born = k]
    BY <1>1, <1>2, <2>3 DEF Content, Whole, g
  <2>4. QED
    BY <1>4, <2>1, <2>2, <2>3
       DEF contactFields, patchForm, linkExistingClient, clearLinkedClient
<1>5. CASE f \in updateDestination(g)
  <2>1. PICK d \in Places : f = [g EXCEPT !.place = d, !.details = "none"]
    BY <1>5 DEF updateDestination
  <2>2. QED  BY <1>1, <1>2, <2>1 DEF Content, Whole, g
<1>6. CASE f \in toggleDestinationDetail(g)
  <2>1. PICK d \in {"none"} \cup ({g.place} \cap Regions) : f = [g EXCEPT !.details = d]
    BY <1>6 DEF toggleDestinationDetail
  <2>2. QED  BY <1>1, <1>2, <2>1 DEF Content, Whole, g
<1>7. CASE f \in updateLeadSource(g)
  <2>1. PICK s \in Asking \cup {"none"} :
          f = [g EXCEPT !.source = s, !.extra = Kept(g.extra, s)]
    BY <1>7 DEF updateLeadSource
  <2>2. Kept(g.extra, s) \in Asking \cup {"none"} /\ Kept(g.extra, s) \in {"none", s}
    BY <1>2, <2>1 DEF Kept
  <2>3. QED  BY <1>1, <2>1, <2>2 DEF Content, Whole, g
<1>8. CASE f \in LeadFields(g)
  <2>1. PICK e \in {"none"} \cup ({g.source} \cap Asking) : f = [g EXCEPT !.extra = e]
    BY <1>8 DEF LeadFields
  <2>2. QED  BY <1>1, <1>2, <2>1 DEF Content, Whole, g
<1>9. CASE f \in LineFields(g) \cup DateFields(g)
  <2>1. f = [g EXCEPT !.trip = 0] /\ app.draft = 0
    BY <1>9 DEF LineFields, DateFields, Locked
  <2>2. QED  BY <1>1, <1>2, <2>1 DEF Content, Whole, g
<1>10. QED  BY <1>3, <1>4, <1>5, <1>6, <1>7, <1>8, <1>9 DEF g

\* What is sent of a whole form is whole.
LEMMA PayloadIs ==
  ASSUME NEW f \in Content, Whole(f)
  PROVE  /\ buildPayload(f) \in Content /\ Whole(buildPayload(f))
         /\ CreatePayload(f) \in Content /\ Whole(CreatePayload(f))
<1> DEFINE d == IF f.place \in Regions THEN f.details ELSE "none"
           g == [f EXCEPT !.details = d]
<1>1. d \in Regions \cup {"none"} /\ d \in {"none", f.place}
  BY DEF Content, Whole
<1>2. WithDetails(f) = g
  BY DEF WithDetails
<1> HIDE DEF d
<1>3. g \in Content /\ Whole(g)
  BY <1>1 DEF Content, Whole
<1> HIDE DEF g
<1> DEFINE e == Kept(g.extra, f.source)
           h == [g EXCEPT !.extra = e]
<1>4. g.source = f.source
  BY <1>1 DEF g, Content
<1>5. e \in Asking \cup {"none"} /\ e \in {"none", g.source}
  BY <1>3, <1>4 DEF Kept, Content
<1>6. CreatePayload(f) = h
  BY <1>2 DEF CreatePayload
<1> HIDE DEF e
<1>7. h \in Content /\ Whole(h)
  BY <1>3, <1>5 DEF Content, Whole
<1>8. QED  BY <1>2, <1>3, <1>6, <1>7 DEF buildPayload

LEMMA OnFileIs ==
  ASSUME NEW p
  PROVE  OnFile(p) \in Content /\ Whole(OnFile(p)) /\ OnFile(p).group = 0
<1>1. CASE p = "place"
  BY <1>1, BlankIs, Zeros DEF OnFile, Blank, Content, Whole, Places, Regions, Asking, Clients
<1>2. CASE p = "lead"
  BY <1>2, BlankIs, Zeros DEF OnFile, Blank, Content, Whole, Places, Regions, Asking, Clients
<1>3. CASE p \notin {"place", "lead"}
  BY <1>3, BlankIs DEF OnFile
<1>4. QED  BY <1>1, <1>2, <1>3

\* The workspace shows what was read of the request in view.
LEMMA ShowsIs ==
  ASSUME NEW a, AppFine(a), a.view = "edit", NEW from \in 0 .. NRequests,
         a.hasty \/ from \in {0, a.request}
  PROVE  LET b == Shows(a, from)
         IN  AppFine(b) /\ Around(a, b) /\ b.view = "edit" /\ b.request = a.request /\ b.id = a.id
<1>1. a \in AppStates
  BY DEF AppFine
<1> DEFINE f == OnFile(a.part)
           b == Shows(a, from)
<1>2. f \in Content /\ Whole(f) /\ f.group = 0
  BY OnFileIs
<1>3. \E shown \in BOOLEAN : b = [a EXCEPT !.shown = shown, !.form = f, !.from = from]
  BY DEF Shows
<1> HIDE DEF f, b
<1>4. /\ b \in AppStates /\ Around(a, b) /\ b.view = a.view /\ b.request = a.request
      /\ b.id = a.id /\ b.form = f /\ b.from = from
  <2>1. PICK shown \in BOOLEAN : b = [a EXCEPT !.shown = shown, !.form = f, !.from = from]
    BY <1>3
  <2>2. b \in AppStates /\ b.form = f /\ b.from = from
    BY <1>1, <1>2, <2>1 DEF AppStates
  <2>3. Around(a, b) /\ b.view = a.view /\ b.request = a.request /\ b.id = a.id
    BY <1>1, <2>1 DEF AppStates, Around
  <2>4. QED  BY <2>2, <2>3
<1>5. AppFine(b)
  BY <1>2, <1>4 DEF AppFine, Around
<1>6. QED  BY <1>4, <1>5 DEF b

-----------------------------------------------------------------------------
(* The handlers in flight.                                                   *)

LEMMA KindsAre ==
  /\ Workspace \subseteq Kinds /\ Making \subseteq Kinds /\ "options" \in Kinds
  /\ "confirm" \in Kinds /\ Idle.kind \notin Kinds
  /\ \A run \in Handlers : run # Idle /\ run.kind \in Kinds
BY DEF Kinds, Workspace, Making, Idle, Handlers

\* A handler goes on, perhaps unheard, or is over.
StillRuns(d, c) ==
    d # Idle =>
        /\ d \in Handlers /\ c # Idle /\ d.kind = c.kind /\ d.request = c.request
        /\ d.from = c.from /\ d.id = c.id /\ d.note = c.note /\ d.group = c.group
        /\ d.payload = c.payload /\ (d.own => c.own)

LEMMA UnheardIs ==
  ASSUME NEW K, K \subseteq Kinds, runs \in [Runs -> {Idle} \cup Handlers]
  PROVE  /\ Unheard(K) \in [Runs -> {Idle} \cup Handlers]
         /\ \A q \in Runs :
              /\ StillRuns(Unheard(K)[q], runs[q]) /\ Unheard(K)[q].kind = runs[q].kind
              /\ Unheard(K)[q] # Idle /\ Unheard(K)[q].kind \in K => ~ Unheard(K)[q].own
              /\ Unheard(K)[q] = Idle <=> runs[q] = Idle
<1>1. ASSUME NEW q \in Runs
      PROVE  LET d == Unheard(K)[q]
             IN  /\ d \in {Idle} \cup Handlers /\ StillRuns(d, runs[q])
                 /\ d.kind = runs[q].kind
                 /\ d # Idle /\ d.kind \in K => ~ d.own
                 /\ d = Idle <=> runs[q] = Idle
  <2> DEFINE d == Unheard(K)[q]
             c == runs[q]
  <2>1. d = IF c.kind \in K THEN [c EXCEPT !.own = FALSE] ELSE c
    BY DEF Unheard
  <2>2. c \in {Idle} \cup Handlers
    BY <1>1
  <2>3. CASE c.kind \in K
    <3>1. c \in Handlers /\ c # Idle
      BY <2>2, <2>3, KindsAre
    <3>2. d = [c EXCEPT !.own = FALSE]
      BY <2>1, <2>3
    <3> HIDE DEF c, d
    <3>3. d \in Handlers /\ ~ d.own /\ d.kind = c.kind
      BY <3>1, <3>2 DEF Handlers
    <3>4. d # Idle
      BY <3>3, KindsAre
    <3>5. StillRuns(d, c)
      BY <3>1, <3>2, <3>3 DEF Handlers, StillRuns
    <3>6. QED  BY <3>1, <3>3, <3>4, <3>5 DEF c, d
  <2>4. CASE c.kind \notin K
    <3>1. d = c
      BY <2>1, <2>4
    <3> HIDE DEF c, d
    <3>2. StillRuns(d, c)
      BY <2>2, <3>1 DEF StillRuns
    <3>3. QED  BY <2>2, <2>4, <3>1, <3>2 DEF c, d
  <2>5. QED  BY <2>3, <2>4
<1> DEFINE rs == Unheard(K)
<1>2. rs = [q \in Runs |-> rs[q]]
  BY DEF Unheard
<1>3. \A q \in Runs : /\ rs[q] \in {Idle} \cup Handlers /\ StillRuns(rs[q], runs[q])
                      /\ rs[q].kind = runs[q].kind
                      /\ rs[q] # Idle /\ rs[q].kind \in K => ~ rs[q].own
                      /\ rs[q] = Idle <=> runs[q] = Idle
  BY <1>1
<1> HIDE DEF rs
<1>4. rs \in [Runs -> {Idle} \cup Handlers]
  BY <1>2, <1>3
<1>5. QED  BY <1>3, <1>4 DEF rs

LEMMA SameRun ==
  ASSUME NEW c \in {Idle} \cup Handlers
  PROVE  StillRuns(c, c)
BY DEF StillRuns

\* What the step leaves of the handler q.
GoesOn(q) ==
    /\ StillRuns(runs'[q], runs[q])
    /\ runs'[q] # Idle =>
        /\ runs'[q].own /\ runs'[q].kind \in Workspace =>
              app'.view = "edit" /\ (app.hasty \/ app'.request = app.request)
        /\ runs'[q].own /\ runs'[q].kind = "options" => app'.picked = app.picked
        /\ runs'[q].kind \in Making => app'.submitting /\ (app.hasty \/ app'.view # "edit")
        /\ runs'[q].kind = "create" => \A k \in Requests : srv'[k].by = srv[k].by

Later == app'.hasty = app.hasty /\ app.last <= app'.last /\ app.told \subseteq app'.told

LEMMA GoesOnFine ==
  ASSUME IntakeInv, AppFine(app'), Later, NEW q \in Runs, GoesOn(q)
  PROVE  RunFine(app', srv', runs'[q])
<1> DEFINE d == runs'[q]
           c == runs[q]
<1>1. SUFFICES ASSUME d # Idle  PROVE RunFine(app', srv', d)
  BY DEF RunFine
<1>2. /\ d \in Handlers /\ c # Idle /\ d.kind = c.kind /\ d.request = c.request
      /\ d.from = c.from /\ d.id = c.id /\ d.group = c.group /\ d.payload = c.payload
      /\ (d.own => c.own)
  BY <1>1 DEF GoesOn, StillRuns
<1>3. RunFine(app, srv, c)
  BY DEF IntakeInv
<1>4. d.own /\ d.kind \in Workspace =>
         app'.view = "edit" /\ (app'.hasty \/ d.request = app'.request)
  BY <1>1, <1>2, <1>3 DEF RunFine, GoesOn, Later
<1>5. d.own /\ d.kind = "options" => d.group = app'.picked
  BY <1>1, <1>2, <1>3 DEF RunFine, GoesOn
<1>6. d.kind \in Making => app'.submitting /\ (app'.hasty \/ app'.view # "edit")
  BY <1>1 DEF GoesOn, Later
<1>7. d.kind = "create" =>
        /\ d.id <= app'.last
        /\ d.id \in app'.told \cup {0} \/ \A k \in Requests : srv'[k].by # d.id
  <2>1. d.id \in Nat /\ app.last \in Nat /\ app'.last \in Nat
    BY <1>2, SizesAssumption DEF Handlers, IntakeInv, AppFine, AppStates
  <2>2. d.kind = "create" =>
        /\ d.id <= app.last
        /\ d.id \in app.told \cup {0} \/ \A k \in Requests : srv[k].by # d.id
    BY <1>2, <1>3 DEF RunFine
  <2>3. d.kind = "create" => \A k \in Requests : srv'[k].by = srv[k].by
    BY <1>1 DEF GoesOn
  <2>4. QED  BY <2>1, <2>2, <2>3 DEF Later
<1>8. QED
  BY <1>2, <1>3, <1>4, <1>5, <1>6, <1>7 DEF RunFine, Later

\* The whole invariant after a step: every handler goes on, or is fine anew.
LEMMA IntakeGoes ==
  ASSUME IntakeInv, AppFine(app'), SrvFine(app', srv'), Later,
         runs' \in [Runs -> {Idle} \cup Handlers],
         \A q \in Runs : GoesOn(q) \/ RunFine(app', srv', runs'[q]),
         OneMaking', NoteIsDue'
  PROVE  IntakeInv'
BY GoesOnFine DEF IntakeInv

\* The steps in which no request is being made.
LEMMA MakingStays ==
  ASSUME IntakeInv,
         \A q \in Runs : runs'[q].kind \in Making => runs[q].kind = runs'[q].kind
  PROVE  OneMaking'
BY DEF IntakeInv, OneMaking

\* The server keeps what it has, or the text of one request is stored anew.
LEMMA SrvStays ==
  ASSUME IntakeInv, AppFine(app'), Later, srv' \in [Requests -> [from : 0 .. NRequests, by : 0 .. NForms]],
         \A k \in Requests :
            srv'[k].by = srv[k].by /\ (app.hasty \/ srv'[k].from \in {0, k})
  PROVE  SrvFine(app', srv')
<1>1. \A k \in Requests : srv[k].by \in Nat /\ srv[k].by <= app.last
  BY SizesAssumption DEF IntakeInv, SrvFine
<1>2. app.last \in Nat /\ app'.last \in Nat
  BY SizesAssumption DEF IntakeInv, AppFine, AppStates
<1>3. \A k \in Requests : srv'[k].by <= app'.last
  BY <1>1, <1>2 DEF Later
<1>4. QED  BY <1>3 DEF IntakeInv, SrvFine, Later

\* A step within a view, beside whatever is being made.
InPlace ==
    /\ app'.hasty = app.hasty /\ app'.last = app.last /\ app'.told = app.told
    /\ app'.request = app.request /\ app'.picked = app.picked /\ app'.id = app.id
    /\ app'.submitting = app.submitting
    /\ app'.view = app.view \/ (app.view # "edit" /\ app'.view # "edit")

LEMMA InPlaceKeeps ==
  ASSUME IntakeInv, AppFine(app'), SrvFine(app', srv'), InPlace,
         runs' \in [Runs -> {Idle} \cup Handlers],
         \A k \in Requests : srv'[k].by = srv[k].by,
         \A q \in Runs :
            \/ /\ StillRuns(runs'[q], runs[q])
               /\ runs[q].kind = "note" => runs'[q].kind = "note"
            \/ /\ RunFine(app', srv', runs'[q])
               /\ runs'[q].kind \notin Making /\ runs[q].kind # "note"
  PROVE  IntakeInv'
<1>1. Later
  BY SizesAssumption DEF InPlace, Later, IntakeInv, AppFine, AppStates
<1>2. ASSUME NEW q \in Runs, StillRuns(runs'[q], runs[q])
      PROVE  GoesOn(q)
  <2>1. runs'[q] # Idle => RunFine(app, srv, runs[q]) /\ runs[q] # Idle
    BY <1>2 DEF IntakeInv, StillRuns
  <2>2. QED  BY <1>2, <2>1 DEF GoesOn, StillRuns, RunFine, InPlace
<1>3. OneMaking'
  <2>1. \A q \in Runs : runs'[q].kind \in Making => runs[q].kind = runs'[q].kind
    <3>1. SUFFICES ASSUME NEW q \in Runs, runs'[q].kind \in Making
                   PROVE  runs[q].kind = runs'[q].kind
      OBVIOUS
    <3>2. StillRuns(runs'[q], runs[q]) /\ runs'[q] # Idle
      BY <3>1, KindsAre
    <3>3. QED  BY <3>2 DEF StillRuns
  <2>2. QED  BY <2>1, MakingStays
<1>4. NoteIsDue'
  BY DEF IntakeInv, NoteIsDue, InPlace
<1>5. QED  BY <1>1, <1>2, <1>3, <1>4, IntakeGoes

\* A step out of the workspace: its handlers are not heard any more.
LEMMA LeavingKeeps ==
  ASSUME IntakeInv, AppFine(app'), SrvFine(app', srv'), app'.view # "edit",
         app'.hasty = app.hasty, app.last <= app'.last, app'.told = app.told,
         app'.submitting = app.submitting,
         app'.id = 0 \/ ~ (app'.id <= app.last),
         runs' \in [Runs -> {Idle} \cup Handlers],
         \A k \in Requests : srv'[k].by = srv[k].by,
         \A q \in Runs :
            /\ StillRuns(runs'[q], runs[q])
            /\ runs'[q] # Idle /\ runs'[q].kind \in Workspace => ~ runs'[q].own
            /\ runs'[q] # Idle /\ runs'[q].own /\ runs'[q].kind = "options" =>
                  app'.picked = app.picked
  PROVE  IntakeInv'
<1>1. Later
  BY DEF Later
<1>2. ASSUME NEW q \in Runs
      PROVE  GoesOn(q)
  <2>1. runs'[q] # Idle => RunFine(app, srv, runs[q]) /\ runs[q] # Idle
    BY <1>2 DEF IntakeInv, StillRuns
  <2>2. QED  BY <1>2, <2>1 DEF GoesOn, StillRuns, RunFine
<1>3. OneMaking'
  <2>1. \A q \in Runs : runs'[q].kind \in Making => runs[q].kind = runs'[q].kind
    BY KindsAre DEF StillRuns
  <2>2. QED  BY <2>1, MakingStays
<1>4. NoteIsDue'
  BY DEF IntakeInv, NoteIsDue, SrvFine
<1>5. QED  BY <1>1, <1>2, <1>3, <1>4, IntakeGoes

-----------------------------------------------------------------------------
(* The steps within a view.                                                  *)

LEMMA IntakeTyped ==
  ASSUME IntakeInv
  PROVE  /\ app \in AppStates /\ AppFine(app) /\ SrvFine(app, srv)
         /\ runs \in [Runs -> {Idle} \cup Handlers]
         /\ srv \in [Requests -> [from : 0 .. NRequests, by : 0 .. NForms]]
         /\ \A q \in Runs : RunFine(app, srv, runs[q])
         /\ \A q \in Runs : runs[q] # Idle => runs[q] \in Handlers
BY DEF IntakeInv, AppFine, SrvFine

\* A handler takes the first place that is free.
LEMMA BegunIs ==
  ASSUME NEW rs \in [Runs -> {Idle} \cup Handlers], NEW run \in Handlers, Begun(rs, run)
  PROVE  /\ runs' \in [Runs -> {Idle} \cup Handlers]
         /\ \E r \in Runs : /\ runs[r] = Idle /\ runs'[r] = run
                            /\ \A q \in Runs : q # r => runs'[q] = rs[q]
<1>1. PICK r \in Free : runs' = [rs EXCEPT ![r] = run]
  BY DEF Begun
<1>2. r \in Runs /\ runs[r] = Idle
  BY DEF Free
<1>3. QED  BY <1>1, <1>2

LEMMA WithoutIs ==
  ASSUME NEW rs \in [Runs -> {Idle} \cup Handlers], NEW r \in Runs
  PROVE  /\ Without(rs, r) \in [Runs -> {Idle} \cup Handlers]
         /\ Without(rs, r)[r] = Idle
         /\ \A q \in Runs : q # r => Without(rs, r)[q] = rs[q]
BY DEF Without

LEMMA IdleIsFine ==
  ASSUME NEW a, NEW s, NEW c
  PROVE  RunFine(a, s, Idle) /\ StillRuns(Idle, c)
BY DEF RunFine, StillRuns

\* What the application keeps while only its flags, its dialogs and its note change.
SameBut(b, a) ==
    /\ b.view = a.view /\ b.form = a.form /\ b.from = a.from /\ b.id = a.id
    /\ b.last = a.last /\ b.request = a.request /\ b.draft = a.draft /\ b.picked = a.picked
    /\ b.hasty = a.hasty /\ b.told = a.told /\ b.submitting = a.submitting

LEMMA SameButIs ==
  ASSUME AppFine(app), app' \in AppStates, SameBut(app', app), app'.options \in {0, app.picked}
  PROVE  AppFine(app') /\ InPlace
BY DEF AppFine, SameBut, InPlace

\* The handlers after a step of the agent that begins none.
LEMMA NoneBegun ==
  ASSUME IntakeInv, AppFine(app'), InPlace, UNCHANGED <<srv, runs>>
  PROVE  IntakeInv'
<1>1. SrvFine(app', srv')
  BY DEF IntakeInv, SrvFine, InPlace
<1>2. \A q \in Runs : StillRuns(runs'[q], runs[q])
  BY SameRun DEF IntakeInv
<1>3. runs' \in [Runs -> {Idle} \cup Handlers]
  BY IntakeTyped
<1>4. QED  BY <1>1, <1>2, <1>3, InPlaceKeeps

\* The handlers after a step that begins one, of which nothing is made.
LEMMA OneBegun ==
  ASSUME IntakeInv, AppFine(app'), InPlace, UNCHANGED srv, NEW run \in Handlers, Begin(run),
         RunFine(app', srv', run), run.kind \notin Making
  PROVE  IntakeInv'
<1>1. SrvFine(app', srv')
  BY DEF IntakeInv, SrvFine, InPlace
<1>2. runs \in [Runs -> {Idle} \cup Handlers]
  BY IntakeTyped
<1>3. PICK r \in Runs : /\ runs[r] = Idle /\ runs'[r] = run
                        /\ \A q \in Runs : q # r => runs'[q] = runs[q]
  BY <1>2, BegunIs DEF Begin
<1>4. runs' \in [Runs -> {Idle} \cup Handlers]
  BY <1>2, BegunIs DEF Begin
<1>5. ASSUME NEW q \in Runs, q # r
      PROVE  StillRuns(runs'[q], runs[q]) /\ runs[q].kind = runs'[q].kind
  BY <1>2, <1>3, <1>5, SameRun
<1>6. runs[r].kind # "note"
  BY <1>3, KindsAre DEF Kinds
<1>7. QED  BY <1>1, <1>3, <1>4, <1>5, <1>6, InPlaceKeeps

\* The handlers after one is over, by which no request was being made.
LEMMA OneOver ==
  ASSUME IntakeInv, AppFine(app'), InPlace, SrvFine(app', srv'),
         \A k \in Requests : srv'[k].by = srv[k].by,
         NEW r \in Runs, runs[r].kind # "note", runs' = Without(runs, r)
  PROVE  IntakeInv'
<1>1. runs \in [Runs -> {Idle} \cup Handlers]
  BY IntakeTyped
<1>2. /\ runs' \in [Runs -> {Idle} \cup Handlers] /\ runs'[r] = Idle
      /\ \A q \in Runs : q # r => runs'[q] = runs[q]
  BY <1>1, WithoutIs
<1>3. ASSUME NEW q \in Runs
      PROVE  /\ StillRuns(runs'[q], runs[q])
             /\ runs[q].kind = "note" => runs'[q].kind = "note"
  BY <1>1, <1>2, SameRun, IdleIsFine
<1>4. QED  BY <1>2, <1>3, InPlaceKeeps

LEMMA SrvSame ==
  ASSUME IntakeInv, InPlace, UNCHANGED srv
  PROVE  SrvFine(app', srv') /\ \A k \in Requests : srv'[k].by = srv[k].by
BY DEF IntakeInv, SrvFine, InPlace

LEMMA LoginKeeps == ASSUME IntakeInv, Login  PROVE IntakeInv'
<1>1. /\ app \in AppStates /\ AppFine(app) /\ app.view = "login"
      /\ app' = [app EXCEPT !.view = "dashboard"] /\ UNCHANGED <<srv, runs>>
  BY IntakeTyped DEF Login
<1>2. "dashboard" \in Views
  BY DEF Views
<1>3. app' \in AppStates /\ app'.view = "dashboard" /\ Around(app, app')
      /\ app'.form = app.form /\ app'.from = app.from /\ app'.id = app.id
      /\ app'.request = app.request
  BY <1>1, <1>2 DEF AppStates, Around
<1>4. AppFine(app') /\ InPlace
  BY <1>1, <1>3 DEF AppFine, Around, InPlace
<1>5. QED  BY <1>1, <1>4, NoneBegun

\* The dialogs that lead to a group.
LEMMA DialogKeeps ==
  ASSUME IntakeInv, NEW ds \in SUBSET Dialogs, app' = [app EXCEPT !.dialogs = ds],
         UNCHANGED <<srv, runs>>
  PROVE  IntakeInv'
<1>1. app \in AppStates /\ AppFine(app)
  BY IntakeTyped
<1>2. app' \in AppStates /\ SameBut(app', app) /\ app'.options = app.options
  BY <1>1 DEF AppStates, SameBut
<1>3. AppFine(app') /\ InPlace
  BY <1>1, <1>2, SameButIs DEF AppFine
<1>4. QED  BY <1>3, NoneBegun

LEMMA LeavePickerKeeps == ASSUME IntakeInv, LeavePicker  PROVE IntakeInv'
<1>1. app \in AppStates /\ AppFine(app) /\ runs \in [Runs -> {Idle} \cup Handlers]
  BY IntakeTyped
<1>2. app.dialogs \subseteq Dialogs /\ {"prompt", "picker"} \subseteq Dialogs
  BY <1>1 DEF AppStates, Dialogs
<1>3. CASE /\ UNCHANGED <<srv, runs>>
           /\ app' = [app EXCEPT !.dialogs = (@ \ {"picker"}) \cup {"prompt"}]
  <2> DEFINE ds == (app.dialogs \ {"picker"}) \cup {"prompt"}
  <2>1. ds \in SUBSET Dialogs /\ app' = [app EXCEPT !.dialogs = ds]
    BY <1>2, <1>3
  <2>2. QED  BY <1>3, <2>1, DialogKeeps
<1>4. CASE /\ runs' = Unheard({"options"}) /\ UNCHANGED srv
           /\ app' = [app EXCEPT !.dialogs = (@ \ {"inventory"}) \cup {"picker"}, !.options = 0]
  <2> DEFINE ds == (app.dialogs \ {"inventory"}) \cup {"picker"}
  <2>1. ds \in SUBSET Dialogs /\ app' = [app EXCEPT !.dialogs = ds, !.options = 0]
    BY <1>2, <1>4
  <2> HIDE DEF ds
  <2>2. app' \in AppStates /\ app'.options = 0
    BY <1>1, <2>1, Zeros DEF AppStates
  <2>3. SameBut(app', app)
    BY <1>1, <2>1 DEF AppStates, SameBut
  <2>4. AppFine(app') /\ InPlace
    BY <1>1, <2>2, <2>3, SameButIs
  <2>5. {"options"} \subseteq Kinds
    BY KindsAre
  <2>6. /\ runs' \in [Runs -> {Idle} \cup Handlers]
        /\ \A q \in Runs : StillRuns(runs'[q], runs[q]) /\ runs'[q].kind = runs[q].kind
    BY <1>1, <1>4, <2>5, UnheardIs
  <2>7. SrvFine(app', srv') /\ \A k \in Requests : srv'[k].by = srv[k].by
    BY <1>4, <2>4, SrvSame
  <2>8. QED  BY <2>4, <2>6, <2>7, InPlaceKeeps
<1>5. QED  BY <1>3, <1>4 DEF LeavePicker

LEMMA OptionsLoadedKeeps ==
  ASSUME IntakeInv, NEW r \in Runs, OptionsLoaded(r)
  PROVE  IntakeInv'
<1>1. app \in AppStates /\ AppFine(app) /\ RunFine(app, srv, runs[r])
  BY IntakeTyped
<1>2. /\ runs[r].kind = "options" /\ runs' = Without(runs, r) /\ UNCHANGED srv
      /\ \/ app' = app
         \/ runs[r].own /\ app' = [app EXCEPT !.options = runs[r].group]
  BY DEF OptionsLoaded, Heard
<1>3. runs[r] # Idle
  BY <1>2, KindsAre
<1>4. runs[r].group \in 0 .. NGroups /\ (runs[r].own => runs[r].group = app.picked)
  BY <1>1, <1>2, <1>3 DEF RunFine, Handlers
<1>5. AppFine(app') /\ InPlace
  <2>1. CASE app' = app
    BY <1>1, <2>1 DEF InPlace
  <2>2. CASE runs[r].own /\ app' = [app EXCEPT !.options = runs[r].group]
    <3>1. app' \in AppStates /\ app'.options = app.picked
      BY <1>1, <1>4, <2>2 DEF AppStates
    <3>2. SameBut(app', app)
      BY <1>1, <2>2 DEF AppStates, SameBut
    <3>3. QED  BY <1>1, <3>1, <3>2, SameButIs
  <2>3. QED  BY <1>2, <2>1, <2>2
<1>6. SrvFine(app', srv') /\ \A k \in Requests : srv'[k].by = srv[k].by
  BY <1>2, <1>5, SrvSame
<1>7. QED  BY <1>2, <1>5, <1>6, OneOver

\* A handler that begins belongs to what is in view.
LEMMA HandlerIs ==
  ASSUME IntakeInv, NEW what \in Kinds
  PROVE  /\ Handler(what) \in Handlers /\ Handler(what).kind = what
         /\ what \in Workspace => Handler(what).request = app.request
         /\ what \in {"save", "close"} => Handler(what).from = app.from
         /\ what = "create" => Handler(what).id = app.id
<1> DEFINE req == IF what \in Workspace THEN app.request ELSE 0
           from == IF what \in {"save", "close"} THEN app.from ELSE 0
           id == IF what = "create" THEN app.id ELSE 0
           h == Handler(what)
<1>1. req \in 0 .. NRequests /\ from \in 0 .. NRequests /\ id \in 0 .. NForms
  BY IntakeTyped, Zeros DEF AppStates
<1>2. /\ what \in Workspace => req = app.request
      /\ what \in {"save", "close"} => from = app.from
      /\ what = "create" => id = app.id
  OBVIOUS
<1>3. \E own, note \in BOOLEAN :
        h = [kind |-> what, request |-> req, from |-> from, id |-> id, own |-> own,
             note |-> note, group |-> 0, payload |-> Blank]
  BY DEF Handler
<1> HIDE DEF h, req, from, id
<1>4. h \in Handlers /\ h.kind = what /\ h.request = req /\ h.from = from /\ h.id = id
  BY <1>1, <1>3, Zeros, BlankIs DEF Handlers
<1>5. QED  BY <1>2, <1>4 DEF h

LEMMA InventoryConfirmKeeps == ASSUME IntakeInv, handleGroupInventoryConfirm  PROVE IntakeInv'
<1>1. app \in AppStates /\ AppFine(app)
  BY IntakeTyped
<1> DEFINE f == [Blank EXCEPT !.group = app.picked, !.bookings = app.options]
           h == Handler("confirm")
           run == [h EXCEPT !.payload = f]
<1>2. /\ Begin(run) /\ UNCHANGED <<srv, app>> /\ app.options = app.picked
      /\ app.picked \in 0 .. NGroups
  BY <1>1 DEF handleGroupInventoryConfirm, AppFine, AppStates
<1>3. f \in Content /\ Whole([f EXCEPT !.trip = f.group])
  BY <1>2, BlankIs, Zeros DEF Blank, Content, Whole, Places, Regions, Asking, Clients
<1>4. h \in Handlers /\ h.kind = "confirm"
  BY HandlerIs, KindsAre
<1> HIDE DEF f, h
<1>5. run \in Handlers /\ run.kind = "confirm" /\ run.payload = f
  BY <1>3, <1>4 DEF Handlers
<1> HIDE DEF run
<1>6. AppFine(app') /\ InPlace
  BY <1>1, <1>2 DEF InPlace
<1>7. RunFine(app', srv', run)
  BY <1>3, <1>5 DEF RunFine, Workspace, Making
<1>8. run.kind \notin Making
  BY <1>5 DEF Making
<1>9. QED  BY <1>2, <1>5, <1>6, <1>7, <1>8, OneBegun

LEMMA EditFormKeeps == ASSUME IntakeInv, EditForm  PROVE IntakeInv'
<1>1. app \in AppStates /\ AppFine(app)
  BY IntakeTyped
<1>2. PICK f \in Edited(app.form) : app' = [app EXCEPT !.form = f]
  BY DEF EditForm
<1>3. app.view \in {"new", "edit"} /\ UNCHANGED <<srv, runs>>
  BY DEF EditForm
<1>4. f \in Content /\ Whole(f) /\ f.group = app.form.group
  BY <1>1, <1>3, EditedIs
<1>5. /\ app' \in AppStates /\ Around(app, app') /\ app'.form = f /\ app'.view = app.view
      /\ app'.from = app.from /\ app'.id = app.id /\ app'.request = app.request
  BY <1>1, <1>2, <1>4 DEF AppStates, Around
<1>6. AppFine(app') /\ InPlace
  BY <1>1, <1>4, <1>5 DEF AppFine, InPlace, Around
<1>7. QED  BY <1>3, <1>6, NoneBegun

LEMMA EditNoteKeeps == ASSUME IntakeInv, EditNote  PROVE IntakeInv'
<1>1. app \in AppStates /\ AppFine(app)
  BY IntakeTyped
<1>2. \E n \in BOOLEAN : app' = [app EXCEPT !.note = n]
  BY DEF EditNote
<1>3. app' \in AppStates /\ SameBut(app', app) /\ app'.options = app.options
  BY <1>1, <1>2 DEF AppStates, SameBut
<1>4. AppFine(app') /\ InPlace
  BY <1>1, <1>3, SameButIs DEF AppFine
<1>5. UNCHANGED <<srv, runs>>
  BY DEF EditNote
<1>6. QED  BY <1>4, <1>5, NoneBegun

-----------------------------------------------------------------------------
(* The workspace.                                                            *)

\* One of the flags of the workspace is set.
SetsFlag(b, a, on) ==
    \/ b = [a EXCEPT !.saving = on]
    \/ b = [a EXCEPT !.closing = on]
    \/ b = [a EXCEPT !.uploading = on]
    \/ b = [a EXCEPT !.loading = on]

LEMMA FlagIs ==
  ASSUME NEW a, AppFine(a), NEW on \in BOOLEAN, NEW b, SetsFlag(b, a, on)
  PROVE  AppFine(b) /\ SameBut(b, a)
<1>1. a \in AppStates
  BY DEF AppFine
<1>2. b \in AppStates
  BY <1>1 DEF SetsFlag, AppStates
<1>3. SameBut(b, a) /\ b.options = a.options
  BY <1>1 DEF SetsFlag, AppStates, SameBut
<1>4. QED  BY <1>2, <1>3 DEF AppFine, SameBut

LEMMA FlagStays ==
  ASSUME IntakeInv, NEW on \in BOOLEAN, SetsFlag(app', app, on)
  PROVE  AppFine(app') /\ InPlace
BY FlagIs, IntakeTyped DEF SameBut, InPlace

\* What is heard in the workspace is about the request in view.
LEMMA HeardIs ==
  ASSUME IntakeInv, NEW r \in Runs, runs[r].kind \in Workspace
  PROVE  /\ runs[r] \in Handlers /\ runs[r].request \in Requests
         /\ runs[r].own => app.view = "edit" /\ (app.hasty \/ runs[r].request = app.request)
<1>1. runs[r] # Idle /\ runs[r] \in Handlers
  BY IntakeTyped, KindsAre
<1>2. QED  BY <1>1, IntakeTyped DEF RunFine

LEMMA ShownIs ==
  ASSUME IntakeInv, NEW r \in Runs, runs[r].kind \in Workspace, runs[r].own,
         NEW from \in 0 .. NRequests, app.hasty \/ from \in {0, runs[r].request},
         NEW a, a \in {app, Shows(app, from)}, NEW on \in BOOLEAN, SetsFlag(app', a, on)
  PROVE  AppFine(app') /\ InPlace
<1>1. app.view = "edit" /\ (app.hasty \/ from \in {0, app.request})
  BY HeardIs
<1>2. /\ AppFine(a) /\ a.view = "edit" /\ a.request = app.request /\ a.id = app.id
      /\ (a = app \/ Around(app, a))
  BY <1>1, IntakeTyped, ShowsIs
<1>3. AppFine(app') /\ SameBut(app', a)
  BY <1>2, FlagIs
<1>4. InPlace
  BY <1>1, <1>2, <1>3 DEF SameBut, InPlace, Around
<1>5. QED  BY <1>3, <1>4

\* Storing the form of a patient agent keeps the text of the request that it goes to.
LEMMA StoredIs ==
  ASSUME IntakeInv, NEW r \in Runs, runs[r].kind \in {"save", "close"}
  PROVE  /\ Stored(runs[r]) \in [Requests -> [from : 0 .. NRequests, by : 0 .. NForms]]
         /\ \A k \in Requests : /\ Stored(runs[r])[k].by = srv[k].by
                                /\ app.hasty \/ Stored(runs[r])[k].from \in {0, k}
<1> DEFINE run == runs[r]
<1>1. runs[r].kind \in Workspace
  BY DEF Workspace
<1>2. run \in Handlers /\ run.request \in Requests /\ run # Idle
  BY <1>1, HeardIs, KindsAre
<1>3. run.from \in 0 .. NRequests /\ (app.hasty \/ run.from \in {0, run.request})
  BY <1>2, IntakeTyped DEF RunFine, Handlers
<1> HIDE DEF run
<1>4. srv \in [Requests -> [from : 0 .. NRequests, by : 0 .. NForms]]
  BY IntakeTyped
<1>5. \A k \in Requests : app.hasty \/ srv[k].from \in {0, k}
  BY IntakeTyped DEF SrvFine
<1>6. CASE app.hasty
  BY <1>4, <1>6 DEF Stored, run
<1>7. CASE ~ app.hasty
  <2> DEFINE s == [srv EXCEPT ![run.request].from = run.from]
  <2>1. Stored(run) = s
    BY <1>7 DEF Stored
  <2>2. s \in [Requests -> [from : 0 .. NRequests, by : 0 .. NForms]]
    BY <1>2, <1>3, <1>4
  <2>3. \A k \in Requests : s[k].by = srv[k].by /\ s[k].from \in {0, k}
    BY <1>2, <1>3, <1>4, <1>5, <1>7
  <2>4. QED  BY <2>1, <2>2, <2>3 DEF run
<1>8. QED  BY <1>6, <1>7

LEMMA ServerKept ==
  ASSUME IntakeInv, AppFine(app'), Later, NEW r \in Runs, runs[r].kind \in {"save", "close"},
         srv' \in {srv, Stored(runs[r])}
  PROVE  SrvFine(app', srv') /\ \A k \in Requests : srv'[k].by = srv[k].by
<1>1. srv' \in [Requests -> [from : 0 .. NRequests, by : 0 .. NForms]]
  BY IntakeTyped, StoredIs
<1>2. \A k \in Requests : srv'[k].by = srv[k].by /\ (app.hasty \/ srv'[k].from \in {0, k})
  BY IntakeTyped, StoredIs DEF SrvFine
<1>3. QED  BY <1>1, <1>2, SrvStays

LEMMA InPlaceIsLater ==
  ASSUME IntakeInv, InPlace
  PROVE  Later
BY SizesAssumption DEF InPlace, Later, IntakeInv, AppFine, AppStates

LEMMA LoadKeeps == ASSUME IntakeInv, NEW r \in Runs, loadRequest(r)  PROVE IntakeInv'
<1> DEFINE run == runs[r]
           from == srv[run.request].from
<1>1. run.kind = "load" /\ runs' = Without(runs, r) /\ UNCHANGED srv
  BY DEF loadRequest
<1>2. run.kind \in Workspace /\ run.kind # "note"
  BY <1>1 DEF Workspace
<1>3. from \in 0 .. NRequests /\ (app.hasty \/ from \in {0, run.request})
  BY <1>2, HeardIs, IntakeTyped DEF SrvFine
<1>4. AppFine(app') /\ InPlace
  <2>1. CASE ~ run.own
    <3>1. app' = app
      BY <2>1 DEF loadRequest, Heard
    <3>2. QED  BY <3>1, IntakeTyped DEF InPlace
  <2>2. CASE run.own
    <3>1. PICK a \in {app, Shows(app, from)} : app' = [a EXCEPT !.loading = @ /\ run.note]
      BY <2>2 DEF loadRequest, Heard
    <3> HIDE DEF from
    <3>2. \E on \in BOOLEAN : SetsFlag(app', a, on)
      <4>1. (a.loading /\ run.note) \in BOOLEAN
        OBVIOUS
      <4>2. app' = [a EXCEPT !.loading = a.loading /\ run.note]
        BY <3>1
      <4>3. QED  BY <4>1, <4>2 DEF SetsFlag
    <3>3. QED  BY <1>2, <1>3, <2>2, <3>2, ShownIs
  <2>3. QED  BY <2>1, <2>2
<1>5. SrvFine(app', srv') /\ \A k \in Requests : srv'[k].by = srv[k].by
  BY <1>1, <1>4, SrvSame
<1>6. QED  BY <1>1, <1>2, <1>4, <1>5, OneOver

LEMMA RefreshKeeps == ASSUME IntakeInv, refreshRequest  PROVE IntakeInv'
<1> DEFINE h == Handler("load")
           run == [h EXCEPT !.note = TRUE]
<1>1. Begin(run) /\ UNCHANGED <<srv, app>> /\ app.view = "edit"
  BY DEF refreshRequest
<1>2. h \in Handlers /\ h.kind = "load" /\ h.request = app.request
  BY HandlerIs, KindsAre DEF Workspace
<1>3. app.request \in Requests
  BY <1>1, IntakeTyped DEF AppFine
<1> HIDE DEF h
<1>4. \E on \in BOOLEAN : run = [h EXCEPT !.note = on]
  OBVIOUS
<1> HIDE DEF run
<1>5. run \in Handlers /\ run.kind = "load" /\ run.request = app.request
  BY <1>2, <1>4 DEF Handlers
<1>6. AppFine(app') /\ InPlace
  BY <1>1, IntakeTyped DEF InPlace
<1>7. RunFine(app', srv', run)
  BY <1>1, <1>3, <1>5 DEF RunFine, Workspace, Making
<1>8. run.kind \notin Making
  BY <1>5 DEF Making
<1>9. QED  BY <1>1, <1>5, <1>6, <1>7, <1>8, OneBegun

\* A save and a close send the form of the request in view.
LEMMA SendingKeeps ==
  ASSUME IntakeInv, app.view = "edit", NEW what \in {"save", "close"},
         Begin([Handler(what) EXCEPT !.payload = buildPayload(app.form)]),
         NEW on \in BOOLEAN, SetsFlag(app', app, on), UNCHANGED srv
  PROVE  IntakeInv'
<1> DEFINE h == Handler(what)
           f == buildPayload(app.form)
           run == [h EXCEPT !.payload = f]
<1>1. what \in Kinds /\ what \in Workspace /\ what \notin Making
  BY DEF Kinds, Workspace, Making
<1>2. h \in Handlers /\ h.kind = what /\ h.request = app.request /\ h.from = app.from
  BY <1>1, HandlerIs
<1>3. f \in Content /\ Whole(f)
  BY IntakeTyped, PayloadIs DEF AppFine, AppStates
<1>4. app.request \in Requests /\ (app.hasty \/ app.from \in {0, app.request})
  BY IntakeTyped DEF AppFine
<1> HIDE DEF h, f
<1>5. /\ run \in Handlers /\ run.kind = what /\ run.request = app.request
      /\ run.from = app.from /\ run.payload = f
  BY <1>2, <1>3 DEF Handlers
<1>6. Begin(run)
  BY DEF h, f
<1> HIDE DEF run
<1>7. AppFine(app') /\ InPlace
  BY FlagStays
<1>8. RunFine(app', srv', run)
  <2>1. app'.view = "edit" /\ app'.request = app.request /\ app'.hasty = app.hasty
    BY <1>7 DEF InPlace
  <2>2. what \notin {"note", "board", "create", "confirm", "options"}
    OBVIOUS
  <2>3. QED  BY <1>1, <1>3, <1>4, <1>5, <2>1, <2>2 DEF RunFine
<1>9. QED  BY <1>1, <1>5, <1>6, <1>7, <1>8, OneBegun

LEMMA SaveKeeps == ASSUME IntakeInv, handleSave  PROVE IntakeInv'
<1>1. \E on \in BOOLEAN : SetsFlag(app', app, on)
  BY DEF handleSave, SetsFlag
<1>2. /\ app.view = "edit" /\ UNCHANGED srv
      /\ Begin([Handler("save") EXCEPT !.payload = buildPayload(app.form)])
  BY DEF handleSave, Editable
<1>3. QED  BY <1>1, <1>2, SendingKeeps

LEMMA ClosingKeeps == ASSUME IntakeInv, handleCloseRequest  PROVE IntakeInv'
<1>1. \E on \in BOOLEAN : SetsFlag(app', app, on)
  BY DEF handleCloseRequest, SetsFlag
<1>2. /\ app.view = "edit" /\ UNCHANGED srv
      /\ Begin([Handler("close") EXCEPT !.payload = buildPayload(app.form)])
  BY DEF handleCloseRequest, Confirmable, Editable
<1>3. QED  BY <1>1, <1>2, SendingKeeps

LEMMA UploadKeeps == ASSUME IntakeInv, handleUploadCommunication  PROVE IntakeInv'
<1> DEFINE run == Handler("upload")
<1>1. Begin(run) /\ UNCHANGED srv /\ app.view = "edit"
  BY DEF handleUploadCommunication, Editable
<1>2. \E on \in BOOLEAN : SetsFlag(app', app, on)
  BY DEF handleUploadCommunication, SetsFlag
<1>3. run \in Handlers /\ run.kind = "upload" /\ run.request = app.request
  BY HandlerIs, KindsAre DEF Workspace
<1>4. app.request \in Requests
  BY <1>1, IntakeTyped DEF AppFine
<1> HIDE DEF run
<1>5. AppFine(app') /\ InPlace
  BY <1>2, FlagStays
<1>6. RunFine(app', srv', run)
  BY <1>1, <1>3, <1>4, <1>5 DEF RunFine, InPlace, Workspace, Making
<1>7. run.kind \notin Making
  BY <1>3 DEF Making
<1>8. QED  BY <1>1, <1>3, <1>5, <1>6, <1>7, OneBegun

LEMMA SavedKeeps == ASSUME IntakeInv, NEW r \in Runs, Saved(r)  PROVE IntakeInv'
<1> DEFINE run == runs[r]
<1>1. run.kind = "save" /\ runs' = Without(runs, r) /\ srv' \in {srv, Stored(run)}
  BY DEF Saved
<1>2. run.kind \in Workspace /\ run.kind # "note" /\ run.kind \in {"save", "close"}
  BY <1>1 DEF Workspace
<1>3. AppFine(app') /\ InPlace
  <2>1. CASE app' = app
    BY <2>1, IntakeTyped DEF InPlace
  <2>2. CASE run.own /\ srv' = Stored(run)
             /\ app' = [Shows(app, srv'[run.request].from) EXCEPT !.saving = FALSE]
    <3> DEFINE from == srv'[run.request].from
               a == Shows(app, from)
    <3>1. from \in 0 .. NRequests /\ (app.hasty \/ from \in {0, run.request})
      BY <1>2, <2>2, HeardIs, StoredIs
    <3>2. app' = [a EXCEPT !.saving = FALSE]
      BY <2>2
    <3> HIDE DEF from
    <3>3. a \in {app, Shows(app, from)}
      OBVIOUS
    <3> HIDE DEF a
    <3>4. \E on \in BOOLEAN : SetsFlag(app', a, on)
      BY <3>2 DEF SetsFlag
    <3>5. QED  BY <1>2, <2>2, <3>1, <3>3, <3>4, ShownIs
  <2>3. CASE app' = [app EXCEPT !.saving = FALSE]
    <3>1. \E on \in BOOLEAN : SetsFlag(app', app, on)
      BY <2>3 DEF SetsFlag
    <3>2. QED  BY <3>1, FlagStays
  <2>4. QED  BY <2>1, <2>2, <2>3 DEF Saved, Heard
<1>4. SrvFine(app', srv') /\ \A k \in Requests : srv'[k].by = srv[k].by
  BY <1>1, <1>2, <1>3, InPlaceIsLater, ServerKept
<1>5. QED  BY <1>1, <1>2, <1>3, <1>4, OneOver

LEMMA UploadedKeeps == ASSUME IntakeInv, NEW r \in Runs, Uploaded(r)  PROVE IntakeInv'
<1> DEFINE run == runs[r]
           from == srv[run.request].from
<1>1. run.kind = "upload" /\ UNCHANGED srv /\ runs' \in {runs, Without(runs, r)}
  BY DEF Uploaded
<1>2. run.kind \in Workspace /\ run.kind # "note"
  BY <1>1 DEF Workspace
<1>3. from \in 0 .. NRequests /\ (app.hasty \/ from \in {0, run.request})
  BY <1>2, HeardIs, IntakeTyped DEF SrvFine
<1>4. \/ app' = app
      \/ run.own /\ \E again \in BOOLEAN : \E a \in {app, Shows(app, from)} :
                      app' = [a EXCEPT !.uploading = again]
      \/ app' = [app EXCEPT !.uploading = FALSE]
  BY DEF Uploaded, Heard
<1> HIDE DEF from
<1>5. AppFine(app') /\ InPlace
  <2>1. CASE app' = app
    BY <2>1, IntakeTyped DEF InPlace
  <2>2. CASE run.own /\ \E again \in BOOLEAN : \E a \in {app, Shows(app, from)} :
                      app' = [a EXCEPT !.uploading = again]
    <3>1. PICK again \in BOOLEAN, a \in {app, Shows(app, from)} :
             app' = [a EXCEPT !.uploading = again]
      BY <2>2
    <3>2. SetsFlag(app', a, again)
      BY <3>1 DEF SetsFlag
    <3>3. QED  BY <1>2, <1>3, <2>2, <3>2, ShownIs
  <2>3. CASE app' = [app EXCEPT !.uploading = FALSE]
    <3>1. \E on \in BOOLEAN : SetsFlag(app', app, on)
      BY <2>3 DEF SetsFlag
    <3>2. QED  BY <3>1, FlagStays
  <2>4. QED  BY <1>4, <2>1, <2>2, <2>3
<1>6. SrvFine(app', srv') /\ \A k \in Requests : srv'[k].by = srv[k].by
  BY <1>1, <1>5, SrvSame
<1>7. CASE runs' = runs
  BY <1>1, <1>5, <1>7, NoneBegun
<1>8. CASE runs' = Without(runs, r)
  BY <1>2, <1>5, <1>6, <1>8, OneOver
<1>9. QED  BY <1>1, <1>7, <1>8

-----------------------------------------------------------------------------
(* The steps out of the workspace.                                           *)

\* Nobody hears its handlers any more; one of them may be over.
LEMMA UnheardLeaves ==
  ASSUME IntakeInv, NEW K, Workspace \subseteq K, K \subseteq Kinds,
         \/ runs' = Unheard(K)
         \/ \E r \in Runs : runs' = Without(Unheard(K), r)
  PROVE  /\ runs' \in [Runs -> {Idle} \cup Handlers]
         /\ \A q \in Runs :
              /\ StillRuns(runs'[q], runs[q])
              /\ runs'[q] # Idle /\ runs'[q].kind \in K => ~ runs'[q].own
<1> DEFINE rs == Unheard(K)
<1>1. /\ rs \in [Runs -> {Idle} \cup Handlers]
      /\ \A q \in Runs : /\ StillRuns(rs[q], runs[q])
                         /\ rs[q] # Idle /\ rs[q].kind \in K => ~ rs[q].own
  BY IntakeTyped, UnheardIs
<1> HIDE DEF rs
<1>2. CASE runs' = rs
  BY <1>1, <1>2
<1>3. CASE \E r \in Runs : runs' = Without(rs, r)
  <2>1. PICK r \in Runs : runs' = Without(rs, r)
    BY <1>3
  <2>2. /\ runs' \in [Runs -> {Idle} \cup Handlers] /\ runs'[r] = Idle
        /\ \A q \in Runs : q # r => runs'[q] = rs[q]
    BY <1>1, <2>1, WithoutIs
  <2>3. QED  BY <1>1, <2>2, IdleIsFine
<1>4. QED  BY <1>2, <1>3 DEF rs

LEMMA SrvLater ==
  ASSUME IntakeInv, AppFine(app'), Later, UNCHANGED srv
  PROVE  SrvFine(app', srv') /\ \A k \in Requests : srv'[k].by = srv[k].by
BY IntakeTyped, SrvStays DEF SrvFine

\* Turned to where there is neither a workspace nor an intake.
LEMMA AwayKeeps ==
  ASSUME IntakeInv, AppFine(app'), Around(app, app'), app'.view # "edit", app'.id = 0,
         SrvFine(app', srv'), \A k \in Requests : srv'[k].by = srv[k].by,
         \/ runs' = Unheard(Workspace)
         \/ \E r \in Runs : runs' = Without(Unheard(Workspace), r)
  PROVE  IntakeInv'
<1>1. /\ runs' \in [Runs -> {Idle} \cup Handlers]
      /\ \A q \in Runs :
           /\ StillRuns(runs'[q], runs[q])
           /\ runs'[q] # Idle /\ runs'[q].kind \in Workspace => ~ runs'[q].own
  BY UnheardLeaves, KindsAre
<1>2. /\ app'.hasty = app.hasty /\ app'.told = app.told /\ app'.picked = app.picked
      /\ app'.submitting = app.submitting /\ app.last <= app'.last
  BY IntakeTyped, SizesAssumption DEF Around, AppStates
<1>3. QED  BY <1>1, <1>2, LeavingKeeps

LEMMA AroundIsLater ==
  ASSUME IntakeInv, Around(app, app')
  PROVE  Later
BY IntakeTyped, SizesAssumption DEF Around, Later, AppStates

LEMMA LogoutKeeps == ASSUME IntakeInv, handleLogout  PROVE IntakeInv'
<1> DEFINE a == Left(app)
<1>1. app' = [a EXCEPT !.view = "login"] /\ runs' = Unheard(Workspace) /\ UNCHANGED srv
  BY DEF handleLogout, Leaves
<1>2. /\ a \in AppStates /\ Around(app, a) /\ a.form = Blank /\ a.from = 0 /\ a.id = 0
  BY IntakeTyped, LeftIs
<1> HIDE DEF a
<1>3. "login" \in Views
  BY DEF Views
<1>4. /\ app' \in AppStates /\ Around(app, app') /\ app'.view = "login"
      /\ app'.form = Blank /\ app'.from = 0 /\ app'.id = 0
  BY <1>1, <1>2, <1>3 DEF AppStates, Around
<1>5. app'.id <= app'.last
  BY <1>4, SizesAssumption DEF AppStates
<1>6. AppFine(app')
  BY <1>4, <1>5, BlankIs, IntakeTyped DEF AppFine, Around
<1>7. QED  BY <1>1, <1>4, <1>6, AroundIsLater, SrvLater, AwayKeeps

LEMMA BackKeeps == ASSUME IntakeInv, Back  PROVE IntakeInv'
<1>1. app' = Turned(app, "dashboard") /\ runs' = Unheard(Workspace) /\ UNCHANGED srv
  BY DEF Back, Leaves
<1>2. AppFine(app') /\ Around(app, app') /\ app'.view # "edit" /\ app'.id = 0
  BY <1>1, IntakeTyped, DashboardIs
<1>3. QED  BY <1>1, <1>2, AroundIsLater, SrvLater, AwayKeeps

LEMMA ClosedKeeps == ASSUME IntakeInv, NEW r \in Runs, Closed(r)  PROVE IntakeInv'
<1> DEFINE run == runs[r]
<1>1. run.kind = "close" /\ srv' \in {srv, Stored(run)}
  BY DEF Closed
<1>2. run.kind \in {"save", "close"} /\ run.kind # "note"
  BY <1>1
<1>3. CASE app' = Turned(app, "dashboard") /\ runs' = Without(Unheard(Workspace), r)
  <2>1. AppFine(app') /\ Around(app, app') /\ app'.view # "edit" /\ app'.id = 0
    BY <1>3, IntakeTyped, DashboardIs
  <2>2. SrvFine(app', srv') /\ \A k \in Requests : srv'[k].by = srv[k].by
    BY <1>1, <1>2, <2>1, AroundIsLater, ServerKept
  <2>3. QED  BY <1>3, <2>1, <2>2, AwayKeeps
<1>4. CASE app' \in {app, [app EXCEPT !.closing = FALSE]} /\ runs' = Without(runs, r)
  <2>1. AppFine(app') /\ InPlace
    <3>1. CASE app' = app
      BY <3>1, IntakeTyped DEF InPlace
    <3>2. CASE app' = [app EXCEPT !.closing = FALSE]
      <4>1. \E on \in BOOLEAN : SetsFlag(app', app, on)
        BY <3>2 DEF SetsFlag
      <4>2. QED  BY <4>1, FlagStays
    <3>3. QED  BY <1>4, <3>1, <3>2
  <2>2. SrvFine(app', srv') /\ \A k \in Requests : srv'[k].by = srv[k].by
    BY <1>1, <1>2, <2>1, InPlaceIsLater, ServerKept
  <2>3. QED  BY <1>2, <1>4, <2>1, <2>2, OneOver
<1>5. QED  BY <1>3, <1>4 DEF Closed

\* The intake that begins is none of those before.
LEMMA BegunIntakeKeeps ==
  ASSUME IntakeInv, NEW g \in 0 .. NGroups, NEW f \in Content, Whole(f), f.group = g,
         app.last < NForms, AppFine(app'), UNCHANGED srv,
         app'.hasty = app.hasty, app'.told = app.told, app'.submitting = app.submitting,
         app'.last = app.last + 1, app'.view # "edit", app'.id \in {0, app'.last},
         runs' \in [Runs -> {Idle} \cup Handlers],
         \A q \in Runs :
            /\ StillRuns(runs'[q], runs[q])
            /\ runs'[q] # Idle /\ runs'[q].kind \in Workspace => ~ runs'[q].own
            /\ runs'[q] # Idle /\ runs'[q].own /\ runs'[q].kind = "options" =>
                  app'.picked = app.picked
  PROVE  IntakeInv'
<1>1. app.last \in Nat
  BY IntakeTyped, SizesAssumption DEF AppStates
<1>2. app.last <= app'.last /\ (app'.id = 0 \/ ~ (app'.id <= app.last))
  BY <1>1
<1>3. SrvFine(app', srv') /\ \A k \in Requests : srv'[k].by = srv[k].by
  BY <1>2, SrvLater DEF Later
<1>4. QED  BY <1>2, <1>3, LeavingKeeps

LEMMA BeginStandardKeeps == ASSUME IntakeInv, beginStandardNewRequest  PROVE IntakeInv'
<1> DEFINE a == Started(app, Blank, 0)
<1>1. /\ app.last < NForms /\ app' = [a EXCEPT !.dialogs = {}]
      /\ runs' = Unheard(Workspace) /\ UNCHANGED srv
  BY DEF beginStandardNewRequest, Leaves
<1>2. /\ AppFine(a) /\ a.hasty = app.hasty /\ a.last = app.last + 1 /\ a.told = app.told
      /\ a.submitting = app.submitting /\ a.picked = app.picked
      /\ a.view \in {"login", "new"} /\ a.id \in {0, a.last}
  BY <1>1, BlankIs, Zeros, IntakeTyped, StartedIs
<1> HIDE DEF a
<1>3. app' \in AppStates /\ SameBut(app', a) /\ app'.options = a.options
  BY <1>1, <1>2 DEF AppFine, AppStates, SameBut
<1>4. AppFine(app')
  BY <1>2, <1>3 DEF AppFine, SameBut
<1>5. /\ app'.hasty = app.hasty /\ app'.told = app.told /\ app'.submitting = app.submitting
      /\ app'.last = app.last + 1 /\ app'.view # "edit" /\ app'.id \in {0, app'.last}
      /\ app'.picked = app.picked
  BY <1>2, <1>3 DEF SameBut
<1>6. /\ runs' \in [Runs -> {Idle} \cup Handlers]
      /\ \A q \in Runs :
           /\ StillRuns(runs'[q], runs[q])
           /\ runs'[q] # Idle /\ runs'[q].kind \in Workspace => ~ runs'[q].own
  BY <1>1, UnheardLeaves, KindsAre
<1>7. QED  BY <1>1, <1>4, <1>5, <1>6, BlankIs, Zeros, BegunIntakeKeeps

LEMMA ApplyGroupKeeps ==
  ASSUME IntakeInv, NEW r \in Runs, applyGroupIntakeToForm(r)
  PROVE  IntakeInv'
<1> DEFINE p == runs[r].payload
           f == [p EXCEPT !.trip = p.group]
           a == Started(app, f, f.group)
<1>1. runs[r].kind = "confirm" /\ UNCHANGED srv
  BY DEF applyGroupIntakeToForm
<1>2. p \in Content /\ Whole(f)
  <2>1. runs[r] # Idle /\ runs[r] \in Handlers
    BY <1>1, IntakeTyped, KindsAre
  <2>2. QED  BY <1>1, <2>1, IntakeTyped DEF RunFine, Handlers
<1>3. f \in Content /\ f.group = p.group /\ p.group \in 0 .. NGroups
  BY <1>2 DEF Content
<1> HIDE DEF p
<1>4. CASE /\ app.last < NForms
           /\ app' = [a EXCEPT !.dialogs = @ \ {"inventory"}, !.picked = 0, !.options = 0]
           /\ runs' = Without(Unheard(Workspace \cup {"options"}), r)
  <2> HIDE DEF f
  <2>1. /\ AppFine(a) /\ a.hasty = app.hasty /\ a.last = app.last + 1 /\ a.told = app.told
        /\ a.submitting = app.submitting
        /\ a.view \in {"login", "new"} /\ a.id \in {0, a.last}
    BY <1>2, <1>3, <1>4, IntakeTyped, StartedIs
  <2> HIDE DEF a
  <2> DEFINE ds == a.dialogs \ {"inventory"}
  <2>2. a \in AppStates /\ ds \in SUBSET Dialogs
    BY <2>1 DEF AppFine, AppStates
  <2>3. app' = [a EXCEPT !.dialogs = ds, !.picked = 0, !.options = 0]
    BY <1>4
  <2> HIDE DEF ds
  <2>4. /\ app' \in AppStates /\ app'.picked = 0 /\ app'.options = 0
        /\ app'.view = a.view /\ app'.form = a.form /\ app'.from = a.from /\ app'.id = a.id
        /\ app'.last = a.last /\ app'.request = a.request /\ app'.draft = a.draft
        /\ app'.hasty = a.hasty /\ app'.told = a.told /\ app'.submitting = a.submitting
    BY <2>2, <2>3, Zeros DEF AppStates
  <2>5. AppFine(app')
    BY <2>1, <2>4 DEF AppFine
  <2>6. /\ Workspace \subseteq Workspace \cup {"options"}
        /\ Workspace \cup {"options"} \subseteq Kinds
    BY KindsAre
  <2>7. /\ runs' \in [Runs -> {Idle} \cup Handlers]
        /\ \A q \in Runs :
             /\ StillRuns(runs'[q], runs[q])
             /\ runs'[q] # Idle /\ runs'[q].kind \in Workspace \cup {"options"} =>
                  ~ runs'[q].own
    BY <1>4, <2>6, UnheardLeaves
  <2>8. /\ app'.hasty = app.hasty /\ app'.told = app.told /\ app'.submitting = app.submitting
        /\ app'.last = app.last + 1 /\ app'.view # "edit" /\ app'.id \in {0, app'.last}
    BY <2>1, <2>4
  <2>9. QED  BY <1>1, <1>2, <1>3, <1>4, <2>5, <2>7, <2>8, BegunIntakeKeeps
<1>5. CASE app' = app /\ runs' = Without(runs, r)
  <2>1. AppFine(app') /\ InPlace
    BY <1>5, IntakeTyped DEF InPlace
  <2>2. SrvFine(app', srv') /\ \A k \in Requests : srv'[k].by = srv[k].by
    BY <1>1, <2>1, SrvSame
  <2>3. QED  BY <1>1, <1>5, <2>1, <2>2, OneOver
<1>6. QED  BY <1>4, <1>5 DEF applyGroupIntakeToForm, p

LEMMA NewRequestKeeps == ASSUME IntakeInv, NewRequest  PROVE IntakeInv'
<1>1. CASE app' = [app EXCEPT !.dialogs = {"prompt"}] /\ UNCHANGED <<srv, runs>>
  <2>1. {"prompt"} \in SUBSET Dialogs
    BY DEF Dialogs
  <2>2. QED  BY <1>1, <2>1, DialogKeeps
<1>2. QED  BY <1>1, BeginStandardKeeps DEF NewRequest

LEMMA PromptKeeps == ASSUME IntakeInv, Prompt  PROVE IntakeInv'
<1>1. app.dialogs \subseteq Dialogs
  BY IntakeTyped DEF AppStates
<1>2. CASE app' = [app EXCEPT !.dialogs = @ \ {"prompt"}] /\ UNCHANGED <<srv, runs>>
  <2>1. app.dialogs \ {"prompt"} \in SUBSET Dialogs
    BY <1>1
  <2>2. QED  BY <1>2, <2>1, DialogKeeps
<1>3. CASE /\ app' = [app EXCEPT !.dialogs = (@ \ {"prompt"}) \cup {"picker"}]
           /\ UNCHANGED <<srv, runs>>
  <2>1. (app.dialogs \ {"prompt"}) \cup {"picker"} \in SUBSET Dialogs
    BY <1>1 DEF Dialogs
  <2>2. QED  BY <1>3, <2>1, DialogKeeps
<1>4. QED  BY <1>2, <1>3, BeginStandardKeeps DEF Prompt

-----------------------------------------------------------------------------
(* The steps that make a request or turn to one.                             *)

LEMMA PickGroupKeeps == ASSUME IntakeInv, NEW g \in Groups, PickGroup(g)  PROVE IntakeInv'
<1> DEFINE rs == Unheard({"options"})
           h == Handler("options")
           run == [h EXCEPT !.group = g]
           ds == (app.dialogs \ {"picker"}) \cup {"inventory"}
<1>1. /\ Begun(rs, run) /\ UNCHANGED srv
      /\ app' = [app EXCEPT !.dialogs = ds, !.picked = g, !.options = 0]
  BY DEF PickGroup
<1>2. app \in AppStates /\ AppFine(app) /\ g \in 0 .. NGroups
  BY IntakeTyped, Zeros
<1>3. ds \in SUBSET Dialogs
  BY <1>2 DEF AppStates, Dialogs
<1>4. h \in Handlers /\ h.kind = "options"
  BY HandlerIs, KindsAre
<1>5. /\ rs \in [Runs -> {Idle} \cup Handlers]
      /\ \A q \in Runs : /\ StillRuns(rs[q], runs[q]) /\ rs[q].kind = runs[q].kind
                         /\ rs[q] # Idle /\ rs[q].kind = "options" => ~ rs[q].own
                         /\ rs[q] = Idle <=> runs[q] = Idle
  BY IntakeTyped, UnheardIs, KindsAre
<1> HIDE DEF h, rs, ds
<1>6. run \in Handlers /\ run.kind = "options" /\ run.group = g
  BY <1>2, <1>4 DEF Handlers
<1> HIDE DEF run
<1>7. PICK r \in Runs : /\ runs[r] = Idle /\ runs'[r] = run
                        /\ \A q \in Runs : q # r => runs'[q] = rs[q]
  BY <1>1, <1>5, <1>6, BegunIs
<1>8. runs' \in [Runs -> {Idle} \cup Handlers]
  BY <1>1, <1>5, <1>6, BegunIs
<1>9. /\ app' \in AppStates /\ app'.picked = g /\ app'.options = 0
      /\ app'.view = app.view /\ app'.form = app.form /\ app'.from = app.from
      /\ app'.id = app.id /\ app'.last = app.last /\ app'.request = app.request
      /\ app'.draft = app.draft /\ app'.hasty = app.hasty /\ app'.told = app.told
      /\ app'.submitting = app.submitting
  BY <1>1, <1>2, <1>3, Zeros DEF AppStates
<1>10. AppFine(app')
  BY <1>2, <1>9 DEF AppFine
<1>11. Later
  BY <1>2, <1>9, SizesAssumption DEF Later, AppStates
<1>12. SrvFine(app', srv') /\ \A k \in Requests : srv'[k].by = srv[k].by
  BY <1>1, <1>10, <1>11, SrvLater
<1>13. ASSUME NEW q \in Runs, q # r
       PROVE  GoesOn(q) /\ runs'[q].kind = runs[q].kind
  <2>1. /\ StillRuns(runs'[q], runs[q]) /\ runs'[q].kind = runs[q].kind
        /\ runs'[q] # Idle /\ runs'[q].kind = "options" => ~ runs'[q].own
    BY <1>5, <1>7, <1>13
  <2>2. runs'[q] # Idle => RunFine(app, srv, runs[q]) /\ runs[q] # Idle
    BY <2>1, IntakeTyped DEF StillRuns
  <2>3. QED  BY <1>9, <1>12, <2>1, <2>2 DEF GoesOn, StillRuns, RunFine
<1>14. RunFine(app', srv', runs'[r])
  BY <1>6, <1>7, <1>9 DEF RunFine, Workspace, Making
<1>15. OneMaking'
  <2>1. runs'[r].kind \notin Making
    BY <1>6, <1>7 DEF Making
  <2>2. \A q \in Runs : runs'[q].kind \in Making => runs[q].kind = runs'[q].kind
    BY <1>13, <2>1
  <2>3. QED  BY <2>2, MakingStays
<1>16. NoteIsDue'
  <2>1. runs[r].kind # "note"
    BY <1>7, KindsAre DEF Kinds
  <2>2. \A q \in Runs : runs[q].kind = "note" => runs'[q].kind = "note"
    BY <1>13, <2>1
  <2>3. QED  BY <1>9, <1>12, <2>2 DEF IntakeInv, NoteIsDue
<1>17. QED  BY <1>8, <1>10, <1>11, <1>12, <1>13, <1>14, <1>15, <1>16, IntakeGoes

\* Nothing that sets the view is in flight when a patient agent opens a request.
LEMMA OpenRequestKeeps ==
  ASSUME IntakeInv, NEW k \in Requests, OpenRequest(k)
  PROVE  IntakeInv'
<1> DEFINE h == Handler("load")
           run == [h EXCEPT !.request = k]
<1>1. /\ app.view = "dashboard" /\ app' = Mounted(app, k) /\ Begin(run) /\ UNCHANGED srv
      /\ May
  BY DEF OpenRequest
<1>2. app \in AppStates /\ AppFine(app) /\ runs \in [Runs -> {Idle} \cup Handlers]
  BY IntakeTyped
<1>3. /\ AppFine(app') /\ Around(app, app') /\ app'.view = "edit" /\ app'.request = k
      /\ app'.id = 0
  BY <1>1, <1>2, MountedIs
<1>4. h \in Handlers /\ h.kind = "load"
  BY HandlerIs, KindsAre DEF Workspace
<1> HIDE DEF h
<1>5. run \in Handlers /\ run.kind = "load" /\ run.request = k
  BY <1>4, Zeros DEF Handlers
<1> HIDE DEF run
<1>6. PICK r \in Runs : /\ runs[r] = Idle /\ runs'[r] = run
                        /\ \A q \in Runs : q # r => runs'[q] = runs[q]
  BY <1>1, <1>2, <1>5, BegunIs DEF Begin
<1>7. runs' \in [Runs -> {Idle} \cup Handlers]
  BY <1>1, <1>2, <1>5, BegunIs DEF Begin
<1>8. Later
  BY <1>3, AroundIsLater
<1>9. SrvFine(app', srv') /\ \A q \in Requests : srv'[q].by = srv[q].by
  BY <1>1, <1>3, <1>8, SrvLater
<1>10. ASSUME NEW q \in Runs, q # r
       PROVE  GoesOn(q) /\ runs'[q].kind = runs[q].kind
  <2>1. runs'[q] = runs[q] /\ StillRuns(runs'[q], runs[q])
    BY <1>2, <1>6, <1>10, SameRun
  <2>2. RunFine(app, srv, runs[q])
    BY IntakeTyped
  <2>3. runs'[q] # Idle => ~ (runs'[q].own /\ runs'[q].kind \in Workspace)
    BY <1>1, <2>1, <2>2 DEF RunFine
  <2>4. runs'[q] # Idle /\ runs'[q].kind \in Making => app'.submitting /\ app.hasty
    <3>1. Making \subseteq Turning
      BY DEF Making, Turning
    <3>2. runs[q].kind \in Making => app.hasty
      BY <1>1, <3>1 DEF May
    <3>3. QED  BY <1>3, <2>1, <2>2, <3>2 DEF RunFine, Around
  <2>5. QED  BY <1>3, <1>9, <2>1, <2>3, <2>4 DEF GoesOn, Around
<1>11. RunFine(app', srv', runs'[r])
  BY <1>3, <1>5, <1>6 DEF RunFine, Workspace, Making
<1>12. OneMaking'
  <2>1. runs'[r].kind \notin Making
    BY <1>5, <1>6 DEF Making
  <2>2. \A q \in Runs : runs'[q].kind \in Making => runs[q].kind = runs'[q].kind
    BY <1>10, <2>1
  <2>3. QED  BY <2>2, MakingStays
<1>13. NoteIsDue'
  BY <1>3 DEF NoteIsDue
<1>14. QED  BY <1>3, <1>7, <1>8, <1>9, <1>10, <1>11, <1>12, <1>13, IntakeGoes

\* One intake is submitted at a time, under a number that no request has, or that the
\* agent was told of.
LEMMA CreateRequestBegins == ASSUME IntakeInv, handleCreateRequest  PROVE IntakeInv'
<1> DEFINE h == Handler("create")
           f == CreatePayload(app.form)
           run == [h EXCEPT !.request = 0, !.note = app.note, !.payload = f]
<1>1. /\ app.view = "new" /\ ~ app.submitting /\ Begin(run) /\ UNCHANGED srv
      /\ app' = [app EXCEPT !.submitting = TRUE]
  BY DEF handleCreateRequest
<1>2. app \in AppStates /\ AppFine(app) /\ runs \in [Runs -> {Idle} \cup Handlers]
  BY IntakeTyped
<1>3. h \in Handlers /\ h.kind = "create" /\ h.id = app.id
  BY HandlerIs, KindsAre DEF Making
<1>4. f \in Content /\ Whole(f) /\ app.note \in BOOLEAN
  BY <1>2, PayloadIs DEF AppFine, AppStates
<1> HIDE DEF h, f
<1>5. run \in Handlers /\ run.kind = "create" /\ run.id = app.id /\ run.payload = f
  BY <1>3, <1>4, Zeros DEF Handlers
<1> HIDE DEF run
<1>6. PICK r \in Runs : /\ runs[r] = Idle /\ runs'[r] = run
                        /\ \A q \in Runs : q # r => runs'[q] = runs[q]
  BY <1>1, <1>2, <1>5, BegunIs DEF Begin
<1>7. runs' \in [Runs -> {Idle} \cup Handlers]
  BY <1>1, <1>2, <1>5, BegunIs DEF Begin
<1>8. /\ app' \in AppStates /\ app'.submitting /\ app'.options = app.options
      /\ app'.view = app.view /\ app'.form = app.form /\ app'.from = app.from
      /\ app'.id = app.id /\ app'.last = app.last /\ app'.request = app.request
      /\ app'.draft = app.draft /\ app'.hasty = app.hasty /\ app'.told = app.told
      /\ app'.picked = app.picked
  BY <1>1, <1>2 DEF AppStates
<1>9. AppFine(app') /\ Later
  BY <1>2, <1>8, SizesAssumption DEF AppFine, Later, AppStates
<1>10. SrvFine(app', srv') /\ \A q \in Requests : srv'[q].by = srv[q].by
  BY <1>1, <1>9, SrvLater
<1>11. \A q \in Runs : runs[q].kind \notin Making
  <2>1. ASSUME NEW q \in Runs, runs[q].kind \in Making
        PROVE  FALSE
    <3>1. runs[q] # Idle /\ RunFine(app, srv, runs[q])
      BY <2>1, KindsAre, IntakeTyped
    <3>2. app.submitting
      BY <2>1, <3>1 DEF RunFine
    <3>3. QED  BY <1>1, <3>2
  <2>2. QED  BY <2>1
<1>12. ASSUME NEW q \in Runs, q # r
       PROVE  GoesOn(q) /\ runs'[q].kind \notin Making
  <2>1. /\ runs'[q] = runs[q] /\ StillRuns(runs'[q], runs[q])
        /\ RunFine(app, srv, runs[q])
    BY <1>2, <1>6, <1>12, SameRun, IntakeTyped
  <2>2. runs'[q].kind # "create"
    BY <1>11, <2>1 DEF Making
  <2>3. QED  BY <1>8, <1>11, <2>1, <2>2 DEF GoesOn, RunFine
<1>13. app.id \in app.told \cup {0} \/ \A q \in Requests : srv[q].by # app.id
  <2>1. \A q \in Runs : runs[q].kind # "note"
    BY <1>11 DEF Making
  <2>2. QED  BY <2>1 DEF IntakeInv, NoteIsDue
<1>14. RunFine(app', srv', runs'[r])
  <2>1. "create" \notin Workspace
    BY DEF Workspace
  <2>2. app.id <= app'.last /\ app'.view # "edit"
    BY <1>1, <1>2, <1>8 DEF AppFine
  <2>3. run.id \in app'.told \cup {0} \/ \A q \in Requests : srv'[q].by # run.id
    BY <1>5, <1>8, <1>10, <1>13
  <2>4. QED  BY <1>4, <1>5, <1>6, <1>8, <2>1, <2>2, <2>3 DEF RunFine
<1>15. OneMaking'
  BY <1>12 DEF OneMaking
<1>16. NoteIsDue'
  BY <1>8, <1>10, <1>13 DEF NoteIsDue
<1>17. QED  BY <1>7, <1>9, <1>10, <1>12, <1>14, <1>15, <1>16, IntakeGoes

\* The step of the one handler that makes a request: whatever it becomes, the others are
\* of another kind and go on.
LEMMA MakerGoes ==
  ASSUME IntakeInv, AppFine(app'), SrvFine(app', srv'), Later,
         NEW r \in Runs, runs[r].kind \in Making,
         NEW d \in {Idle} \cup Handlers, runs' = [runs EXCEPT ![r] = d],
         RunFine(app', srv', d), app'.picked = app.picked,
         app.view = "edit" =>
            app'.view = "edit" /\ (app.hasty \/ app'.request = app.request),
         NoteIsDue'
  PROVE  IntakeInv'
<1>1. /\ runs \in [Runs -> {Idle} \cup Handlers]
      /\ runs' \in [Runs -> {Idle} \cup Handlers] /\ runs'[r] = d
      /\ \A q \in Runs : q # r => runs'[q] = runs[q]
  BY IntakeTyped
<1>2. ASSUME NEW q \in Runs, q # r
      PROVE  GoesOn(q) /\ runs'[q].kind \notin Making
  <2>1. /\ runs'[q] = runs[q] /\ StillRuns(runs'[q], runs[q])
        /\ RunFine(app, srv, runs[q])
    BY <1>1, <1>2, SameRun, IntakeTyped
  <2>2. runs'[q].kind \notin Making
    BY <1>2, <2>1 DEF IntakeInv, OneMaking
  <2>3. runs'[q].kind # "create"
    BY <2>2 DEF Making
  <2>4. QED  BY <2>1, <2>2, <2>3 DEF GoesOn, RunFine
<1>3. OneMaking'
  BY <1>2 DEF OneMaking
<1>4. QED  BY <1>1, <1>2, <1>3, IntakeGoes

\* What is known of it before its step.
LEMMA MakerIs ==
  ASSUME IntakeInv, NEW r \in Runs, runs[r].kind \in Making
  PROVE  /\ runs[r] \in Handlers /\ app.submitting /\ (app.hasty \/ app.view # "edit")
         /\ runs[r].kind \in {"note", "board"} => runs[r].request \in Requests
         /\ runs[r].kind = "create" =>
              /\ runs[r].id <= app.last
              /\ runs[r].id \in app.told \cup {0}
                   \/ \A q \in Requests : srv[q].by # runs[r].id
         /\ \A q \in Runs : q # r => runs[q].kind # "note"
<1>1. runs[r] # Idle /\ runs[r] \in Handlers /\ RunFine(app, srv, runs[r])
  BY IntakeTyped, KindsAre
<1>2. \A q \in Runs : q # r => runs[q].kind # "note"
  BY DEF IntakeInv, OneMaking, Making
<1>3. QED  BY <1>1, <1>2 DEF RunFine

\* A request that is made is new, and of an intake that has none, unless the agent was
\* told otherwise.
LEMMA MadeIs ==
  ASSUME IntakeInv, AppFine(app'), Later, NEW r \in Runs, runs[r].kind = "create",
         NEW new \in Requests, NEW run, run.id = runs[r].id, srv' = Made(new, run)
  PROVE  SrvFine(app', srv')
<1>1. /\ runs[r].id <= app.last
      /\ runs[r].id \in app.told \cup {0} \/ \A q \in Requests : srv[q].by # runs[r].id
  BY MakerIs DEF Making
<1>2. runs[r].id \in 0 .. NForms
  BY MakerIs DEF Making, Handlers
<1> DEFINE n == runs[r].id
           s == [srv EXCEPT ![new] = [from |-> new, by |-> n]]
<1>3. srv' = s
  BY DEF Made
<1>4. /\ srv \in [Requests -> [from : 0 .. NRequests, by : 0 .. NForms]]
      /\ \A q \in Requests : srv[q].by <= app.last /\ (app.hasty \/ srv[q].from \in {0, q})
      /\ \A p, q \in Requests : p # q /\ srv[p].by # 0 /\ srv[p].by = srv[q].by =>
                                   srv[p].by \in app.told
  BY IntakeTyped DEF SrvFine
<1> HIDE DEF n
<1>5. /\ s \in [Requests -> [from : 0 .. NRequests, by : 0 .. NForms]]
      /\ s[new].by = n /\ s[new].from = new
      /\ \A q \in Requests : q # new => s[q] = srv[q]
  BY <1>2, <1>4, Zeros DEF n
<1> HIDE DEF s
<1>6. ASSUME NEW p \in Requests, NEW q \in Requests, p # q, s[p].by # 0, s[p].by = s[q].by
      PROVE  s[p].by \in app.told
  <2>1. CASE p = new \/ q = new
    <3>1. \E k \in Requests : srv[k].by = n
      BY <1>5, <1>6, <2>1
    <3>2. QED  BY <1>1, <1>5, <1>6, <2>1, <3>1 DEF n
  <2>2. CASE p # new /\ q # new
    BY <1>4, <1>5, <1>6, <2>2
  <2>3. QED  BY <2>1, <2>2
<1>7. \A q \in Requests : s[q].by <= app.last /\ (app.hasty \/ s[q].from \in {0, q})
  BY <1>1, <1>4, <1>5 DEF n
<1>8. \A q \in Requests : s[q].by <= app'.last
  <2>1. app.last \in Nat /\ app'.last \in Nat
    BY IntakeTyped, SizesAssumption DEF AppFine, AppStates
  <2>2. \A q \in Requests : s[q].by \in Nat
    BY <1>5, SizesAssumption
  <2>3. QED  BY <1>7, <2>1, <2>2 DEF Later
<1>9. QED  BY <1>3, <1>5, <1>6, <1>7, <1>8 DEF SrvFine, Later

LEMMA ResetKeeps ==
  ASSUME IntakeInv, app' = Reset(app)
  PROVE  /\ AppFine(app') /\ Later /\ app'.picked = app.picked /\ app'.view = app.view
         /\ app'.submitting = app.submitting /\ app'.id = 0
         /\ app.view = "edit" => app'.request = app.request
<1>1. /\ AppFine(app') /\ app'.hasty = app.hasty /\ app'.last = app.last
      /\ app'.told = app.told /\ app'.submitting = app.submitting
      /\ app'.picked = app.picked /\ app'.view = app.view /\ app'.id = 0
      /\ (app.view # "new" => app'.request = app.request)
  BY IntakeTyped, ResetIs
<1>2. Later
  BY <1>1, IntakeTyped, SizesAssumption DEF Later, AppStates
<1>3. QED  BY <1>1, <1>2

LEMMA CreatedKeeps == ASSUME IntakeInv, NEW r \in Runs, createRequest(r)  PROVE IntakeInv'
<1>1. runs[r].kind = "create" /\ runs[r].kind \in Making
  BY DEF createRequest, Making
<1>2. /\ runs[r] \in Handlers /\ app.submitting /\ (app.hasty \/ app.view # "edit")
      /\ AppFine(app) /\ app \in AppStates
  BY <1>1, MakerIs, IntakeTyped
<1>3. ASSUME NEW new \in Absent, NEW what \in {"note", "board"}, NEW d,
             d = [[runs[r] EXCEPT !.request = new, !.payload = Blank] EXCEPT !.kind = what]
      PROVE  /\ d \in Handlers /\ d.kind = what /\ d.request = new /\ d.id = runs[r].id
             /\ new \in Requests
  <2>1. new \in Requests /\ new \in 0 .. NRequests /\ what \in Kinds
    BY <1>3, Zeros DEF Absent, Kinds
  <2>2. QED  BY <1>2, <1>3, <2>1, BlankIs DEF Handlers
<1>4. ASSUME NEW new \in Absent,
             NEW run, run = [runs[r] EXCEPT !.request = new, !.payload = Blank],
             srv' = Made(new, run),
             NEW what \in {"note", "board"}, runs' = [runs EXCEPT ![r] = [run EXCEPT !.kind = what]],
             app' = IF what = "note" THEN app ELSE Reset(app)
      PROVE  IntakeInv'
  <2> DEFINE d == [run EXCEPT !.kind = what]
  <2>1. /\ d \in Handlers /\ d.kind = what /\ d.request = new /\ new \in Requests
    BY <1>3, <1>4
  <2>2. run.id = runs[r].id
    BY <1>2, <1>4 DEF Handlers
  <2> HIDE DEF d
  <2>3. /\ AppFine(app') /\ Later /\ app'.picked = app.picked /\ app'.view = app.view
        /\ app'.submitting = app.submitting
        /\ app.view = "edit" => app'.request = app.request
        /\ what = "board" => app'.id = 0
    <3>1. CASE what = "note"
      <4>1. app' = app
        BY <1>4, <3>1
      <4>2. app.last <= app.last
        BY <1>2, SizesAssumption DEF AppStates
      <4>3. "note" # "board"
        OBVIOUS
      <4>4. QED  BY <1>2, <3>1, <4>1, <4>2, <4>3 DEF Later
    <3>2. CASE what = "board"
      BY <1>4, <3>2, ResetKeeps
    <3>3. QED  BY <3>1, <3>2
  <2>4. SrvFine(app', srv')
    BY <1>1, <1>4, <2>1, <2>2, <2>3, MadeIs
  <2>5. runs' = [runs EXCEPT ![r] = d] /\ runs'[r] = d
    BY <1>4, IntakeTyped DEF d
  <2>6. RunFine(app', srv', d)
    <3>1. what \notin {"create", "save", "close", "confirm", "options"} /\ what \notin Workspace
      BY DEF Workspace
    <3>2. app'.hasty = app.hasty
      BY <2>3 DEF Later
    <3>3. QED  BY <1>2, <2>1, <2>3, <3>1, <3>2 DEF RunFine
  <2>7. NoteIsDue'
    BY <2>1, <2>3, <2>5 DEF NoteIsDue
  <2>8. QED  BY <1>1, <2>1, <2>3, <2>4, <2>5, <2>6, <2>7, MakerGoes
<1>5. ASSUME srv' \in {srv} \cup {Made(new, runs[r]) : new \in Absent},
             runs' = Without(runs, r),
             app' = [app EXCEPT !.submitting = FALSE, !.told = @ \cup ({runs[r].id} \ {0})]
      PROVE  IntakeInv'
  <2> DEFINE n == runs[r].id
             told == app.told \cup ({n} \ {0})
  <2>1. n \in 0 .. NForms /\ told \in SUBSET Forms
    BY <1>2, SizesAssumption DEF Handlers, AppStates, Forms
  <2>2. \E off \in BOOLEAN : app' = [app EXCEPT !.submitting = off, !.told = told]
    BY <1>5
  <2> HIDE DEF told, n
  <2>3. app' \in AppStates /\ app'.told = told
    BY <1>2, <2>1, <2>2 DEF AppStates
  <2>4. /\ app'.view = app.view /\ app'.form = app.form /\ app'.from = app.from
        /\ app'.id = app.id /\ app'.last = app.last /\ app'.request = app.request
        /\ app'.draft = app.draft /\ app'.hasty = app.hasty
        /\ app'.picked = app.picked /\ app'.options = app.options
    BY <1>2, <2>2 DEF AppStates
  <2>5. AppFine(app')
    BY <1>2, <2>3, <2>4 DEF AppFine
  <2>6. Later
    <3>1. app.told \subseteq told
      BY DEF told
    <3>2. QED  BY <1>2, <2>3, <2>4, <3>1, SizesAssumption DEF Later, AppStates
  <2>7. SrvFine(app', srv')
    <3>1. CASE srv' = srv
      BY <2>5, <2>6, <3>1, SrvLater
    <3>2. CASE srv' \in {Made(new, runs[r]) : new \in Absent}
      <4>1. PICK new \in Absent : srv' = Made(new, runs[r])
        BY <3>2
      <4>2. new \in Requests
        BY DEF Absent
      <4>3. QED  BY <1>1, <2>5, <2>6, <4>1, <4>2, MadeIs
    <3>3. QED  BY <1>5, <3>1, <3>2
  <2>8. \A q \in Requests : srv'[q].by \in {srv[q].by, n}
    <3>1. CASE srv' = srv
      BY <3>1
    <3>2. CASE srv' \in {Made(new, runs[r]) : new \in Absent}
      <4>1. PICK new \in Absent : srv' = Made(new, runs[r])
        BY <3>2
      <4>2. srv' = [srv EXCEPT ![new] = [from |-> new, by |-> n]]
        BY <4>1 DEF Made, n
      <4>3. QED  BY <4>2, IntakeTyped
    <3>3. QED  BY <1>5, <3>1, <3>2
  <2>9. \A q \in Runs : runs[q].kind # "note"
    BY <1>1, MakerIs
  <2>10. NoteIsDue'
    <3>1. app.id \in app.told \cup {0} \/ \A q \in Requests : srv[q].by # app.id
      BY <2>9 DEF IntakeInv, NoteIsDue
    <3>2. app'.id \in app'.told \cup {0} \/ \A q \in Requests : srv'[q].by # app'.id
      BY <2>3, <2>4, <2>8, <3>1 DEF told
    <3>3. QED  BY <3>2 DEF NoteIsDue
  <2>11. runs' = [runs EXCEPT ![r] = Idle] /\ RunFine(app', srv', Idle)
    BY <1>5, IdleIsFine DEF Without
  <2>12. QED  BY <1>1, <2>4, <2>5, <2>6, <2>7, <2>10, <2>11, MakerGoes
<1>6. CASE \E new \in Absent :
             LET run == [runs[r] EXCEPT !.request = new, !.payload = Blank]
             IN  /\ srv' = Made(new, run)
                 /\ IF run.note
                      THEN runs' = [runs EXCEPT ![r] = [run EXCEPT !.kind = "note"]] /\ UNCHANGED app
                      ELSE runs' = [runs EXCEPT ![r] = [run EXCEPT !.kind = "board"]] /\ app' = Reset(app)
  <2>1. PICK new \in Absent :
             LET run == [runs[r] EXCEPT !.request = new, !.payload = Blank]
             IN  /\ srv' = Made(new, run)
                 /\ IF run.note
                      THEN runs' = [runs EXCEPT ![r] = [run EXCEPT !.kind = "note"]] /\ UNCHANGED app
                      ELSE runs' = [runs EXCEPT ![r] = [run EXCEPT !.kind = "board"]] /\ app' = Reset(app)
    BY <1>6
  <2> DEFINE run == [runs[r] EXCEPT !.request = new, !.payload = Blank]
  <2>2. /\ srv' = Made(new, run)
        /\ \/ runs' = [runs EXCEPT ![r] = [run EXCEPT !.kind = "note"]] /\ app' = app
           \/ runs' = [runs EXCEPT ![r] = [run EXCEPT !.kind = "board"]] /\ app' = Reset(app)
    BY <2>1
  <2>3. \E what \in {"note", "board"} :
           /\ runs' = [runs EXCEPT ![r] = [run EXCEPT !.kind = what]]
           /\ app' = IF what = "note" THEN app ELSE Reset(app)
    BY <2>2
  <2>4. QED  BY <1>4, <2>2, <2>3
<1>7. QED  BY <1>5, <1>6 DEF createRequest

LEMMA NoteKeeps == ASSUME IntakeInv, NEW r \in Runs, addNote(r)  PROVE IntakeInv'
<1> DEFINE d == [runs[r] EXCEPT !.kind = "board"]
<1>1. /\ runs[r].kind = "note" /\ runs[r].kind \in Making /\ UNCHANGED srv
      /\ app' = Reset(app) /\ runs' = [runs EXCEPT ![r] = d]
  BY DEF addNote, Making
<1>2. /\ runs[r] \in Handlers /\ app.submitting /\ (app.hasty \/ app.view # "edit")
      /\ runs[r].request \in Requests
  BY <1>1, MakerIs
<1>3. d \in Handlers /\ d.kind = "board" /\ d.request = runs[r].request
  BY <1>2, KindsAre DEF Handlers, Making
<1> HIDE DEF d
<1>4. /\ AppFine(app') /\ Later /\ app'.picked = app.picked /\ app'.view = app.view
      /\ app'.submitting = app.submitting /\ app'.id = 0
      /\ app.view = "edit" => app'.request = app.request
  BY <1>1, ResetKeeps
<1>5. SrvFine(app', srv')
  BY <1>1, <1>4, SrvLater
<1>6. RunFine(app', srv', d)
  BY <1>2, <1>3, <1>4 DEF RunFine, Later, Workspace
<1>7. NoteIsDue'
  BY <1>4 DEF NoteIsDue
<1>8. QED  BY <1>1, <1>3, <1>4, <1>5, <1>6, <1>7, MakerGoes

\* The new request is opened: its maker is over, so that no other is being made there.
LEMMA OpenCreatedKeeps == ASSUME IntakeInv, NEW r \in Runs, OpenCreated(r)  PROVE IntakeInv'
<1> DEFINE k == runs[r].request
           m == Mounted(app, k)
           h == Handler("load")
           d == IF app.view = "login" THEN Idle ELSE [h EXCEPT !.request = k]
<1>1. /\ runs[r].kind = "board" /\ runs[r].kind \in Making /\ UNCHANGED srv
      /\ app' = [m EXCEPT !.submitting = FALSE] /\ runs' = [runs EXCEPT ![r] = d]
  BY DEF OpenCreated, Making
<1>2. k \in Requests /\ (app.hasty \/ app.view # "edit") /\ AppFine(app)
  BY <1>1, MakerIs, IntakeTyped
<1> HIDE DEF k
<1>3. AppFine(m) /\ Around(app, m) /\ m.id = 0
      /\ (app.view = "login" => m.view = "login")
      /\ (app.view # "login" => m.view = "edit" /\ m.request = k)
  <2>1. CASE app.view = "login"
    BY <1>2, <2>1 DEF Mounted, AppFine, Around
  <2>2. CASE app.view # "login"
    BY <1>2, <2>2, MountedIs
  <2>3. QED  BY <2>1, <2>2
<1>4. h \in Handlers /\ h.kind = "load"
  BY HandlerIs, KindsAre DEF Workspace
<1> HIDE DEF m, h
<1>5. d = Idle \/ (app.view # "login" /\ d \in Handlers /\ d.kind = "load" /\ d.request = k)
  BY <1>2, <1>4, Zeros DEF Handlers
<1> HIDE DEF d
<1>6. \E off \in BOOLEAN : app' = [m EXCEPT !.submitting = off]
  BY <1>1
<1>7. /\ app' \in AppStates /\ app'.options = m.options
      /\ app'.view = m.view /\ app'.form = m.form /\ app'.from = m.from
      /\ app'.id = m.id /\ app'.last = m.last /\ app'.request = m.request
      /\ app'.draft = m.draft /\ app'.hasty = m.hasty /\ app'.told = m.told
      /\ app'.picked = m.picked
  BY <1>3, <1>6 DEF AppFine, AppStates
<1>8. AppFine(app')
  BY <1>3, <1>7 DEF AppFine
<1>9. Later /\ app'.picked = app.picked /\ app'.id = 0 /\ app'.hasty = app.hasty
  BY <1>3, <1>7, IntakeTyped, SizesAssumption DEF Later, Around, AppStates
<1>10. SrvFine(app', srv')
  BY <1>1, <1>8, <1>9, SrvLater
<1>11. RunFine(app', srv', d)
  <2>1. CASE d = Idle
    BY <2>1, IdleIsFine
  <2>2. CASE app.view # "login" /\ d \in Handlers /\ d.kind = "load" /\ d.request = k
    BY <1>2, <1>3, <1>7, <2>2 DEF RunFine, Workspace, Making
  <2>3. QED  BY <1>5, <2>1, <2>2
<1>12. app.view = "edit" => app'.view = "edit" /\ (app.hasty \/ app'.request = app.request)
  BY <1>2, <1>3, <1>7
<1>13. NoteIsDue'
  BY <1>9 DEF NoteIsDue
<1>14. d \in {Idle} \cup Handlers
  BY <1>5
<1>15. QED  BY <1>1, <1>8, <1>9, <1>10, <1>11, <1>12, <1>13, <1>14, MakerGoes

-----------------------------------------------------------------------------
(* The intake and the workspace together.                                    *)

LEMMA IntakeStart == ASSUME Init  PROVE IntakeInv
<1>1. PICK p \in Parts, h \in {FALSE, TRUE}, off \in BOOLEAN :
        app = [view |-> "login", part |-> p, hasty |-> h, form |-> Blank, from |-> 0, id |-> 0,
               last |-> 0, request |-> 0, shown |-> off, draft |-> 0, picked |-> 0, options |-> 0,
               dialogs |-> {}, told |-> {}, note |-> off, submitting |-> off,
               loading |-> off, saving |-> off, closing |-> off,
               uploading |-> off]
  <2>1. PICK p \in Parts : \E h \in {FALSE, p = "group"} :
        app = [view |-> "login", part |-> p, hasty |-> h, form |-> Blank, from |-> 0, id |-> 0,
               last |-> 0, request |-> 0, shown |-> FALSE, draft |-> 0, picked |-> 0, options |-> 0,
               dialogs |-> {}, told |-> {}, note |-> FALSE, submitting |-> FALSE,
               loading |-> FALSE, saving |-> FALSE, closing |-> FALSE,
               uploading |-> FALSE]
    BY DEF Init
  <2>2. \A h \in {FALSE, p = "group"} : h \in {FALSE, TRUE}
    OBVIOUS
  <2>3. QED  BY <2>1, <2>2
<1>2. "login" \in Views /\ {} \in SUBSET Dialogs /\ {} \in SUBSET Forms
  BY DEF Views
<1>3. app \in AppStates
  <2>1. h \in BOOLEAN /\ off \in BOOLEAN
    OBVIOUS
  <2>2. QED  BY <1>1, <1>2, <2>1, Zeros, BlankIs DEF AppStates
<1>4. /\ app.view = "login" /\ app.form = Blank /\ app.id = 0 /\ app.last = 0 /\ app.from = 0
      /\ app.options = 0 /\ app.told = {}
  BY <1>1
<1>5. AppFine(app)
  BY <1>3, <1>4, BlankIs DEF AppFine
<1>6. \A q \in Requests : srv[q] = [from |-> IF q = 1 THEN 1 ELSE 0, by |-> 0]
  BY DEF Init
<1>7. srv \in [Requests -> [from : 0 .. NRequests, by : 0 .. NForms]]
  <2>1. \A q \in Requests : (IF q = 1 THEN 1 ELSE 0) \in 0 .. NRequests
    BY SizesAssumption DEF Requests
  <2>2. QED  BY <2>1, Zeros DEF Init
<1>8. SrvFine(app, srv)
  BY <1>4, <1>6, <1>7 DEF SrvFine
<1>9. \A q \in Runs : runs[q] = Idle
  BY DEF Init
<1>10. runs \in [Runs -> {Idle} \cup Handlers] /\ \A q \in Runs : RunFine(app, srv, runs[q])
  BY <1>9, IdleIsFine DEF Init
<1>11. OneMaking
  BY <1>9, KindsAre DEF OneMaking
<1>12. NoteIsDue
  BY <1>4 DEF NoteIsDue
<1>13. QED  BY <1>5, <1>8, <1>10, <1>11, <1>12 DEF IntakeInv

LEMMA IntakeStep == ASSUME IntakeInv, Next  PROVE IntakeInv'
<1>1. CASE Agent
  BY <1>1, LoginKeeps, LogoutKeeps, BackKeeps, NewRequestKeeps, PromptKeeps, LeavePickerKeeps,
     OpenRequestKeeps, PickGroupKeeps, InventoryConfirmKeeps, EditFormKeeps, EditNoteKeeps,
     CreateRequestBegins, RefreshKeeps, SaveKeeps, ClosingKeeps, UploadKeeps DEF Agent
<1>2. ASSUME NEW r \in Runs, Answer(r)
      PROVE  IntakeInv'
  BY <1>2, OptionsLoadedKeeps, ApplyGroupKeeps, CreatedKeeps, NoteKeeps, OpenCreatedKeeps,
     LoadKeeps, SavedKeeps, ClosedKeeps, UploadedKeeps DEF Answer
<1>3. QED  BY <1>1, <1>2 DEF Next

LEMMA IntakeStutter == ASSUME IntakeInv, UNCHANGED vars  PROVE IntakeInv'
BY DEF IntakeInv, OneMaking, NoteIsDue, vars

\* What the invariant says of the properties that are checked.
LEMMA IntakeHolds ==
  ASSUME IntakeInv
  PROVE  TypeOK /\ PayloadIsWhole /\ MadeOnce /\ NoCrossWrite
<1>1. app \in AppStates /\ AppFine(app) /\ SrvFine(app, srv)
  BY IntakeTyped
<1>2. TypeOK
  <2>1. \A r \in Runs : runs[r] # Idle =>
          /\ runs[r].kind \in Kinds /\ runs[r].own \in BOOLEAN /\ runs[r].note \in BOOLEAN
          /\ runs[r].request \in 0 .. NRequests /\ runs[r].group \in 0 .. NGroups
          /\ runs[r].payload \in Content
    BY IntakeTyped DEF Handlers
  <2>2. srv \in [Requests -> [from : 0 .. NRequests, by : 0 .. NForms]]
    BY IntakeTyped
  <2>3. /\ app.view \in Views /\ app.part \in Parts /\ app.form \in Content
        /\ {app.request, app.from} \subseteq 0 .. NRequests
        /\ {app.id, app.last} \subseteq 0 .. NForms /\ app.told \subseteq Forms
        /\ {app.draft, app.picked, app.options} \subseteq 0 .. NGroups
        /\ app.dialogs \subseteq Dialogs
        /\ {app.note, app.submitting, app.hasty, app.loading, app.shown, app.saving,
            app.closing, app.uploading} \subseteq BOOLEAN
    BY <1>1 DEF AppStates
  <2>4. QED  BY <2>1, <2>2, <2>3 DEF TypeOK
<1>3. PayloadIsWhole
  <2>1. ASSUME NEW r \in Runs, runs[r].kind \in {"create", "save", "close"}
        PROVE  Whole(runs[r].payload)
    <3>1. runs[r] # Idle
      BY <2>1, KindsAre DEF Kinds
    <3>2. QED  BY <2>1, <3>1, IntakeTyped DEF RunFine
  <2>2. app.view = "new" => app.draft = app.form.group
    BY <1>1 DEF AppFine
  <2>3. QED  BY <2>1, <2>2 DEF PayloadIsWhole
<1>4. MadeOnce
  BY <1>1 DEF MadeOnce, SrvFine
<1>5. NoCrossWrite
  BY <1>1 DEF NoCrossWrite, SrvFine
<1>6. QED  BY <1>2, <1>3, <1>4, <1>5

-----------------------------------------------------------------------------
(* The composition                                                           *)

\* The intake keeps its invariant while it is studied; the links do not touch it.
LEMMA IntakeInductive == MCSpec => [](screen = "intake" => IntakeInv)
<1> DEFINE I == screen = "intake" => IntakeInv
<1>1. MCInit => I
  BY IntakeStart DEF MCInit
<1>2. I /\ [MCNext]_formVars => I'
  <2> SUFFICES ASSUME I, [MCNext]_formVars, screen' = "intake"  PROVE IntakeInv'
    OBVIOUS
  <2>1. CASE UNCHANGED formVars
    <3>1. IntakeInv /\ UNCHANGED vars
      BY <2>1 DEF formVars
    <3>2. QED  BY <3>1, IntakeStutter
  <2>2. CASE MCNext
    <3>1. IntakeInv /\ Next
      BY <2>2 DEF MCNext
    <3>2. QED  BY <3>1, IntakeStep
  <2>3. QED  BY <2>1, <2>2
<1>3. QED  BY <1>1, <1>2, PTL DEF MCSpec

LEMMA PortalTyped == ASSUME PortalInv  PROVE P!TypeOK
<1>1. Typed /\ VaultKnows
  BY DEF PortalInv, LinksInv
<1>2. kind \in P!Kinds /\ links \in [P!Links -> P!Link] /\ taken \in BOOLEAN
  BY <1>1 DEF Typed
<1>3. ASSUME NEW t \in P!Tabs
      PROVE  tabs[t].link \in P!Links \cup {0} /\ tabs[t].at \in TabStates
  BY <1>1 DEF Typed
<1>4. /\ sender.link \in P!Links \cup {0}
      /\ {sender.busy, sender.said, sender.onFile} \subseteq BOOLEAN
  BY <1>1 DEF Typed
<1>5. vault.shown \in P!Links \cup {0} /\ vault.doing \in {"nothing", "reveal", "purge"}
  BY <1>1 DEF VaultKnows
<1>6. QED  BY <1>2, <1>3, <1>4, <1>5 DEF P!TypeOK, TabStates

\* The forms of a request, its handlers and the mailed links have their fields in their
\* ranges, whatever the number of requests, intakes, groups, links and tabs.
THEOREM FormsAreTyped == MCSpec => []FormsTypeOK
<1>1. (screen = "intake" => IntakeInv) /\ (screen = "links" => PortalInv) => FormsTypeOK
  BY IntakeHolds, PortalTyped DEF FormsTypeOK
<1>2. QED  BY <1>1, IntakeInductive, PortalInductive, PTL

\* A form of a request that is sent is whole, after any number of edits: the contact of
\* the linked client, details and attribution of what it names, the bookings, the line
\* and the dates of one group.
THEOREM FormsAreWhole == MCSpec => []FormIsWhole
<1>1. (screen = "intake" => IntakeInv) => FormIsWhole
  BY IntakeHolds DEF FormIsWhole
<1>2. QED  BY <1>1, IntakeInductive, PTL

\* An intake makes one request unless the agent was told that making it failed, however
\* many intakes are begun and left while their requests are being made (handleCreateRequest).
THEOREM IntakesMakeOne == MCSpec => []IntakeMakesOne
<1>1. (screen = "intake" => IntakeInv) => IntakeMakesOne
  BY IntakeHolds DEF IntakeMakesOne
<1>2. QED  BY <1>1, IntakeInductive, PTL

\* The text of a request is never stored as another's while the agent waits for the
\* answers that set the view, with any number of loads, saves, closes and uploads left
\* behind in the workspace.
THEOREM TextStaysItsOwn == MCSpec => []RequestKeepsItsText
<1>1. (screen = "intake" => IntakeInv) => RequestKeepsItsText
  BY IntakeHolds DEF RequestKeepsItsText
<1>2. QED  BY <1>1, IntakeInductive, PTL
=============================================================================
