------------------------------ MODULE Gateway ------------------------------
(***************************************************************************)
(* A WhatsApp gateway (mail_gateway, mail_gateway_whatsapp): the webhook   *)
(* and the map of webhooks each process caches, the updates a messenger    *)
(* delivers until they are answered, the chat and the author that belong   *)
(* to a number, and the messages users send, of one part or several.       *)
(*                                                                         *)
(* A request is a transaction of its process: what it reads is the view it *)
(* took when it began, what it writes appears when it commits.  A process  *)
(* has one request at a time, as the workers of the prefork server do, and *)
(* an update carries one message.  Bodies, media, templates and read marks *)
(* are left out; a message is posted in the chat of its number and, when   *)
(* it answers one, in that one's thread, by the same transaction.          *)
(***************************************************************************)
EXTENDS Naturals, FiniteSets

CONSTANTS
  Process,     \* the HTTP processes
  Partner,     \* the contacts
  Token,       \* phone numbers, as the messenger writes them
  NoToken,     \* no number
  FirstNumbers,\* the numbers the contacts may have at first
  Message,     \* the messages the messenger delivers
  From,        \* [Message -> Token]
  Silent,      \* the messages without text, media or place
  MaxFaults,   \* bound on failures of the network and of commits
  MaxEdits     \* bound on what users change

VARIABLES
  hook,        \* integrated_webhook_state
  cache,       \* the cached map of each process
  due,         \* the messages that were not answered
  posted,      \* how often each was posted
  chats,       \* how many channels a number has
  links,       \* res.partner.gateway.channel: pairs of partner and number
  guests,      \* how many guests a number has
  number,      \* phone_sanitized of each partner
  request,     \* the transaction of each process
  outbox,      \* the status of the last notification stored for each partner
  lost,        \* history: messages answered, not posted, while integrated
  probed,      \* history: a request left the empty map of another state or type
               \* in a cache while the gateway was integrated
  strayed,     \* history: contacts and numbers, no phone of theirs, that users
               \* sent to, merged or took away
  faults, edits

stored == <<chats, links, guests, outbox>>
history == <<lost, probed, strayed>>
gwVars == <<hook, cache, due, posted, stored, number, request, history, faults, edits>>

ASSUME GatewayAssumption ==
  /\ IsFiniteSet(Partner)
  /\ From \in [Message -> Token] /\ Silent \subseteq Message
  /\ NoToken \notin Token
  /\ FirstNumbers \subseteq [Partner -> Token \cup {NoToken}]
  /\ MaxFaults \in Nat /\ MaxEdits \in Nat

Hooks == {"none", "pending", "integrated"}

\* The map of a process: none cached, or one with or without the gateway.
Maps == {"none", "with", "without"}

View == [chats |-> chats, links |-> links, guests |-> guests, number |-> number]
NoView == [chats |-> [t \in Token |-> 0], links |-> {}, guests |-> [t \in Token |-> 0],
           number |-> [x \in Partner |-> NoToken]]
Idle == [kind |-> "idle", msg |-> "none", partner |-> "none", token |-> NoToken,
         view |-> NoView, accepted |-> "none"]

Fault ==
  /\ faults < MaxFaults
  /\ faults' = faults + 1

Edit ==
  /\ edits < MaxEdits
  /\ edits' = edits + 1

-----------------------------------------------------------------------------
(* The webhook and its cached map *)

\* Mutant: the caches of the processes are kept.
WriteKept(state) ==
  /\ hook' = state
  /\ UNCHANGED cache

\* MailGateway.write clears the cache of the registry, and Odoo tells the other
\* processes when the transaction ends.
Write(state) ==
  /\ hook' = state
  /\ cache' = [p \in Process |-> "none"]

\* _get_gateway: the cache has no key.  A map that is cached is used whatever
\* state and whatever gateway_type it was made for.
MapOf(p, state, type) ==
  IF cache[p] # "none" THEN cache[p]
  ELSE IF type = "whatsapp" /\ hook = state THEN "with" ELSE "without"

\* The map a request leaves in the cache drops the messages of an integrated
\* gateway.
Spoils(p) == hook = "integrated" /\ cache[p] = "none"

\* set_webhook of a WhatsApp gateway, remove_webhook.
SetWebhook ==
  /\ Edit
  /\ \E state \in {"pending", "none"} : Write(state)
  /\ UNCHANGED <<due, posted, stored, number, request, faults, history>>

\* GET: the verification of a webhook, with the right token or another; anyone
\* may ask for the address.
Verify(p) ==
  /\ request[p] = Idle
  /\ Edit
  /\ \/ /\ MapOf(p, "pending", "whatsapp") = "with"
        /\ Write("integrated")
     \/ /\ cache' = [cache EXCEPT ![p] = MapOf(p, "pending", "whatsapp")]
        /\ UNCHANGED hook
  /\ probed' = (probed \/ Spoils(p))
  /\ UNCHANGED <<due, posted, stored, number, request, lost, faults, strayed>>

\* GET or POST of another usage: no gateway has it, and the map is cached.
AskElsewhere(p) ==
  /\ request[p] = Idle
  /\ Edit
  /\ cache' = [cache EXCEPT ![p] = MapOf(p, "integrated", "other")]
  /\ probed' = (probed \/ Spoils(p))
  /\ UNCHANGED <<hook, due, posted, stored, number, request, lost, faults, strayed>>

-----------------------------------------------------------------------------
(* The author and the chat of a number *)

Linked(v, t) == {x \in Partner : <<x, t>> \in v.links}
Owners(v, t) == {x \in Partner : v.number[x] = t}

\* _get_author: the partner linked to the number, else the partner whose phone
\* it is, who is linked now, else a guest, who is created if there is none.
\* Several of them are no author: the id of one record is asked of them.
HasAuthor(v, t) ==
  IF Linked(v, t) # {} THEN Cardinality(Linked(v, t)) = 1
  ELSE IF Owners(v, t) # {} THEN Cardinality(Owners(v, t)) = 1
  ELSE v.guests[t] <= 1

NewLinks(v, t) ==
  IF Linked(v, t) = {} THEN Owners(v, t) \X {t} ELSE {}

NewGuest(v, t) ==
  IF Linked(v, t) = {} /\ Owners(v, t) = {} /\ v.guests[t] = 0 THEN 1 ELSE 0

\* Mutant: UNIQUE(partner_id, gateway_id) is not declared.
Unconstrained(new) == TRUE

\* UNIQUE(partner_id, gateway_id), checked against what is committed.
Unique(new) == \A n \in new, old \in links : n[1] # old[1]

\* A link that is inserted and not committed makes the next insertion for its
\* partner wait.
Pending(q) ==
  IF request[q].kind \in {"sending", "sent"}
  THEN {request[q].partner} \ {l[1] : l \in request[q].view.links} ELSE {}
Waits(p, new) == \E q \in Process \ {p}, n \in new : n[1] \in Pending(q)

\* The chat, the link and the guest a transaction creates appear.
Store(v, t, new, guest) ==
  /\ chats' = [chats EXCEPT ![t] = @ + (IF v.chats[t] = 0 THEN 1 ELSE 0)]
  /\ links' = links \cup new
  /\ guests' = [guests EXCEPT ![t] = @ + guest]

-----------------------------------------------------------------------------
(* Updates *)

\* POST: the message is answered at once when the map has no such gateway.
Refuse(p, m) ==
  /\ request[p] = Idle
  /\ m \in due
  /\ MapOf(p, "integrated", "whatsapp") = "without"
  /\ cache' = [cache EXCEPT ![p] = "without"]
  /\ due' = due \ {m}
  /\ lost' = IF hook = "integrated" /\ posted[m] = 0 THEN lost \cup {m} ELSE lost
  /\ UNCHANGED <<hook, posted, stored, number, request, probed, strayed, faults, edits>>

\* _receive_update of one message begins.
Receive(p, m) ==
  /\ request[p] = Idle
  /\ m \in due
  /\ MapOf(p, "integrated", "whatsapp") = "with"
  /\ cache' = [cache EXCEPT ![p] = "with"]
  /\ request' = [request EXCEPT ![p] =
       [Idle EXCEPT !.kind = "update", !.msg = m, !.token = From[m], !.view = View]]
  /\ UNCHANGED <<hook, due, posted, stored, number, faults, edits, history>>

End(p) == request' = [request EXCEPT ![p] = Idle]

\* Whether the author is asked for: the chat is created, or there is something
\* to post.
AsksAuthor(r) == r.view.chats[r.token] = 0 \/ r.msg \notin Silent

LinksOfUpdate(r) == IF AsksAuthor(r) THEN NewLinks(r.view, r.token) ELSE {}

\* Mutant: a message that was posted before is refused, not answered.
PostOnce(r) ==
  /\ posted[r.msg] = 0
  /\ posted' = [posted EXCEPT ![r.msg] = IF r.msg \in Silent THEN 0 ELSE 1]

\* Nobody looks whether the message was posted before.
Post(r) == posted' = [posted EXCEPT ![r.msg] = IF r.msg \in Silent THEN @ ELSE @ + 1]

\* The chat and the message are committed; the answer arrives, or not.
CommitUpdate(p) ==
  LET r == request[p]
      new == LinksOfUpdate(r)
      guest == IF AsksAuthor(r) THEN NewGuest(r.view, r.token) ELSE 0
  IN  /\ r.kind = "update"
      /\ AsksAuthor(r) => HasAuthor(r.view, r.token)
      /\ Unique(new) /\ ~Waits(p, new)
      /\ Store(r.view, r.token, new, guest)
      /\ Post(r)
      /\ \/ due' = due \ {r.msg} /\ UNCHANGED faults
         \/ Fault /\ UNCHANGED due
      /\ End(p)
      /\ UNCHANGED <<hook, cache, number, outbox, edits, history>>

\* The author or the unique constraint raises: nothing is stored.
RejectUpdate(p) ==
  LET r == request[p] IN
  /\ r.kind = "update"
  /\ AsksAuthor(r)
  /\ HasAuthor(r.view, r.token) => ~Unique(LinksOfUpdate(r))
  /\ End(p)
  /\ UNCHANGED <<hook, cache, due, posted, stored, number, faults, edits, history>>

\* A download raises, or the process dies.
FailUpdate(p) ==
  /\ request[p].kind = "update"
  /\ Fault
  /\ End(p)
  /\ UNCHANGED <<hook, cache, due, posted, stored, number, edits, history>>

-----------------------------------------------------------------------------
(* Sending *)

\* A user sends a template, a text or a receipt with attachments to a contact: to
\* the number of the field of the record that is chosen, which is the phone of the
\* contact or another, a mobile or a number of the document.
Compose(p, x, t) ==
  /\ request[p] = Idle
  /\ Edit
  /\ request' = [request EXCEPT ![p] =
       [Idle EXCEPT !.kind = "composed", !.partner = x, !.token = t, !.view = View]]
  /\ strayed' = IF t = number[x] THEN strayed ELSE strayed \cup {<<x, t>>}
  /\ UNCHANGED <<hook, cache, due, posted, stored, number, faults, lost, probed>>

\* Mutant: the plus sign is left in the number, which is another token.
LinksWithPlus(r) ==
  {<<r.partner, CHOOSE t \in Token : t # r.token>>} \ r.view.links

\* The link _whatsapp_get_channel creates, and whether the chat can be had: the
\* new one asks for its author.
LinksOfSend(r) == {<<r.partner, r.token>>} \ r.view.links
CanSend(r) ==
  /\ r.view.chats[r.token] = 0 => Linked(r.view, r.token) \subseteq {r.partner}
  /\ Unique(LinksOfSend(r))

\* _whatsapp_get_channel
GetChannel(p) ==
  LET r == request[p] IN
  /\ r.kind = "composed"
  /\ ~Waits(p, LinksOfSend(r))
  /\ request' = [request EXCEPT ![p] = IF CanSend(r) THEN [r EXCEPT !.kind = "sending"] ELSE Idle]
  /\ UNCHANGED <<hook, cache, due, posted, stored, number, faults, edits, history>>

\* _send: the text and the attachments go one after the other, until all were
\* accepted or one raised; the database is not touched between them.
SendParts(p) ==
  /\ request[p].kind = "sending"
  /\ \E accepted \in {"none", "some", "all"} :
       /\ IF accepted = "all" THEN UNCHANGED faults ELSE Fault
       /\ request' = [request EXCEPT ![p].kind = "sent", ![p].accepted = accepted]
  /\ UNCHANGED <<hook, cache, due, posted, stored, number, edits, history>>

\* Mutant: an exception of the first part is raised, not written.
StatusUnwritten(r) == IF r.accepted = "none" THEN "ready" ELSE "sent"

\* The exception, then "sent" over it if any part was accepted.
Status(r) == IF r.accepted = "none" THEN "exception" ELSE "sent"

CommitSend(p) ==
  LET r == request[p] IN
  /\ r.kind = "sent"
  /\ Store(r.view, r.token, LinksOfSend(r), 0)
  /\ outbox' = [outbox EXCEPT ![r.partner] = Status(r)]
  /\ End(p)
  /\ UNCHANGED <<hook, cache, due, posted, number, faults, edits, history>>

\* A serialization failure: Odoo runs the request again, sends included.
RetrySend(p) ==
  /\ request[p].kind = "sent"
  /\ Fault
  /\ request' = [request EXCEPT ![p].kind = "composed", ![p].accepted = "none", ![p].view = View]
  /\ UNCHANGED <<hook, cache, due, posted, stored, number, edits, history>>

-----------------------------------------------------------------------------
(* Users *)

\* The phone of a partner is entered, changed or removed.
ChangeNumber(x) ==
  /\ Edit
  /\ \E t \in (Token \cup {NoToken}) \ {number[x]} : number' = [number EXCEPT ![x] = t]
  /\ strayed' = strayed \cup ({<<x, number[x]>>} \cap (Partner \X Token))
  /\ UNCHANGED <<hook, cache, due, posted, stored, request, lost, probed, faults>>

\* MailGuestManage._merge_partner: a guest's number is linked to a partner.
MergeGuest(t, x) ==
  /\ guests[t] > 0
  /\ Edit
  /\ Unique({<<x, t>>})
  /\ \A p \in Process : x \notin Pending(p)
  /\ links' = links \cup {<<x, t>>}
  /\ strayed' = strayed \cup {<<x, t>>}
  /\ UNCHANGED <<hook, cache, due, posted, chats, guests, outbox, number, request, lost, probed, faults>>

-----------------------------------------------------------------------------

GwInit ==
  /\ hook \in {"none", "integrated"}
  /\ cache = [p \in Process |-> "none"]
  /\ due = Message
  /\ posted = [m \in Message |-> 0]
  /\ chats = [t \in Token |-> 0]
  /\ links = {}
  /\ guests = [t \in Token |-> 0]
  /\ number \in FirstNumbers
  /\ request = [p \in Process |-> Idle]
  /\ outbox = [x \in Partner |-> "none"]
  /\ lost = {} /\ probed = FALSE /\ strayed = {}
  /\ faults = 0 /\ edits = 0

Deliver(m) == \E p \in Process : Refuse(p, m) \/ Receive(p, m)

Handle(p) ==
  \/ CommitUpdate(p) \/ RejectUpdate(p)
  \/ GetChannel(p) \/ SendParts(p) \/ CommitSend(p)

GwNext ==
  \/ \E m \in Message : Deliver(m)
  \/ \E p \in Process : Handle(p) \/ FailUpdate(p) \/ RetrySend(p)
  \/ \E p \in Process : Verify(p) \/ AskElsewhere(p)
  \/ \E p \in Process, x \in Partner, t \in Token : Compose(p, x, t)
  \/ SetWebhook
  \/ \E x \in Partner : ChangeNumber(x) \/ (\E t \in Token : MergeGuest(t, x))

GwSpec == GwInit /\ [][GwNext]_gwVars

\* Requests end, and the messenger delivers what was not answered again.
GwFairSpec ==
  /\ GwSpec
  /\ \A p \in Process : WF_gwVars(Handle(p))
  /\ \A m \in Message : SF_gwVars(Deliver(m))

-----------------------------------------------------------------------------
(* Properties *)

GwTypeOK ==
  /\ hook \in Hooks /\ cache \in [Process -> Maps]
  /\ due \subseteq Message /\ lost \subseteq Message \ due
  /\ posted \in [Message -> Nat]
  /\ chats \in [Token -> Nat] /\ guests \in [Token -> Nat]
  /\ links \subseteq Partner \X Token /\ strayed \subseteq Partner \X Token
  /\ number \in [Partner -> Token \cup {NoToken}]
  /\ outbox \in [Partner -> {"none", "sent", "exception"}]
  /\ faults \in 0 .. MaxFaults /\ edits \in 0 .. MaxEdits

\* A number has more than one chat only when it has a guest or several partners:
\* for a contact whose phone is known the unique link undoes the second of two
\* requests that found no chat.
OneChatPerPartner ==
  \A t \in Token :
    chats[t] > 1 => guests[t] > 0 \/ Cardinality(Linked(View, t)) > 1

\* While the gateway is integrated a message is answered without being posted
\* only after a verification, or a request of another usage, found no map in the
\* cache of its process and left one there: a change of the webhook leaves no
\* process with the map of before.
LostOnlyAfterProbe == lost # {} => probed

\* The numbers whose messages always raise: several partners or guests, or a
\* partner who is linked to another number.
Blocked(t) ==
  \/ ~HasAuthor(View, t)
  \/ ~Unique(NewLinks(View, t))

\* The messages of the phone of one contact never raise, as long as no user sent
\* to another number of the contact, to that number for another contact, or changed
\* phones or merged guests of either: whatever else updates and sendings link, in
\* whatever order they overlap, is a contact and its phone.
ContactsNeverMuted ==
  \A x \in Partner, t \in Token :
    /\ Owners(View, t) = {x}
    /\ \A l \in strayed : l[1] # x /\ l[2] # t
    => ~Blocked(t)

\* A message is answered in the end, however requests overlap and fail, or its
\* number is blocked for good.
MessagesAnswered ==
  \A m \in Message : <>[](m \notin due \/ Blocked(From[m]))
=============================================================================
