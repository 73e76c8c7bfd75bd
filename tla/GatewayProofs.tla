---------------------------- MODULE GatewayProofs ----------------------------
(* Proofs about the gateway: types, the cached map of webhooks, the contacts *)
(* that are never muted and the chats of contacts.                           *)
EXTENDS Gateway, FiniteSetTheorems, TLAPS

(***************************************************************************)
(* Types                                                                   *)
(***************************************************************************)

Views == [chats : [Token -> Nat], links : SUBSET (Partner \X Token),
          guests : [Token -> Nat], number : [Partner -> Token \cup {NoToken}]]

Kinds == {"idle", "update", "composed", "sending", "sent"}
Sending == {"composed", "sending", "sent"}

Requests == [kind : Kinds, msg : Message \cup {"none"}, partner : Partner \cup {"none"},
             token : Token \cup {NoToken}, view : Views, accepted : {"none", "some", "all"}]

StoredType ==
  /\ chats \in [Token -> Nat] /\ guests \in [Token -> Nat]
  /\ links \in SUBSET (Partner \X Token)
  /\ outbox \in [Partner -> {"none", "sent", "exception"}]
  /\ number \in [Partner -> Token \cup {NoToken}]

RequestType ==
  /\ request \in [Process -> Requests]
  /\ \A p \in Process :
       /\ request[p].kind = "update" => request[p].msg \in Message /\ request[p].token \in Token
       /\ request[p].kind \in Sending =>
            request[p].partner \in Partner /\ request[p].token \in Token

WebType ==
  /\ hook \in Hooks /\ cache \in [Process -> Maps]
  /\ due \subseteq Message /\ lost \subseteq Message \ due
  /\ posted \in [Message -> Nat]
  /\ strayed \in SUBSET (Partner \X Token)
  /\ faults \in 0 .. MaxFaults /\ edits \in 0 .. MaxEdits

TypeInv == StoredType /\ RequestType /\ WebType

\* The invariant gives the type invariant the runs check.
LEMMA TypeInvGives == TypeInv => GwTypeOK
  BY DEF TypeInv, StoredType, RequestType, WebType, GwTypeOK

\* What a request reads and what an idle process holds are values of their types.
LEMMA RequestValues ==
  /\ StoredType => View \in Views
  /\ Idle \in Requests
  BY DEF View, Views, Idle, NoView, Requests, Kinds, StoredType

LEMMA TypeInit == GwInit => TypeInv
<1> SUFFICES ASSUME GwInit PROVE TypeInv
  OBVIOUS
<1> USE GatewayAssumption DEF GwInit
<1>1. StoredType
  BY DEF StoredType
<1>2. RequestType
  BY RequestValues DEF RequestType, Idle, Sending
<1>3. WebType
  BY DEF WebType, Hooks, Maps
<1> QED
  BY <1>1, <1>2, <1>3 DEF TypeInv

\* Ending a request, or marking a step of it, keeps the types of requests.
LEMMA EndType ==
  ASSUME RequestType, NEW p \in Process, End(p)
  PROVE  RequestType'
  BY RequestValues DEF RequestType, End, Idle, Sending, Requests

\* What Store writes has its type.
LEMMA StoreType ==
  ASSUME StoredType, NEW v \in Views, NEW t \in Token,
         NEW new \in SUBSET (Partner \X Token), NEW guest \in Nat,
         Store(v, t, new, guest), outbox' \in [Partner -> {"none", "sent", "exception"}], UNCHANGED number
  PROVE  StoredType'
<1>1. v.chats[t] = 0 \/ v.chats[t] # 0
  OBVIOUS
<1>2. chats' \in [Token -> Nat]
  BY DEF StoredType, Store
<1>3. guests' \in [Token -> Nat]
  BY DEF StoredType, Store
<1> QED
  BY <1>2, <1>3 DEF StoredType, Store

\* The links and guests an update or a sending creates are links and guests.
LEMMA NewTypes ==
  ASSUME NEW r \in Requests, r.token \in Token
  PROVE  /\ LinksOfUpdate(r) \in SUBSET (Partner \X Token)
         /\ (IF AsksAuthor(r) THEN NewGuest(r.view, r.token) ELSE 0) \in Nat
         /\ r.partner \in Partner => LinksOfSend(r) \in SUBSET (Partner \X Token)
  BY DEF Requests, LinksOfUpdate, NewLinks, Owners, NewGuest, LinksOfSend

LEMMA TypeNext == TypeInv /\ [GwNext]_gwVars => TypeInv'
<1> SUFFICES ASSUME TypeInv, [GwNext]_gwVars PROVE TypeInv'
  OBVIOUS
<1> USE GatewayAssumption DEF TypeInv
<1>a. ASSUME NEW p \in Process, NEW m \in Message, Refuse(p, m) PROVE TypeInv'
  <2>1. WebType'
    BY <1>a DEF Refuse, WebType, Maps
  <2> QED
    BY <1>a, <2>1 DEF Refuse, StoredType, RequestType, stored
<1>b. ASSUME NEW p \in Process, NEW m \in Message, Receive(p, m) PROVE TypeInv'
  <2>1. View \in Views /\ Idle \in Requests
    BY RequestValues
  <2>2. RequestType'
    BY <1>b, <2>1 DEF Receive, RequestType, Requests, Kinds, Idle, Sending
  <2>3. WebType'
    BY <1>b DEF Receive, WebType, Maps, history
  <2> QED
    BY <1>b, <2>2, <2>3 DEF Receive, StoredType, stored
<1>c. ASSUME NEW p \in Process, CommitUpdate(p) PROVE TypeInv'
  <2> DEFINE r == request[p]
  <2> DEFINE new == LinksOfUpdate(r)
  <2> DEFINE guest == IF AsksAuthor(r) THEN NewGuest(r.view, r.token) ELSE 0
  <2>1. /\ r \in Requests /\ r.token \in Token /\ r.msg \in Message
        /\ r.view \in Views
    BY <1>c DEF CommitUpdate, RequestType, Requests
  <2>2. Store(r.view, r.token, new, guest) /\ UNCHANGED <<number, outbox>>
    BY <1>c DEF CommitUpdate
  <2>3. new \in SUBSET (Partner \X Token) /\ guest \in Nat
    BY <2>1, NewTypes
  <2>4. StoredType'
    <3> HIDE DEF new, guest
    <3> QED
      BY <2>1, <2>2, <2>3, StoreType DEF StoredType
  <2>5. RequestType'
    BY <1>c, EndType DEF CommitUpdate
  <2>6. WebType'
    <3>1. posted' \in [Message -> Nat]
      BY <1>c, <2>1 DEF CommitUpdate, Post, WebType
    <3>2. due' \subseteq due /\ faults' \in 0 .. MaxFaults
      BY <1>c DEF CommitUpdate, Fault, WebType
    <3> QED
      BY <1>c, <3>1, <3>2 DEF CommitUpdate, WebType, history
  <2> QED
    BY <2>2, <2>4, <2>5, <2>6
<1>d. ASSUME NEW p \in Process, RejectUpdate(p) PROVE TypeInv'
  <2>1. RequestType'
    BY <1>d, EndType DEF RejectUpdate
  <2> QED
    BY <1>d, <2>1 DEF RejectUpdate, StoredType, WebType, stored, history
<1>e. ASSUME NEW p \in Process, FailUpdate(p) PROVE TypeInv'
  <2>1. RequestType'
    BY <1>e, EndType DEF FailUpdate
  <2> QED
    BY <1>e, <2>1 DEF FailUpdate, StoredType, WebType, stored, history, Fault
<1>f. ASSUME NEW p \in Process, NEW x \in Partner, NEW t \in Token, Compose(p, x, t)
      PROVE  TypeInv'
  <2> DEFINE r == [Idle EXCEPT !.kind = "composed", !.partner = x, !.token = t, !.view = View]
  <2>1. View \in Views /\ Idle \in Requests
    BY RequestValues
  <2>2. /\ r \in Requests /\ r.kind = "composed" /\ r.partner = x /\ r.token = t
    BY <2>1 DEF Requests, Kinds
  <2>3. request' = [request EXCEPT ![p] = r]
    BY <1>f DEF Compose
  <2>4. RequestType'
    <3> HIDE DEF r
    <3> QED
      BY <2>2, <2>3 DEF RequestType, Sending
  <2>5. strayed' \in SUBSET (Partner \X Token)
    BY <1>f DEF Compose, WebType
  <2> QED
    BY <1>f, <2>4, <2>5 DEF Compose, StoredType, WebType, stored, Edit
<1>g. ASSUME NEW p \in Process, GetChannel(p) PROVE TypeInv'
  <2>1. Idle \in Requests
    BY RequestValues
  <2>2. RequestType'
    BY <1>g, <2>1 DEF GetChannel, RequestType, Requests, Kinds, Idle, Sending
  <2> QED
    BY <1>g, <2>2 DEF GetChannel, StoredType, WebType, stored, history
<1>h. ASSUME NEW p \in Process, SendParts(p) PROVE TypeInv'
  <2>1. RequestType'
    <3>1. PICK a \in {"none", "some", "all"} :
            request' = [request EXCEPT ![p].kind = "sent", ![p].accepted = a]
      BY <1>h DEF SendParts
    <3>2. request[p].kind \in Sending
      BY <1>h DEF SendParts, Sending
    <3> DEFINE r == [request[p] EXCEPT !.kind = "sent", !.accepted = a]
    <3>3. request' = [request EXCEPT ![p] = r]
      BY <3>1 DEF RequestType, Requests
    <3>4. /\ r \in Requests /\ r.kind = "sent" /\ r.partner = request[p].partner
          /\ r.token = request[p].token
      BY DEF RequestType, Requests, Kinds
    <3> HIDE DEF r
    <3> QED
      BY <3>2, <3>3, <3>4 DEF RequestType, Sending
  <2> QED
    BY <1>h, <2>1 DEF SendParts, StoredType, WebType, stored, history, Fault
<1>j. ASSUME NEW p \in Process, CommitSend(p) PROVE TypeInv'
  <2> DEFINE r == request[p]
  <2>1. /\ r \in Requests /\ r.token \in Token /\ r.partner \in Partner
        /\ r.view \in Views
    BY <1>j DEF CommitSend, RequestType, Requests, Sending
  <2>2. outbox' = [outbox EXCEPT ![r.partner] = Status(r)]
    BY <1>j DEF CommitSend
  <2>3. outbox' \in [Partner -> {"none", "sent", "exception"}]
    BY <2>1, <2>2 DEF StoredType, Status
  <2>5. LinksOfSend(r) \in SUBSET (Partner \X Token)
    BY <2>1, NewTypes
  <2>6. StoredType'
    BY <1>j, <2>1, <2>3, <2>5, StoreType DEF CommitSend
  <2>7. RequestType'
    BY <1>j, EndType DEF CommitSend
  <2> QED
    BY <1>j, <2>6, <2>7 DEF CommitSend, WebType, history
<1>k. ASSUME NEW p \in Process, RetrySend(p) PROVE TypeInv'
  <2>1. View \in Views
    BY RequestValues
  <2> DEFINE r == [request[p] EXCEPT !.kind = "composed", !.accepted = "none", !.view = View]
  <2>3. request' = [request EXCEPT ![p] = r] /\ request[p].kind = "sent"
    BY <1>k DEF RetrySend, RequestType, Requests
  <2>4. /\ r \in Requests /\ r.kind = "composed"
        /\ r.partner = request[p].partner /\ r.token = request[p].token
    BY <2>1 DEF RequestType, Requests, Kinds
  <2>2. RequestType'
    <3> HIDE DEF r
    <3> QED
      BY <2>3, <2>4 DEF RequestType, Sending
  <2> QED
    BY <1>k, <2>2 DEF RetrySend, StoredType, WebType, stored, history, Fault
<1>l. ASSUME NEW p \in Process, Verify(p) PROVE TypeInv'
  <2>1. WebType'
    BY <1>l DEF Verify, Write, MapOf, WebType, Maps, Hooks, Edit
  <2> QED
    BY <1>l, <2>1 DEF Verify, StoredType, RequestType, stored
<1>q. ASSUME NEW p \in Process, AskElsewhere(p) PROVE TypeInv'
  <2>1. WebType'
    BY <1>q DEF AskElsewhere, MapOf, WebType, Maps, Edit
  <2> QED
    BY <1>q, <2>1 DEF AskElsewhere, StoredType, RequestType, stored
<1>m. ASSUME SetWebhook PROVE TypeInv'
  <2>1. WebType'
    BY <1>m DEF SetWebhook, Write, WebType, Maps, Hooks, Edit, history
  <2> QED
    BY <1>m, <2>1 DEF SetWebhook, StoredType, RequestType, stored
<1>n. ASSUME NEW x \in Partner, ChangeNumber(x) PROVE TypeInv'
  <2>1. StoredType'
    BY <1>n DEF ChangeNumber, StoredType, stored
  <2>2. strayed' \in SUBSET (Partner \X Token)
    BY <1>n DEF ChangeNumber, WebType
  <2> QED
    BY <1>n, <2>1, <2>2 DEF ChangeNumber, RequestType, WebType, stored, Edit
<1>o. ASSUME NEW t \in Token, NEW x \in Partner, MergeGuest(t, x) PROVE TypeInv'
  <2>1. StoredType'
    BY <1>o DEF MergeGuest, StoredType
  <2>2. strayed' \in SUBSET (Partner \X Token)
    BY <1>o DEF MergeGuest, WebType
  <2> QED
    BY <1>o, <2>1, <2>2 DEF MergeGuest, RequestType, WebType, Edit
<1>p. CASE UNCHANGED gwVars
  BY <1>p DEF gwVars, stored, history, StoredType, RequestType, WebType
<1> QED
  BY <1>a, <1>b, <1>c, <1>d, <1>e, <1>f, <1>g, <1>h, <1>j, <1>k, <1>l, <1>m, <1>n,
     <1>o, <1>p, <1>q DEF GwNext, Deliver, Handle

\* Every behaviour keeps the types of the gateway's state; a notification is sent
\* or an exception, and no message that is lost is delivered again.
THEOREM GwTypeCorrect == GwSpec => []GwTypeOK
<1>1. GwSpec => []TypeInv
  BY TypeInit, TypeNext, PTL DEF GwSpec
<1> QED
  BY <1>1, TypeInvGives, PTL

(***************************************************************************)
(* The cached map of webhooks                                              *)
(***************************************************************************)

\* No process holds a map without the gateway while it is integrated, unless a
\* verification or a request of another usage put one there.
CacheInv ==
  /\ hook = "integrated" => probed \/ \A p \in Process : cache[p] # "without"
  /\ LostOnlyAfterProbe

LEMMA CacheNext == TypeInv /\ CacheInv /\ [GwNext]_gwVars => CacheInv'
<1> SUFFICES ASSUME TypeInv, CacheInv, [GwNext]_gwVars PROVE CacheInv'
  OBVIOUS
<1> USE DEF CacheInv, LostOnlyAfterProbe
<1>1. cache \in [Process -> Maps]
  BY DEF TypeInv, WebType
<1>a. ASSUME NEW p \in Process, NEW m \in Message, Refuse(p, m) PROVE CacheInv'
  <2>1. /\ UNCHANGED <<hook, probed>>
        /\ cache' = [cache EXCEPT ![p] = "without"]
        /\ lost' # {} => lost # {} \/ hook = "integrated"
    BY <1>a DEF Refuse
  <2>2. hook = "integrated" => cache[p] = "without"
    BY <1>1, <1>a DEF Refuse, MapOf, Maps
  <2> QED
    BY <1>1, <2>1, <2>2
<1>b. ASSUME NEW p \in Process, NEW m \in Message, Receive(p, m) PROVE CacheInv'
  BY <1>1, <1>b DEF Receive, history
<1>c. ASSUME NEW p \in Process, Verify(p) PROVE CacheInv'
  <2>1. probed' = (probed \/ Spoils(p)) /\ UNCHANGED lost
    BY <1>c DEF Verify
  <2>2. CASE Write("integrated")
    BY <1>1, <2>1, <2>2 DEF Write
  <2>3. CASE UNCHANGED hook /\ cache' = [cache EXCEPT ![p] = MapOf(p, "pending", "whatsapp")]
    BY <1>1, <2>1, <2>3 DEF Spoils, MapOf
  <2> QED
    BY <1>c, <2>2, <2>3 DEF Verify
<1>l. ASSUME NEW p \in Process, AskElsewhere(p) PROVE CacheInv'
  BY <1>1, <1>l DEF AskElsewhere, Spoils, MapOf
<1>d. ASSUME SetWebhook PROVE CacheInv'
  BY <1>d DEF SetWebhook, Write, history
<1>e. ASSUME UNCHANGED <<hook, cache, history>> PROVE CacheInv'
  BY <1>e DEF history
<1>f. ASSUME UNCHANGED <<hook, cache, lost, probed>> PROVE CacheInv'
  BY <1>f
<1>g. ASSUME NEW p \in Process, Handle(p) \/ FailUpdate(p) \/ RetrySend(p) PROVE CacheInv'
  BY <1>g, <1>e DEF Handle, CommitUpdate, RejectUpdate, GetChannel, SendParts,
     CommitSend, FailUpdate, RetrySend
<1>h. ASSUME NEW p \in Process, NEW x \in Partner, NEW t \in Token, Compose(p, x, t)
      PROVE  CacheInv'
  BY <1>h, <1>f DEF Compose
<1>i. ASSUME NEW x \in Partner, NEW t \in Token, ChangeNumber(x) \/ MergeGuest(t, x)
      PROVE CacheInv'
  BY <1>i, <1>f DEF ChangeNumber, MergeGuest
<1>j. CASE UNCHANGED gwVars
  BY <1>j, <1>e DEF gwVars
<1>k. ASSUME NEW x \in Partner, ChangeNumber(x) PROVE CacheInv'
  BY <1>k, <1>f DEF ChangeNumber
<1> QED
  BY <1>a, <1>b, <1>c, <1>d, <1>g, <1>h, <1>i, <1>j, <1>k, <1>l DEF GwNext, Deliver

\* However requests and changes of the webhook overlap, a message is dropped by an
\* integrated gateway only after a verification, or a request of another usage,
\* left its empty map in a cache: the maps of before an integration are gone.
THEOREM DropsOnlyAfterProbe == GwSpec => []LostOnlyAfterProbe
<1>1. GwInit => CacheInv
  BY DEF GwInit, CacheInv, LostOnlyAfterProbe
<1>2. GwSpec => [](TypeInv /\ CacheInv)
  BY <1>1, TypeInit, TypeNext, CacheNext, PTL DEF GwSpec
<1> QED
  BY <1>2, PTL DEF CacheInv

(***************************************************************************)
(* Contacts are never muted                                                *)
(***************************************************************************)

\* A link is to the phone of its contact, or to a number a user chose or took away.
Known(x, t) == number[x] = t \/ <<x, t>> \in strayed

\* What a request has read or sends to, and every link, is known.
NumberInv ==
  /\ \A l \in links : Known(l[1], l[2])
  /\ \A p \in Process :
       /\ request[p].kind # "idle" =>
            \A x \in Partner, t \in Token : request[p].view.number[x] = t => Known(x, t)
       /\ request[p].kind \in Sending => Known(request[p].partner, request[p].token)

\* What is known stays known.
LEMMA KnownStays ==
  ASSUME TypeInv, [GwNext]_gwVars, NEW x \in Partner, NEW t \in Token, Known(x, t)
  PROVE  number'[x] = t \/ <<x, t>> \in strayed'
<1>1. CASE UNCHANGED number /\ strayed \subseteq strayed'
  BY <1>1 DEF Known
<1>2. ASSUME NEW y \in Partner, ChangeNumber(y)
      PROVE  number'[x] = t \/ <<x, t>> \in strayed'
  <2>1. strayed \subseteq strayed' /\ \A z \in Partner \ {y} : number'[z] = number[z]
    BY <1>2 DEF ChangeNumber, TypeInv, StoredType
  <2>2. ASSUME x = y, number[x] = t PROVE <<x, t>> \in strayed'
    <3>1. strayed' = strayed \cup ({<<x, t>>} \cap (Partner \X Token))
      BY <1>2, <2>2 DEF ChangeNumber
    <3> QED
      BY <3>1
  <2> QED
    BY <2>1, <2>2 DEF Known
<1>3. ASSUME NEW p \in Process, NEW y \in Partner, NEW u \in Token, Compose(p, y, u)
      PROVE  UNCHANGED number /\ strayed \subseteq strayed'
  BY <1>3 DEF Compose
<1>4. ASSUME NEW y \in Partner, NEW u \in Token, MergeGuest(u, y)
      PROVE  UNCHANGED number /\ strayed \subseteq strayed'
  BY <1>4 DEF MergeGuest
<1>5. ASSUME NEW p \in Process, Handle(p) \/ FailUpdate(p) \/ RetrySend(p)
      PROVE  UNCHANGED <<number, strayed>>
  BY <1>5 DEF Handle, CommitUpdate, RejectUpdate, GetChannel, SendParts, CommitSend,
     FailUpdate, RetrySend, history
<1>6. ASSUME NEW p \in Process, NEW m \in Message, Refuse(p, m) \/ Receive(p, m)
      PROVE  UNCHANGED <<number, strayed>>
  BY <1>6 DEF Refuse, Receive, history
<1>7. ASSUME NEW p \in Process, Verify(p) \/ AskElsewhere(p) \/ SetWebhook
      PROVE  UNCHANGED <<number, strayed>>
  BY <1>7 DEF Verify, AskElsewhere, SetWebhook, history
<1>8. ASSUME SetWebhook PROVE UNCHANGED <<number, strayed>>
  BY <1>8 DEF SetWebhook, history
<1>9. CASE UNCHANGED gwVars
  BY <1>1, <1>9 DEF gwVars, history
<1> QED
  BY <1>1, <1>2, <1>3, <1>4, <1>5, <1>6, <1>7, <1>8, <1>9 DEF GwNext, Deliver

\* A request that begins, goes on or ends keeps the invariant, when the links that
\* are stored meanwhile are known.
LEMMA NumberKept ==
  ASSUME TypeInv, NumberInv, [GwNext]_gwVars, NEW p \in Process, NEW r,
         request' = [request EXCEPT ![p] = r],
         r.kind # "idle" =>
           r.view = View \/ (request[p].kind # "idle" /\ r.view = request[p].view),
         r.kind \in Sending =>
           number'[r.partner] = r.token \/ <<r.partner, r.token>> \in strayed',
         NEW new \in SUBSET (Partner \X Token), links' = links \cup new,
         \A l \in new : Known(l[1], l[2])
  PROVE  NumberInv'
<1>1. \A x \in Partner, t \in Token :
        Known(x, t) => number'[x] = t \/ <<x, t>> \in strayed'
  BY KnownStays
<1>2. request'[p] = r /\ \A q \in Process \ {p} : request'[q] = request[q]
  BY DEF TypeInv, RequestType
<1>3. \A l \in links' : number'[l[1]] = l[2] \/ <<l[1], l[2]>> \in strayed'
  <2>1. \A l \in links' : l[1] \in Partner /\ l[2] \in Token /\ Known(l[1], l[2])
    BY DEF NumberInv, TypeInv, StoredType
  <2> QED
    BY <1>1, <2>1
<1>4. ASSUME NEW q \in Process, request'[q].kind # "idle", NEW x \in Partner, NEW t \in Token,
             request'[q].view.number[x] = t
      PROVE  number'[x] = t \/ <<x, t>> \in strayed'
  <2>1. CASE request'[q].view = View
    <3>1. number[x] = t
      BY <1>4, <2>1 DEF View
    <3> QED
      BY <1>1, <3>1 DEF Known
  <2>2. CASE request[q].kind # "idle" /\ request'[q].view = request[q].view
    BY <1>1, <1>4, <2>2 DEF NumberInv
  <2> QED
    BY <1>2, <1>4, <2>1, <2>2
<1>5. ASSUME NEW q \in Process, request'[q].kind \in Sending
      PROVE  \/ number'[request'[q].partner] = request'[q].token
             \/ <<request'[q].partner, request'[q].token>> \in strayed'
  <2>1. CASE q = p
    BY <1>2, <1>5, <2>1
  <2>2. CASE q # p
    <3>1. /\ request[q].partner \in Partner /\ request[q].token \in Token
          /\ Known(request[q].partner, request[q].token)
          /\ request'[q] = request[q]
      BY <1>2, <1>5, <2>2 DEF NumberInv, TypeInv, RequestType
    <3> QED
      BY <1>1, <3>1
  <2> QED
    BY <2>1, <2>2
<1> QED
  BY <1>3, <1>4, <1>5 DEF NumberInv, Known

\* A step that touches no request keeps it, when the links it stores are known.
LEMMA NumberStays ==
  ASSUME TypeInv, NumberInv, [GwNext]_gwVars, UNCHANGED request,
         NEW new \in SUBSET (Partner \X Token), links' = links \cup new,
         \A l \in new : number'[l[1]] = l[2] \/ <<l[1], l[2]>> \in strayed'
  PROVE  NumberInv'
<1>1. \A x \in Partner, t \in Token :
        Known(x, t) => number'[x] = t \/ <<x, t>> \in strayed'
  BY KnownStays
<1>2. \A l \in links : l[1] \in Partner /\ l[2] \in Token /\ Known(l[1], l[2])
  BY DEF NumberInv, TypeInv, StoredType
<1>3. \A q \in Process : request[q].kind \in Sending =>
        /\ request[q].partner \in Partner /\ request[q].token \in Token
        /\ Known(request[q].partner, request[q].token)
  BY DEF NumberInv, TypeInv, RequestType
<1>4. \A q \in Process : request[q].kind # "idle" =>
        \A x \in Partner, t \in Token : 
          request[q].view.number[x] = t => number'[x] = t \/ <<x, t>> \in strayed'
  BY <1>1 DEF NumberInv
<1>5. \A l \in links' : number'[l[1]] = l[2] \/ <<l[1], l[2]>> \in strayed'
  BY <1>1, <1>2
<1>6. \A q \in Process : request[q].kind \in Sending =>
        \/ number'[request[q].partner] = request[q].token
        \/ <<request[q].partner, request[q].token>> \in strayed'
  BY <1>1, <1>3
<1> QED
  BY <1>4, <1>5, <1>6 DEF NumberInv, Known

LEMMA NumberNext == TypeInv /\ NumberInv /\ [GwNext]_gwVars => NumberInv'
<1> SUFFICES ASSUME TypeInv, NumberInv, [GwNext]_gwVars PROVE NumberInv'
  OBVIOUS
<1>1. request \in [Process -> Requests] /\ RequestType
  BY DEF TypeInv, RequestType
<1>2. Idle.kind = "idle"
  BY DEF Idle
<1>3. \A x \in Partner, t \in Token :
        Known(x, t) => number'[x] = t \/ <<x, t>> \in strayed'
  BY KnownStays
<1>4. ASSUME UNCHANGED <<request, links>> PROVE NumberInv'
  <2>1. {} \in SUBSET (Partner \X Token) /\ links' = links \cup {}
    BY <1>4
  <2>2. \A l \in {} : number'[l[1]] = l[2] \/ <<l[1], l[2]>> \in strayed'
    OBVIOUS
  <2> QED
    BY <1>4, <2>1, <2>2, NumberStays
<1>5. ASSUME NEW p \in Process, End(p), UNCHANGED links PROVE NumberInv'
  <2>1. {} \in SUBSET (Partner \X Token) /\ links' = links \cup {}
    BY <1>5
  <2>2. \A l \in {} : Known(l[1], l[2])
    OBVIOUS
  <2>3. request' = [request EXCEPT ![p] = Idle] /\ Idle.kind \notin Sending
    BY <1>2, <1>5 DEF End, Sending
  <2> QED
    BY <1>2, <2>1, <2>2, <2>3, NumberKept
<1>6. ASSUME NEW p \in Process, NEW new \in SUBSET (Partner \X Token), End(p),
             links' = links \cup new, \A l \in new : Known(l[1], l[2])
      PROVE  NumberInv'
  BY <1>2, <1>6, NumberKept DEF End, Sending
<1>7. ASSUME NEW p \in Process, NEW r, request' = [request EXCEPT ![p] = r], UNCHANGED links,
             request[p].kind \in Sending, r.view \in {View, request[p].view},
             r.partner = request[p].partner, r.token = request[p].token
      PROVE  NumberInv'
  <2>1. /\ request[p].partner \in Partner /\ request[p].token \in Token
        /\ Known(request[p].partner, request[p].token)
    BY <1>1, <1>7 DEF RequestType, NumberInv
  <2>2. number'[r.partner] = r.token \/ <<r.partner, r.token>> \in strayed'
    BY <1>3, <1>7, <2>1
  <2>3. request[p].kind # "idle"
    BY <1>7 DEF Sending
  <2>4. {} \in SUBSET (Partner \X Token) /\ links' = links \cup {}
    BY <1>7
  <2>5. \A l \in {} : Known(l[1], l[2])
    OBVIOUS
  <2> QED
    BY <1>7, <2>2, <2>3, <2>4, <2>5, NumberKept
<1>a. ASSUME NEW p \in Process, NEW m \in Message, Refuse(p, m) PROVE NumberInv'
  BY <1>4, <1>a DEF Refuse, stored
<1>b. ASSUME NEW p \in Process, NEW m \in Message, Receive(p, m) PROVE NumberInv'
  <2> DEFINE r == [Idle EXCEPT !.kind = "update", !.msg = m, !.token = From[m], !.view = View]
  <2>1. request' = [request EXCEPT ![p] = r] /\ UNCHANGED links
    BY <1>b DEF Receive, stored
  <2>2. r.kind = "update" /\ r.view = View
    BY DEF Idle
  <2> HIDE DEF r
  <2>3. r.kind \notin Sending
    BY <2>2 DEF Sending
  <2>4. {} \in SUBSET (Partner \X Token) /\ links' = links \cup {}
    BY <2>1
  <2>5. \A l \in {} : Known(l[1], l[2])
    OBVIOUS
  <2> QED
    BY <2>1, <2>2, <2>3, <2>4, <2>5, NumberKept
<1>c. ASSUME NEW p \in Process, CommitUpdate(p) PROVE NumberInv'
  <2> DEFINE r == request[p]
  <2>1. /\ r.kind = "update" /\ End(p) /\ links' = links \cup LinksOfUpdate(r)
    BY <1>c DEF CommitUpdate, Store
  <2>2. r \in Requests /\ r.token \in Token
    BY <1>1, <2>1 DEF RequestType
  <2>3. \A l \in LinksOfUpdate(r) :
          l[1] \in Partner /\ l[2] = r.token /\ r.view.number[l[1]] = r.token
    BY DEF LinksOfUpdate, NewLinks, Owners
  <2>4. \A l \in LinksOfUpdate(r) : Known(l[1], l[2])
    BY <2>1, <2>2, <2>3 DEF NumberInv
  <2>5. LinksOfUpdate(r) \in SUBSET (Partner \X Token)
    BY <2>2, NewTypes
  <2> QED
    BY <1>6, <2>1, <2>4, <2>5
<1>d. ASSUME NEW p \in Process, RejectUpdate(p) \/ FailUpdate(p) PROVE NumberInv'
  BY <1>5, <1>d DEF RejectUpdate, FailUpdate, stored
<1>f. ASSUME NEW p \in Process, NEW x \in Partner, NEW t \in Token, Compose(p, x, t)
      PROVE  NumberInv'
  <2> DEFINE r == [Idle EXCEPT !.kind = "composed", !.partner = x, !.token = t, !.view = View]
  <2>1. request' = [request EXCEPT ![p] = r] /\ UNCHANGED <<links, number>>
    BY <1>f DEF Compose, stored
  <2>2. r.partner = x /\ r.token = t /\ r.view = View
    BY DEF Idle
  <2>3. t = number[x] \/ <<x, t>> \in strayed'
    BY <1>f DEF Compose
  <2> HIDE DEF r
  <2>4. number'[r.partner] = r.token \/ <<r.partner, r.token>> \in strayed'
    BY <2>1, <2>2, <2>3
  <2>5. {} \in SUBSET (Partner \X Token) /\ links' = links \cup {}
    BY <2>1
  <2>6. \A l \in {} : Known(l[1], l[2])
    OBVIOUS
  <2> QED
    BY <2>1, <2>2, <2>4, <2>5, <2>6, NumberKept
<1>g. ASSUME NEW p \in Process, GetChannel(p) PROVE NumberInv'
  <2> DEFINE r == [request[p] EXCEPT !.kind = "sending"]
  <2>1. /\ request[p].kind \in Sending /\ UNCHANGED links
        /\ request' = [request EXCEPT ![p] = IF CanSend(request[p]) THEN r ELSE Idle]
    BY <1>g DEF GetChannel, stored, Sending
  <2>2. /\ r.view = request[p].view /\ r.partner = request[p].partner
        /\ r.token = request[p].token
    BY <1>1 DEF Requests
  <2> HIDE DEF r
  <2>3. CASE CanSend(request[p])
    BY <1>7, <2>1, <2>2, <2>3
  <2>4. CASE ~CanSend(request[p])
    BY <1>5, <2>1, <2>4 DEF End
  <2> QED
    BY <2>3, <2>4
<1>h. ASSUME NEW p \in Process, SendParts(p) PROVE NumberInv'
  <2>0. PICK a \in {"none", "some", "all"} :
          request' = [request EXCEPT ![p].kind = "sent", ![p].accepted = a]
    BY <1>h DEF SendParts
  <2> DEFINE r == [request[p] EXCEPT !.kind = "sent", !.accepted = a]
  <2>1. /\ request[p].kind \in Sending /\ UNCHANGED links
        /\ request' = [request EXCEPT ![p] = r]
    BY <1>1, <1>h, <2>0 DEF SendParts, stored, Sending, Requests
  <2>2. /\ r.view = request[p].view /\ r.partner = request[p].partner
        /\ r.token = request[p].token
    BY <1>1 DEF Requests
  <2> HIDE DEF r
  <2> QED
    BY <1>7, <2>1, <2>2
<1>j. ASSUME NEW p \in Process, CommitSend(p) PROVE NumberInv'
  <2> DEFINE r == request[p]
  <2>1. /\ r.kind \in Sending /\ End(p) /\ links' = links \cup LinksOfSend(r)
    BY <1>j DEF CommitSend, Store, Sending
  <2>2. /\ r \in Requests /\ r.token \in Token /\ r.partner \in Partner
        /\ Known(r.partner, r.token)
    BY <1>1, <2>1 DEF RequestType, NumberInv
  <2>3. LinksOfSend(r) \in SUBSET (Partner \X Token)
    BY <2>2, NewTypes
  <2>4. \A l \in LinksOfSend(r) : l[1] = r.partner /\ l[2] = r.token
    BY DEF LinksOfSend
  <2> QED
    BY <1>6, <2>1, <2>2, <2>3, <2>4
<1>k. ASSUME NEW p \in Process, RetrySend(p) PROVE NumberInv'
  <2> DEFINE r == [request[p] EXCEPT !.kind = "composed", !.accepted = "none", !.view = View]
  <2>1. /\ request[p].kind \in Sending /\ UNCHANGED links
        /\ request' = [request EXCEPT ![p] = r]
    BY <1>1, <1>k DEF RetrySend, stored, Sending, Requests
  <2>2. /\ r.view = View /\ r.partner = request[p].partner /\ r.token = request[p].token
    BY <1>1 DEF Requests
  <2> HIDE DEF r
  <2> QED
    BY <1>7, <2>1, <2>2
<1>l. ASSUME NEW p \in Process, Verify(p) \/ AskElsewhere(p) PROVE NumberInv'
  BY <1>4, <1>l DEF Verify, AskElsewhere, stored
<1>m. ASSUME SetWebhook PROVE NumberInv'
  BY <1>4, <1>m DEF SetWebhook, stored
<1>n. ASSUME NEW x \in Partner, ChangeNumber(x) PROVE NumberInv'
  BY <1>4, <1>n DEF ChangeNumber, stored
<1>o. ASSUME NEW t \in Token, NEW x \in Partner, MergeGuest(t, x) PROVE NumberInv'
  <2>1. UNCHANGED request /\ links' = links \cup {<<x, t>>} /\ <<x, t>> \in strayed'
    BY <1>o DEF MergeGuest
  <2>2. {<<x, t>>} \in SUBSET (Partner \X Token)
    OBVIOUS
  <2>3. \A l \in {<<x, t>>} : number'[l[1]] = l[2] \/ <<l[1], l[2]>> \in strayed'
    BY <2>1
  <2> QED
    BY <2>1, <2>2, <2>3, NumberStays
<1>p. CASE UNCHANGED gwVars
  BY <1>4, <1>p DEF gwVars, stored
<1> QED
  BY <1>a, <1>b, <1>c, <1>d, <1>f, <1>g, <1>h, <1>j, <1>k, <1>l, <1>m, <1>n,
     <1>o, <1>p DEF GwNext, Deliver, Handle

\* The phone of one contact is heard as long as no user brings that contact or that
\* number together with another: for any number of processes, contacts and messages,
\* whatever updates and sendings of the others overlap.
THEOREM ContactsAreHeard == GwSpec => []ContactsNeverMuted
<1>1. GwInit => NumberInv
  BY DEF GwInit, NumberInv, Idle, Sending
<1>2. TypeInv /\ NumberInv => ContactsNeverMuted
  <2> SUFFICES ASSUME TypeInv, NumberInv, NEW x \in Partner, NEW t \in Token,
                      Owners(View, t) = {x},
                      \A l \in strayed : l[1] # x /\ l[2] # t
               PROVE  ~Blocked(t)
    BY DEF ContactsNeverMuted
  <2>1. /\ Owners(View, t) = {y \in Partner : number[y] = t}
        /\ Linked(View, t) = {y \in Partner : <<y, t>> \in links}
    BY DEF Owners, Linked, View
  <2>2. \A y \in Partner, u \in Token :
          <<y, u>> \in links /\ (y = x \/ u = t) => number[y] = u
    <3> SUFFICES ASSUME NEW y \in Partner, NEW u \in Token, <<y, u>> \in links, y = x \/ u = t
                 PROVE  number[y] = u
      OBVIOUS
    <3>1. <<y, u>>[1] = y /\ <<y, u>>[2] = u
      OBVIOUS
    <3>2. Known(y, u)
      BY <3>1 DEF NumberInv
    <3> QED
      BY <3>1, <3>2 DEF Known
  <2>3. Linked(View, t) = {} \/ Linked(View, t) = {x}
    BY <2>1, <2>2
  <2>4. HasAuthor(View, t)
    <3>1. Cardinality({x}) = 1
      BY FS_Singleton
    <3> QED
      BY <2>3, <3>1 DEF HasAuthor
  <2>5. Unique(NewLinks(View, t))
    <3> SUFFICES ASSUME NEW n \in NewLinks(View, t), NEW old \in links, n[1] = old[1]
                 PROVE  FALSE
      BY DEF Unique
    <3>1. Linked(View, t) = {} /\ n[1] = x
      BY DEF NewLinks
    <3>2. old[1] = x /\ old[2] \in Token /\ old = <<x, old[2]>>
      <4>1. old = <<old[1], old[2]>> /\ old[1] \in Partner /\ old[2] \in Token
        BY DEF TypeInv, StoredType
      <4> QED
        BY <3>1, <4>1
    <3>3. number[x] = old[2] /\ number[x] = t
      BY <2>1, <2>2, <3>2
    <3> QED
      BY <2>1, <3>1, <3>2, <3>3
  <2> QED
    BY <2>4, <2>5 DEF Blocked
<1>3. GwSpec => [](TypeInv /\ NumberInv)
  BY <1>1, TypeInit, TypeNext, NumberNext, PTL DEF GwSpec
<1> QED
  BY <1>2, <1>3, PTL

(***************************************************************************)
(* The chats of contacts                                                   *)
(***************************************************************************)

\* A request has read an earlier state: chats, guests and links only grow, and a
\* link it has read came with a chat or a guest of its number.
ViewInv ==
  \A p \in Process : request[p].kind # "idle" =>
    LET v == request[p].view IN
    /\ v.links \subseteq links
    /\ \A t \in Token : v.chats[t] <= chats[t] /\ v.guests[t] <= guests[t]
    /\ \A l \in v.links : v.chats[l[2]] > 0 \/ v.guests[l[2]] > 0

\* A link comes with a chat or a guest, a chat with a guest or a link, and a
\* second chat with a guest or a second link.
ChatInv ==
  /\ \A l \in links : chats[l[2]] > 0 \/ guests[l[2]] > 0
  /\ \A t \in Token : chats[t] > 0 =>
       guests[t] > 0 \/ \E x \in Partner : <<x, t>> \in links
  /\ \A t \in Token : chats[t] > 1 =>
       guests[t] > 0 \/ \E x, y \in Partner : x # y /\ <<x, t>> \in links /\ <<y, t>> \in links

\* The link a sending has inserted is the first of its contact, and no other
\* request has inserted one.
LockInv ==
  /\ \A p \in Process : request[p].kind \in {"sending", "sent"} =>
       LinksOfSend(request[p]) = {} \/ \A l \in links : l[1] # request[p].partner
  /\ \A p, q \in Process : p # q => Pending(p) \cap Pending(q) = {}

LinkInv == ViewInv /\ ChatInv /\ LockInv

\* Numbers of chats and guests are natural numbers.
LEMMA StoredNumbers ==
  ASSUME TypeInv
  PROVE  /\ \A t \in Token : chats[t] \in Nat /\ guests[t] \in Nat
         /\ \A l \in links : l[1] \in Partner /\ l[2] \in Token /\ l = <<l[1], l[2]>>
         /\ \A p \in Process : request[p].view \in Views
  BY DEF TypeInv, StoredType, RequestType, Requests

\* What a commit stores grows chats, guests and links.
LEMMA StoreGrows ==
  ASSUME TypeInv, NEW v \in Views, NEW t \in Token, NEW new \in SUBSET (Partner \X Token),
         NEW guest \in Nat, Store(v, t, new, guest)
  PROVE  /\ \A u \in Token : chats[u] <= chats'[u] /\ guests[u] <= guests'[u]
         /\ \A u \in Token : chats'[u] \in Nat /\ guests'[u] \in Nat
         /\ \A u \in Token \ {t} : chats'[u] = chats[u]
         /\ chats'[t] = chats[t] + (IF v.chats[t] = 0 THEN 1 ELSE 0)
         /\ guests'[t] = guests[t] + guest
         /\ links' = links \cup new
<1>1. chats \in [Token -> Nat] /\ guests \in [Token -> Nat]
  BY DEF TypeInv, StoredType
<1>2. chats' = [chats EXCEPT ![t] = @ + (IF v.chats[t] = 0 THEN 1 ELSE 0)]
  BY DEF Store
<1>3. guests' = [guests EXCEPT ![t] = @ + guest]
  BY DEF Store
<1> QED
  BY <1>1, <1>2, <1>3 DEF Store

\* A commit whose new chat has an author keeps the chats with guests or links.
LEMMA StoreKeepsChats ==
  ASSUME TypeInv, ChatInv, NEW v \in Views, NEW t \in Token,
         NEW new \in SUBSET (Partner \X {t}), NEW guest \in Nat, Store(v, t, new, guest),
         v.links \subseteq links, v.chats[t] <= chats[t], v.guests[t] <= guests[t],
         \A l \in v.links : v.chats[l[2]] > 0 \/ v.guests[l[2]] > 0,
         \A n \in new, l \in links : n[1] # l[1],
         v.chats[t] = 0 => guest > 0 \/ v.guests[t] > 0 \/ new # {} \/ Linked(v, t) # {}
  PROVE  ChatInv'
<1>0. new \in SUBSET (Partner \X Token)
  OBVIOUS
<1>1. /\ \A u \in Token : chats[u] <= chats'[u] /\ guests[u] <= guests'[u]
      /\ \A u \in Token : chats'[u] \in Nat /\ guests'[u] \in Nat
      /\ \A u \in Token \ {t} : chats'[u] = chats[u]
      /\ chats'[t] = chats[t] + (IF v.chats[t] = 0 THEN 1 ELSE 0)
      /\ guests'[t] = guests[t] + guest
      /\ links' = links \cup new
  BY <1>0, StoreGrows
<1>2. /\ \A u \in Token : chats[u] \in Nat /\ guests[u] \in Nat
      /\ \A l \in links : l[1] \in Partner /\ l[2] \in Token
  BY StoredNumbers
<1>3. v.chats[t] \in Nat /\ v.guests[t] \in Nat
  BY DEF Views
<1>4. chats'[t] > 0
  BY <1>1, <1>2, <1>3
<1>5. ASSUME NEW l \in links' PROVE chats'[l[2]] > 0 \/ guests'[l[2]] > 0
  <2>1. CASE l \in new
    BY <1>4, <2>1
  <2>2. CASE l \in links
    <3>1. chats[l[2]] > 0 \/ guests[l[2]] > 0
      BY <2>2 DEF ChatInv
    <3>2. /\ chats[l[2]] <= chats'[l[2]] /\ guests[l[2]] <= guests'[l[2]]
          /\ chats'[l[2]] \in Nat /\ guests'[l[2]] \in Nat
          /\ chats[l[2]] \in Nat /\ guests[l[2]] \in Nat
      BY <1>1, <1>2, <2>2
    <3> QED
      BY <3>1, <3>2
  <2> QED
    BY <1>1, <2>1, <2>2
<1>6. v.chats[t] = 0 => guests'[t] > 0 \/ new # {}
  <2>1. ASSUME NEW x \in Linked(v, t), v.chats[t] = 0 PROVE v.guests[t] > 0
    <3>1. <<x, t>> \in v.links
      BY <2>1 DEF Linked
    <3>2. v.chats[<<x, t>>[2]] > 0 \/ v.guests[<<x, t>>[2]] > 0
      BY <3>1
    <3> QED
      BY <2>1, <3>2
  <2> QED
    BY <1>1, <1>2, <1>3, <2>1
<1>7. \A n \in new : n[1] \in Partner /\ n = <<n[1], t>>
  OBVIOUS
<1>8. ASSUME NEW u \in Token, chats'[u] > 0
      PROVE  guests'[u] > 0 \/ \E x \in Partner : <<x, u>> \in links'
  <2>1. chats[u] > 0 \/ (u = t /\ v.chats[t] = 0)
    BY <1>1, <1>2, <1>8
  <2>2. CASE chats[u] > 0
    <3>1. guests[u] > 0 \/ \E x \in Partner : <<x, u>> \in links
      BY <2>2 DEF ChatInv
    <3>2. guests[u] <= guests'[u] /\ guests[u] \in Nat /\ guests'[u] \in Nat
      BY <1>1, <1>2
    <3> QED
      BY <1>1, <3>1, <3>2
  <2>3. CASE u = t /\ v.chats[t] = 0
    BY <1>1, <1>6, <1>7, <2>3
  <2> QED
    BY <2>1, <2>2, <2>3
<1>9. ASSUME NEW u \in Token, chats'[u] > 1
      PROVE  guests'[u] > 0 \/ \E x, y \in Partner : x # y /\ <<x, u>> \in links' /\ <<y, u>> \in links'
  <2>0. guests[u] <= guests'[u] /\ guests[u] \in Nat /\ guests'[u] \in Nat
    BY <1>1, <1>2
  <2>1. chats[u] > 1 \/ (u = t /\ v.chats[t] = 0 /\ chats[t] > 0)
    BY <1>1, <1>2, <1>9
  <2>2. CASE chats[u] > 1
    <3>1. guests[u] > 0 \/ \E x, y \in Partner : x # y /\ <<x, u>> \in links /\ <<y, u>> \in links
      BY <2>2 DEF ChatInv
    <3>2. CASE guests[u] > 0
      BY <2>0, <3>2
    <3>3. ASSUME NEW x \in Partner, NEW y \in Partner, x # y, <<x, u>> \in links,
                 <<y, u>> \in links
          PROVE  <<x, u>> \in links' /\ <<y, u>> \in links'
      BY <1>1, <3>3
    <3> QED
      BY <3>1, <3>2, <3>3
  <2>3. CASE u = t /\ v.chats[t] = 0 /\ chats[t] > 0
    <3>1. guests[t] > 0 \/ \E x \in Partner : <<x, t>> \in links
      BY <2>3 DEF ChatInv
    <3>2. CASE guests[t] > 0
      BY <2>0, <2>3, <3>2
    <3>3. ASSUME NEW x \in Partner, <<x, t>> \in links, NEW n \in new
          PROVE  x # n[1] /\ <<x, t>> \in links' /\ <<n[1], t>> \in links' /\ n[1] \in Partner
      <4>1. <<x, t>>[1] = x
        OBVIOUS
      <4> QED
        BY <1>1, <1>7, <3>3, <4>1
    <3> QED
      BY <1>6, <2>3, <3>1, <3>2, <3>3
  <2> QED
    BY <2>1, <2>2, <2>3
<1> QED
  BY <1>5, <1>8, <1>9 DEF ChatInv

\* A sending that inserts a link locks its contact.
LEMMA Locks ==
  ASSUME TypeInv, LinkInv, NEW q \in Process, request[q].kind \in {"sending", "sent"},
         LinksOfSend(request[q]) # {}
  PROVE  /\ \A l \in links : l[1] # request[q].partner
         /\ Pending(q) = {request[q].partner}
  BY DEF LinkInv, LockInv, ViewInv, Pending

\* A request that begins, or goes on with what it read, keeps the invariant, when
\* a link it inserts is allowed.
LEMMA RequestMoves ==
  ASSUME TypeInv, LinkInv, UNCHANGED <<chats, links, guests>>, NEW p \in Process, NEW r,
         request' = [request EXCEPT ![p] = r],
         r.kind # "idle" =>
           r.view = View \/ (request[p].kind # "idle" /\ r.view = request[p].view),
         r.kind \in {"sending", "sent"} =>
           \/ LinksOfSend(r) = {}
           \/ /\ \A l \in links : l[1] # r.partner
              /\ \A q \in Process \ {p} : r.partner \notin Pending(q)
  PROVE  LinkInv'
<1>1. request'[p] = r /\ \A q \in Process \ {p} : request'[q] = request[q]
  BY DEF TypeInv, RequestType
<1>2. ViewInv'
  <2> SUFFICES ASSUME NEW q \in Process, request'[q].kind # "idle"
               PROVE  LET v == request'[q].view IN
                      /\ v.links \subseteq links
                      /\ \A t \in Token : v.chats[t] <= chats[t] /\ v.guests[t] <= guests[t]
                      /\ \A l \in v.links : v.chats[l[2]] > 0 \/ v.guests[l[2]] > 0
    BY DEF ViewInv
  <2>1. CASE q = p /\ r.view = View
    <3>1. View.links = links /\ View.chats = chats /\ View.guests = guests
      BY DEF View
    <3> QED
      BY <1>1, <2>1, <3>1, StoredNumbers DEF LinkInv, ChatInv
  <2>2. CASE q = p /\ request[p].kind # "idle" /\ r.view = request[p].view
    BY <1>1, <2>2 DEF LinkInv, ViewInv
  <2>3. CASE q # p
    BY <1>1, <2>3 DEF LinkInv, ViewInv
  <2> QED
    BY <1>1, <2>1, <2>2, <2>3
<1>3. ChatInv'
  BY DEF LinkInv, ChatInv
<1>4. \A q \in Process \ {p} : Pending(q)' = Pending(q)
  BY <1>1 DEF Pending
<1>5. Pending(p)' \subseteq {r.partner}
  BY <1>1 DEF Pending
<1>6. Pending(p)' # {} => r.kind \in {"sending", "sent"} /\ LinksOfSend(r) # {}
  <2>1. <<r.partner, r.token>>[1] = r.partner
    OBVIOUS
  <2> QED
    BY <1>1, <2>1 DEF Pending, LinksOfSend
<1>7. LockInv'
  <2>1. \A q \in Process \ {p} : Pending(p)' \cap Pending(q)' = {}
    BY <1>4, <1>5, <1>6
  <2>2. \A a, b \in Process : a # b => Pending(a)' \cap Pending(b)' = {}
    BY <1>4, <2>1 DEF LinkInv, LockInv
  <2>3. \A q \in Process : request'[q].kind \in {"sending", "sent"} =>
          LinksOfSend(request'[q]) = {} \/ \A l \in links : l[1] # request'[q].partner
    BY <1>1 DEF LinkInv, LockInv
  <2> QED
    BY <2>2, <2>3 DEF LockInv
<1> QED
  BY <1>2, <1>3, <1>7 DEF LinkInv

\* The end of a request that stores nothing keeps the invariant.
LEMMA EndKeeps ==
  ASSUME TypeInv, LinkInv, UNCHANGED <<chats, links, guests>>, NEW p \in Process, End(p)
  PROVE  LinkInv'
<1>1. Idle.kind = "idle"
  BY DEF Idle
<1> QED
  BY <1>1, RequestMoves DEF End

\* A commit keeps what the other requests have read and inserted.
LEMMA CommitKeeps ==
  ASSUME TypeInv, LinkInv, NEW p \in Process, End(p),
         NEW v \in Views, NEW t \in Token, NEW new \in SUBSET (Partner \X Token),
         NEW guest \in Nat, Store(v, t, new, guest),
         \A q \in Process \ {p}, n \in new : n[1] \notin Pending(q)
  PROVE  ViewInv' /\ LockInv'
<1>1. /\ request'[p] = Idle /\ Idle.kind = "idle"
      /\ \A q \in Process \ {p} : request'[q] = request[q]
  BY DEF TypeInv, RequestType, End, Idle
<1>2. /\ \A u \in Token : chats[u] <= chats'[u] /\ guests[u] <= guests'[u]
      /\ \A u \in Token : chats'[u] \in Nat /\ guests'[u] \in Nat
      /\ links' = links \cup new
  BY StoreGrows
<1>3. ViewInv'
  <2> SUFFICES ASSUME NEW q \in Process \ {p}, request[q].kind # "idle"
               PROVE  LET w == request[q].view IN
                      /\ w.links \subseteq links'
                      /\ \A u \in Token : w.chats[u] <= chats'[u] /\ w.guests[u] <= guests'[u]
                      /\ \A l \in w.links : w.chats[l[2]] > 0 \/ w.guests[l[2]] > 0
    BY <1>1 DEF ViewInv
  <2>1. ASSUME NEW u \in Token
        PROVE  request[q].view.chats[u] <= chats'[u] /\ request[q].view.guests[u] <= guests'[u]
    <3>1. request[q].view.chats[u] \in Nat /\ request[q].view.guests[u] \in Nat
      BY StoredNumbers DEF Views
    <3>2. chats[u] \in Nat /\ guests[u] \in Nat
      BY StoredNumbers
    <3>3. request[q].view.chats[u] <= chats[u] /\ request[q].view.guests[u] <= guests[u]
      BY DEF LinkInv, ViewInv
    <3> QED
      BY <1>2, <3>1, <3>2, <3>3
  <2> QED
    BY <1>2, <2>1 DEF LinkInv, ViewInv
<1>4. ASSUME NEW q \in Process, request'[q].kind \in {"sending", "sent"},
             LinksOfSend(request'[q]) # {}
      PROVE  \A l \in links' : l[1] # request'[q].partner
  <2>1. q # p /\ request'[q] = request[q]
    BY <1>1, <1>4
  <2>2. /\ \A l \in links : l[1] # request[q].partner
        /\ Pending(q) = {request[q].partner}
    BY <1>4, <2>1, Locks
  <2> QED
    BY <1>2, <2>1, <2>2
<1>5. Pending(p)' = {} /\ \A q \in Process \ {p} : Pending(q)' = Pending(q)
  BY <1>1 DEF Pending
<1>6. LockInv'
  BY <1>4, <1>5 DEF LinkInv, LockInv
<1> QED
  BY <1>3, <1>6

\* The link of a message on its way is nobody else's.
LEMMA SendingAlone ==
  ASSUME TypeInv, LinkInv, NEW p \in Process,
         request[p].kind \in {"sending", "sent"}, LinksOfSend(request[p]) # {}
  PROVE  /\ \A l \in links : l[1] # request[p].partner
         /\ \A q \in Process \ {p} : request[p].partner \notin Pending(q)
<1>1. /\ \A l \in links : l[1] # request[p].partner
      /\ Pending(p) = {request[p].partner}
  BY Locks
<1> QED
  BY <1>1 DEF LinkInv, LockInv

LEMMA LinkNext == TypeInv /\ LinkInv /\ [GwNext]_gwVars => LinkInv'
<1> SUFFICES ASSUME TypeInv, LinkInv, [GwNext]_gwVars PROVE LinkInv'
  OBVIOUS
<1>1. request \in [Process -> Requests] /\ RequestType
  BY DEF TypeInv, RequestType
<1>2. Idle.kind = "idle"
  BY DEF Idle
<1>a. ASSUME UNCHANGED <<request, chats, links, guests>> PROVE LinkInv'
  BY <1>a DEF LinkInv, ViewInv, ChatInv, LockInv, Pending
<1>b. ASSUME NEW p \in Process, NEW m \in Message, Refuse(p, m) PROVE LinkInv'
  BY <1>a, <1>b DEF Refuse, stored
<1>c. ASSUME NEW p \in Process, NEW m \in Message, Receive(p, m) PROVE LinkInv'
  <2> DEFINE r == [Idle EXCEPT !.kind = "update", !.msg = m, !.token = From[m], !.view = View]
  <2>1. request' = [request EXCEPT ![p] = r] /\ UNCHANGED <<chats, links, guests>>
    BY <1>c DEF Receive, stored
  <2>2. r.kind = "update" /\ r.view = View
    BY DEF Idle
  <2> HIDE DEF r
  <2> QED
    BY <2>1, <2>2, RequestMoves
<1>d. ASSUME NEW p \in Process, CommitUpdate(p) PROVE LinkInv'
  <2> DEFINE r == request[p]
  <2> DEFINE new == LinksOfUpdate(r)
  <2> DEFINE guest == IF AsksAuthor(r) THEN NewGuest(r.view, r.token) ELSE 0
  <2>1. /\ r.kind = "update" /\ r \in Requests /\ r.token \in Token /\ r.view \in Views
    BY <1>1, <1>d DEF CommitUpdate, RequestType, Requests
  <2>2. /\ Store(r.view, r.token, new, guest) /\ End(p) /\ Unique(new)
        /\ ~Waits(p, new)
    BY <1>d DEF CommitUpdate
  <2>3. new \in SUBSET (Partner \X {r.token}) /\ new \in SUBSET (Partner \X Token)
    BY <2>1 DEF LinksOfUpdate, NewLinks, Owners
  <2>4. guest \in Nat
    BY <2>1, NewTypes
  <2>5. /\ r.view.links \subseteq links
        /\ r.view.chats[r.token] <= chats[r.token] /\ r.view.guests[r.token] <= guests[r.token]
        /\ \A l \in r.view.links : r.view.chats[l[2]] > 0 \/ r.view.guests[l[2]] > 0
    BY <2>1 DEF LinkInv, ViewInv
  <2>6. \A n \in new, l \in links : n[1] # l[1]
    BY <2>2 DEF Unique
  <2>7. r.view.chats[r.token] = 0 =>
          guest > 0 \/ r.view.guests[r.token] > 0 \/ new # {} \/ Linked(r.view, r.token) # {}
    <3> SUFFICES ASSUME r.view.chats[r.token] = 0, Linked(r.view, r.token) = {}
                 PROVE  guest > 0 \/ r.view.guests[r.token] > 0 \/ new # {}
      OBVIOUS
    <3>1. r.view.guests[r.token] \in Nat
      BY <2>1 DEF Views
    <3>2. AsksAuthor(r)
      BY DEF AsksAuthor
    <3>3. new = Owners(r.view, r.token) \X {r.token} /\ guest = NewGuest(r.view, r.token)
      BY <3>2 DEF LinksOfUpdate, NewLinks
    <3>4. CASE Owners(r.view, r.token) = {}
      BY <3>1, <3>3, <3>4 DEF NewGuest
    <3>5. ASSUME NEW x \in Owners(r.view, r.token) PROVE new # {}
      <4>1. <<x, r.token>> \in new
        BY <3>3, <3>5
      <4> QED
        BY <4>1
    <3> QED
      BY <3>4, <3>5
  <2>8. \A q \in Process \ {p}, n \in new : n[1] \notin Pending(q)
    BY <2>2 DEF Waits
  <2> HIDE DEF new, guest
  <2>9. ChatInv'
    BY <2>1, <2>2, <2>3, <2>4, <2>5, <2>6, <2>7, StoreKeepsChats DEF LinkInv
  <2>10. ViewInv' /\ LockInv'
    BY <2>1, <2>2, <2>3, <2>4, <2>8, CommitKeeps
  <2> QED
    BY <2>9, <2>10 DEF LinkInv
<1>e. ASSUME NEW p \in Process, RejectUpdate(p) \/ FailUpdate(p) PROVE LinkInv'
  <2>1. End(p) /\ UNCHANGED <<chats, links, guests>>
    BY <1>e DEF RejectUpdate, FailUpdate, stored
  <2> QED
    BY <2>1, EndKeeps
<1>f. ASSUME NEW p \in Process, NEW x \in Partner, NEW t \in Token, Compose(p, x, t)
      PROVE  LinkInv'
  <2> DEFINE r == [Idle EXCEPT !.kind = "composed", !.partner = x, !.token = t, !.view = View]
  <2>1. request' = [request EXCEPT ![p] = r] /\ UNCHANGED <<chats, links, guests>>
    BY <1>f DEF Compose, stored
  <2>2. r.kind = "composed" /\ r.view = View
    BY DEF Idle
  <2> HIDE DEF r
  <2> QED
    BY <2>1, <2>2, RequestMoves
<1>g. ASSUME NEW p \in Process, GetChannel(p) PROVE LinkInv'
  <2> DEFINE r == [request[p] EXCEPT !.kind = "sending"]
  <2>1. /\ request[p].kind = "composed" /\ UNCHANGED <<chats, links, guests>>
        /\ ~Waits(p, LinksOfSend(request[p]))
        /\ request' = [request EXCEPT ![p] = IF CanSend(request[p]) THEN r ELSE Idle]
    BY <1>g DEF GetChannel, stored
  <2>2. /\ r.view = request[p].view /\ r.partner = request[p].partner
        /\ r.token = request[p].token /\ r.kind = "sending"
    BY <1>1 DEF Requests
  <2>3. LinksOfSend(r) = LinksOfSend(request[p])
    BY <2>2 DEF LinksOfSend
  <2> HIDE DEF r
  <2>4. CASE CanSend(request[p])
    <3>1. LinksOfSend(r) # {} => <<r.partner, r.token>> \in LinksOfSend(request[p])
      BY <2>2 DEF LinksOfSend
    <3>2. <<r.partner, r.token>>[1] = r.partner
      OBVIOUS
    <3>3. LinksOfSend(r) # {} =>
            /\ \A l \in links : l[1] # r.partner
            /\ \A q \in Process \ {p} : r.partner \notin Pending(q)
      BY <2>1, <2>4, <3>1, <3>2 DEF CanSend, Unique, Waits
    <3>4. request' = [request EXCEPT ![p] = r]
      BY <2>1, <2>4
    <3> QED
      BY <2>1, <2>2, <3>3, <3>4, RequestMoves
  <2>5. CASE ~CanSend(request[p])
    <3>1. End(p)
      BY <2>1, <2>5 DEF End
    <3> QED
      BY <2>1, <3>1, EndKeeps
  <2> QED
    BY <2>4, <2>5
<1>i. ASSUME NEW p \in Process, SendParts(p) PROVE LinkInv'
  <2>0. PICK a \in {"none", "some", "all"} :
          request' = [request EXCEPT ![p].kind = "sent", ![p].accepted = a]
    BY <1>i DEF SendParts
  <2> DEFINE r == [request[p] EXCEPT !.kind = "sent", !.accepted = a]
  <2>1. /\ request[p].kind = "sending" /\ UNCHANGED <<chats, links, guests>>
        /\ request' = [request EXCEPT ![p] = r]
    BY <1>1, <1>i, <2>0 DEF SendParts, stored, Requests
  <2>2. /\ r.view = request[p].view /\ r.partner = request[p].partner
        /\ r.token = request[p].token /\ r.kind = "sent"
    BY <1>1 DEF Requests
  <2>3. LinksOfSend(r) = LinksOfSend(request[p])
    BY <2>2 DEF LinksOfSend
  <2>4. LinksOfSend(r) # {} =>
          /\ \A l \in links : l[1] # r.partner
          /\ \A q \in Process \ {p} : r.partner \notin Pending(q)
    BY <2>1, <2>2, <2>3, SendingAlone
  <2> HIDE DEF r
  <2> QED
    BY <2>1, <2>2, <2>4, RequestMoves
<1>k. ASSUME NEW p \in Process, CommitSend(p) PROVE LinkInv'
  <2> DEFINE r == request[p]
  <2>1. /\ r.kind = "sent" /\ r \in Requests /\ r.token \in Token /\ r.view \in Views
        /\ r.partner \in Partner
    BY <1>1, <1>k DEF CommitSend, RequestType, Requests, Sending
  <2>2. Store(r.view, r.token, LinksOfSend(r), 0) /\ End(p)
    BY <1>k DEF CommitSend
  <2>3. /\ LinksOfSend(r) \in SUBSET (Partner \X {r.token})
        /\ LinksOfSend(r) \in SUBSET (Partner \X Token)
    BY <2>1 DEF LinksOfSend
  <2>4. /\ r.view.links \subseteq links
        /\ r.view.chats[r.token] <= chats[r.token] /\ r.view.guests[r.token] <= guests[r.token]
        /\ \A l \in r.view.links : r.view.chats[l[2]] > 0 \/ r.view.guests[l[2]] > 0
    BY <2>1 DEF LinkInv, ViewInv
  <2>5. \A n \in LinksOfSend(r) : n[1] = r.partner
    BY DEF LinksOfSend
  <2>6. LinksOfSend(r) # {} =>
          /\ \A l \in links : l[1] # r.partner
          /\ Pending(p) = {r.partner}
    BY <2>1, Locks
  <2>7. LinksOfSend(r) # {} \/ Linked(r.view, r.token) # {}
    BY <2>1 DEF LinksOfSend, Linked
  <2>8. \A n \in LinksOfSend(r), l \in links : n[1] # l[1]
    BY <2>5, <2>6
  <2>9. \A q \in Process \ {p}, n \in LinksOfSend(r) : n[1] \notin Pending(q)
    BY <2>5, <2>6 DEF LinkInv, LockInv
  <2>10. ChatInv'
    BY <2>1, <2>2, <2>3, <2>4, <2>7, <2>8, StoreKeepsChats DEF LinkInv
  <2>11. ViewInv' /\ LockInv'
    BY <2>1, <2>2, <2>3, <2>9, CommitKeeps
  <2> QED
    BY <2>10, <2>11 DEF LinkInv
<1>l. ASSUME NEW p \in Process, RetrySend(p) PROVE LinkInv'
  <2> DEFINE r == [request[p] EXCEPT !.kind = "composed", !.accepted = "none", !.view = View]
  <2>1. request' = [request EXCEPT ![p] = r] /\ UNCHANGED <<chats, links, guests>>
    BY <1>1, <1>l DEF RetrySend, stored, Requests
  <2>2. r.kind = "composed" /\ r.view = View
    BY <1>1 DEF Requests
  <2> HIDE DEF r
  <2> QED
    BY <2>1, <2>2, RequestMoves
<1>m. ASSUME NEW t \in Token, NEW x \in Partner, MergeGuest(t, x) PROVE LinkInv'
  <2>1. /\ guests[t] > 0 /\ UNCHANGED <<chats, guests, request>>
        /\ links' = links \cup {<<x, t>>} /\ \A p \in Process : x \notin Pending(p)
    BY <1>m DEF MergeGuest
  <2>2. <<x, t>>[1] = x /\ <<x, t>>[2] = t
    OBVIOUS
  <2>3. ViewInv'
    BY <2>1 DEF LinkInv, ViewInv
  <2>4. ChatInv'
    BY <2>1, <2>2 DEF LinkInv, ChatInv
  <2>5. \A p \in Process : Pending(p)' = Pending(p)
    BY <2>1 DEF Pending
  <2>6. ASSUME NEW p \in Process, request[p].kind \in {"sending", "sent"},
               LinksOfSend(request[p]) # {}
        PROVE  \A l \in links' : l[1] # request[p].partner
    BY <2>1, <2>2, <2>6, Locks
  <2>7. LockInv'
    BY <2>1, <2>5, <2>6 DEF LinkInv, LockInv
  <2> QED
    BY <2>3, <2>4, <2>7 DEF LinkInv
<1>n. ASSUME NEW p \in Process, Verify(p) PROVE LinkInv'
  BY <1>a, <1>n DEF Verify, stored
<1>h. ASSUME NEW p \in Process, AskElsewhere(p) PROVE LinkInv'
  BY <1>a, <1>h DEF AskElsewhere, stored
<1>o. ASSUME SetWebhook PROVE LinkInv'
  BY <1>a, <1>o DEF SetWebhook, stored
<1>p. ASSUME NEW x \in Partner, ChangeNumber(x) PROVE LinkInv'
  BY <1>a, <1>p DEF ChangeNumber, stored
<1>q. CASE UNCHANGED gwVars
  BY <1>a, <1>q DEF gwVars, stored
<1> QED
  BY <1>b, <1>c, <1>d, <1>e, <1>f, <1>g, <1>h, <1>i, <1>k, <1>l, <1>m, <1>n,
     <1>o, <1>p, <1>q DEF GwNext, Deliver, Handle

\* Two contacts are more than one.
LEMMA TwoAreMore ==
  ASSUME NEW S \in SUBSET Partner, NEW x \in S, NEW y \in S, x # y
  PROVE  Cardinality(S) > 1
<1>1. IsFiniteSet(S)
  BY GatewayAssumption, FS_Subset
<1>2. IsFiniteSet(S \ {x}) /\ Cardinality(S \ {x}) = Cardinality(S) - 1
  BY <1>1, FS_RemoveElement
<1>3. Cardinality(S \ {x}) # 0 /\ Cardinality(S \ {x}) \in Nat
  BY <1>2, FS_EmptySet, FS_CardinalityType
<1>4. Cardinality(S) \in Nat
  BY <1>1, FS_CardinalityType
<1> QED
  BY <1>2, <1>3, <1>4

\* However updates and sendings overlap, a number gets a second chat only when it
\* has a guest or several contacts.
THEOREM OneChat == GwSpec => []OneChatPerPartner
<1>1. GwInit => LinkInv
  BY DEF GwInit, LinkInv, ViewInv, ChatInv, LockInv, Pending, Idle
<1>2. TypeInv /\ LinkInv => OneChatPerPartner
  <2> SUFFICES ASSUME TypeInv, LinkInv, NEW t \in Token, chats[t] > 1, ~(guests[t] > 0)
               PROVE  Cardinality(Linked(View, t)) > 1
    BY DEF OneChatPerPartner
  <2>1. Linked(View, t) = {x \in Partner : <<x, t>> \in links}
    BY DEF Linked, View
  <2>2. PICK x, y \in Partner : x # y /\ <<x, t>> \in links /\ <<y, t>> \in links
    BY DEF LinkInv, ChatInv
  <2>3. Linked(View, t) \in SUBSET Partner /\ x \in Linked(View, t) /\ y \in Linked(View, t)
    BY <2>1, <2>2
  <2> QED
    BY <2>2, <2>3, TwoAreMore
<1>3. GwSpec => [](TypeInv /\ LinkInv)
  BY <1>1, TypeInit, TypeNext, LinkNext, PTL DEF GwSpec
<1> QED
  BY <1>2, <1>3, PTL
=============================================================================
