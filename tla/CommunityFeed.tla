--------------------------- MODULE CommunityFeed ---------------------------
(***************************************************************************)
(* The feed page, practice_app/static/feed.js, in front of PracticeStore.   *)
(*                                                                          *)
(* loadPosts() empties the list, waits for the server and appends; the page *)
(* starts one when it opens and one for every search, and an earlier one is *)
(* not cancelled.  A like or a comment updates the card it was made on,     *)
(* which may have been taken off the page while the request was under way.  *)
(***************************************************************************)
EXTENDS PracticeStore

CONSTANT MaxRequests   \* bound on the requests all pages send

(* The slot of likes, comments and publishing; the others are for loads. *)
ASSUME SlotsAssumption == "act" \in Slots

VARIABLES
    cards,    \* the cards on each page, in order
    message,  \* the status line of each page
    loads,    \* loads each page has started: the key of their cards
    sent,     \* requests sent so far
    search    \* query of the last load of each page

page == <<cards, message, loads, search>>
vars == <<server, page, sent>>

Init ==
    /\ ServerInit
    /\ cards = [p \in Pages |-> <<>>]
    /\ message = [p \in Pages |-> "login"]
    /\ loads = [p \in Pages |-> 0] /\ sent = 0
    /\ search = [p \in Pages |-> "all"]

LoadSlots == {s \in Slots : s # "act"}

Send(p, s, call) ==
    /\ calls[p][s] = None /\ sent < MaxRequests
    /\ calls' = [calls EXCEPT ![p][s] = call] /\ sent' = sent + 1
    /\ UNCHANGED <<store, media, access>>

Receive(p, s) ==
    /\ calls[p][s] # None /\ calls[p][s].stage = "replied"
    /\ calls' = [calls EXCEPT ![p][s] = None]
    /\ UNCHANGED <<store, media, access, sent>>

----------------------------------------------------------------------------
(* login() and the opening of the feed *)

Login(p) ==
    /\ message[p] = "login" /\ \A s \in Slots : calls[p][s] = None
    /\ sent < MaxRequests
    /\ sessions' = sessions \cup {p}
    /\ message' = [message EXCEPT ![p] = "open"]
    /\ UNCHANGED <<store, media, faults, calls, cards, loads, sent, search>>

BeginLoad(p, s, query) ==
    /\ message[p] # "login" /\ s \in LoadSlots
    /\ message[p] = "open" => query = "all"
    /\ Send(p, s, Call("load", 0, 0, loads[p] + 1, query))
    /\ loads' = [loads EXCEPT ![p] = @ + 1]
    /\ search' = [search EXCEPT ![p] = query]
    /\ cards' = [cards EXCEPT ![p] = <<>>]
    /\ message' = [message EXCEPT ![p] = "loading"]

(* The cards of one answer; a reply may also be lost on its way. *)
EndLoad(p, s) ==
    LET call == calls[p][s]
        new == [i \in 1 .. Len(call.view) |->
                  [key |-> call.key, post |-> call.view[i].post, stamp |-> call.view[i].stamp,
                   count |-> call.view[i].count, list |-> call.view[i].list,
                   likes |-> call.view[i].likes, liked |-> call.view[i].liked]] IN
    /\ s \in LoadSlots /\ Receive(p, s)
    /\ \/ /\ message[p] = "login" /\ UNCHANGED <<cards, message>>
       \/ /\ message[p] # "login" /\ call.status = 401
          /\ cards' = [cards EXCEPT ![p] = <<>>]
          /\ message' = [message EXCEPT ![p] = "login"]
       \/ /\ message[p] # "login"
          /\ message' = [message EXCEPT ![p] = "error"] /\ UNCHANGED cards
       \/ /\ message[p] # "login" /\ call.status = 200 /\ new = <<>>
          /\ message' = [message EXCEPT ![p] = "empty"] /\ UNCHANGED cards
       \/ /\ message[p] # "login" /\ call.status = 200 /\ new # <<>>
          /\ message' = [message EXCEPT ![p] = "hidden"]
          /\ cards' = [cards EXCEPT ![p] = @ \o new]
    /\ UNCHANGED <<loads, search>>

----------------------------------------------------------------------------
(* likes, comments and publishing *)

BeginAction(p, kind) ==
    /\ message[p] # "login"
    /\ \E i \in 1 .. Len(cards[p]) :
         Send(p, "act", Call(kind, cards[p][i].post, cards[p][i].stamp, cards[p][i].key, "all"))
    /\ UNCHANGED page

BeginPublish(p) ==
    /\ message[p] # "login" /\ published < MaxPosts
    /\ Send(p, "act", Call("publish", 0, 0, 0, "all"))
    /\ UNCHANGED page

(* Mutants: the card is looked up by its post, not captured by the handler; *)
(* every card of the load is updated.                                       *)
SameCardByKey(card, call) == card.key = call.key

SameCardByPost(card, call) == card.post = call.post

SameCard(card, call) == card.post = call.post /\ card.key = call.key

Updated(card, call) ==
    CASE call.kind = "comment" ->
           [card EXCEPT !.list = Append(@, call.comment), !.count = call.count]
      [] call.kind = "like" -> [card EXCEPT !.likes = call.count, !.liked = call.liked]
      [] OTHER -> card

EndAction(p) ==
    LET call == calls[p]["act"] IN
    /\ Receive(p, "act")
    /\ \/ UNCHANGED cards   \* an error, or the reply is lost
       \/ /\ call.status \in {200, 201}
          /\ cards' = [cards EXCEPT ![p] =
               [i \in 1 .. Len(@) |-> IF SameCard(@[i], call) THEN Updated(@[i], call) ELSE @[i]]]
    /\ UNCHANGED <<message, loads, search>>

Browse(p) ==
    \/ Login(p)
    \/ \E s \in Slots, query \in Queries : BeginLoad(p, s, query)
    \/ \E s \in Slots : EndLoad(p, s)
    \/ \E kind \in {"like", "comment"} : BeginAction(p, kind)
    \/ BeginPublish(p) \/ EndAction(p)

Next ==
    \/ Serve /\ UNCHANGED <<page, sent>>
    \/ \E p \in Pages : Browse(p)

Spec == Init /\ [][Next]_vars

----------------------------------------------------------------------------
(* Properties *)

TypeOK ==
    /\ StoreTypeOK
    /\ message \in [Pages -> {"login", "open", "loading", "error", "empty", "hidden"}]
    /\ \A p \in Pages : loads[p] \in 0 .. sent /\ search[p] \in Queries

(* A comment is never shown twice on a card: a reload that already brings   *)
(* it and the reply that reports it do not add up (feed.js submit handler). *)
NoCommentTwice ==
    \A p \in Pages : \A i \in 1 .. Len(cards[p]) :
        \A j, k \in 1 .. Len(cards[p][i].list) :
            cards[p][i].list[j] = cards[p][i].list[k] => j = k

(* A comment a card shows was accepted for that card's own post and, as     *)
(* long as the post exists, is still there: a card never shows a comment of *)
(* another post, or one that was not saved.                                 *)
ShownCommentsAreSaved ==
    \A p \in Pages : \A i \in 1 .. Len(cards[p]) :
        LET card == cards[p][i] IN
        (card.post \in DOMAIN posts /\ posts[card.post].stamp = card.stamp) =>
            \A j \in 1 .. Len(card.list) :
                \E c \in comments : c.id = card.list[j] /\ c.post = card.post

(* mana/business_rules.md COMMENT-01: API count, UI count and comment-list  *)
(* length must agree.                                                       *)
CountsAgree ==
    \A p \in Pages : \A i \in 1 .. Len(cards[p]) :
        cards[p][i].count = Len(cards[p][i].list)

(* mana/business_rules.md SEARCH-02: a query without matches says so.  Once *)
(* every answer is in, the page of a search without matches shows that      *)
(* message (or an error) and not the posts of an earlier load.              *)
EmptySearchSaysSo ==
    \A p \in Pages :
        (/\ \A s \in LoadSlots : calls[p][s] = None
         /\ loads[p] > 0 /\ search[p] = "none" /\ message[p] # "login") =>
            message[p] \in {"empty", "error"}
=============================================================================
